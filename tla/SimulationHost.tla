--------------------------- MODULE SimulationHost ---------------------------
(***************************************************************************)
(* Who may move the player's vehicle: the session half of SimulationHost   *)
(* (simulation_host_session.cpp) with the part of run_tick that the        *)
(* deadlines and a map reload take in it (simulation_host.cpp), the lease  *)
(* (module LeaseOps) and as much of the WebSocket server as decides which  *)
(* connection may still deliver a frame.                                   *)
(*                                                                         *)
(* The server runs on one thread: each frame handler and each tick is one  *)
(* step.  The map package watcher runs on a thread of its own and only     *)
(* fills pendingMap, under a mutex.                                        *)
(*                                                                         *)
(* A rejected frame changes nothing, so a frame that fails a check has no  *)
(* step, except that a connection whose first frame is no accepted Hello   *)
(* is closed (Disconnect, EmergencyStop).  Every frame carries the         *)
(* checksum of the map its sender believes in, and each handler rejects it *)
(* when it is not the installed one: frames are drawn with the right one.  *)
(* The player's configuration is main.cpp's: require_client_hello, so that *)
(* connection generations start at 1.                                      *)
(***************************************************************************)
EXTENDS Integers, Sequences, FiniteSets

CONSTANTS
    Sources, Sessions,    \* Envelope.source_id and Envelope.session_id
    Plays,                \* SimulationReset.play_session_id
    NoKey, NoPlay,        \* the empty identity, no play session
    Classes, Unspecified, Sedan,  \* vehicle classes of a reset
    Loadouts, DefaultLoadout,     \* vehicle_loadout_id; the empty one
    Catalog,              \* pairs of class and loadout the catalog resolves
    Maps, FirstMap, NoMap,        \* checksums of map packages
    Inputs, SafeInput,    \* driving inputs; make_safe_stop_input()
    Timeout, HardTimeout, MaxQueueAge,
    MaxHellos,            \* kMaxHelloConnections
    MaxPlays,             \* kMaxTrackedPlaySessions
    MaxGeneration,        \* bound on the connections of a run
    MaxSeq, ClientTimes,  \* bounds on sequences and client clocks
    HelloSeqs, EStopSeqs, \* sequences of a greeting, of an emergency stop
    MaxTime,              \* bound on the server clock
    FrameHorizon,         \* no frame arrives after this time
    Workloads             \* the questions of a run, chosen at its start

Keys == Sources \X Sessions
PlayKeys == Sources \X Plays
Generations == 1..MaxGeneration

INSTANCE LeaseOps

\* What one question needs: how many connections, until when the clock runs,
\* whether the clients announce vehicle-loadout.v1 and press the emergency
\* stop, and which map packages are delivered.
Workload ==
    [ connections : 0..MaxGeneration, time : 0..MaxTime, loadouts : BOOLEAN,
      stops : BOOLEAN, deliveries : SUBSET Maps ]

ASSUME HostAssumption ==
    /\ NoKey \notin Keys
    /\ Timeout \in Nat \ {0} /\ HardTimeout \in Nat /\ HardTimeout > Timeout
    /\ NoPlay \notin PlayKeys
    /\ NoMap \notin Maps /\ FirstMap \in Maps
    /\ SafeInput \notin Inputs
    /\ Sedan \in Classes /\ Unspecified \in Classes /\ Unspecified # Sedan
    /\ DefaultLoadout \in Loadouts
    /\ Catalog \subseteq Classes \X Loadouts
    /\ <<Sedan, DefaultLoadout>> \in Catalog
    /\ MaxHellos \in Nat \ {0} /\ MaxPlays \in Nat /\ MaxGeneration \in Nat
    /\ MaxSeq \in Nat /\ MaxTime \in Nat /\ FrameHorizon \in Nat
    /\ ClientTimes \subseteq Nat
    /\ HelloSeqs \subseteq 1..MaxSeq /\ EStopSeqs \subseteq 1..MaxSeq
    /\ Workloads \subseteq Workload

VARIABLES
    work,        \* the workload of this run
    now,         \* the server's steady clock
    socket,      \* state of each connection, one of SocketStates
    pendingMap,  \* pending_map_package_
    map,         \* config_.map_package_checksum
    hello,       \* hello_connection_states_, by generation
    lease,       \* control_lease_
    lifecycle,   \* lifecycle_active_ and the active_* and lifecycle_* fields
    seenPlays,   \* seen_play_sessions_
    vehicle,     \* active_vehicle_class_, active_vehicle_loadout_id_
    estop,       \* estop_latched_
    input,       \* applied_input_
    runs,        \* history: the simulations started, "reload" between maps
    topGen,      \* history: the newest connection that ever owned motion
    used         \* history: every key and sequence that drove the vehicle,
                 \* and whether one did so twice

serverVars == <<work, now, socket, pendingMap>>
hostVars == <<map, hello, lease, lifecycle, seenPlays, vehicle,
              estop, input>>
history == <<runs, topGen, used>>
vars == <<serverVars, hostVars, history>>

NoLifecycle ==
    [ active |-> FALSE, key |-> NoKey, gen |-> 0, play |-> NoPlay,
      seq |-> 0, clientTime |-> 0 ]

Reload == [play |-> NoPlay, vehicle |-> <<Unspecified, DefaultLoadout>>]

Init ==
    /\ work \in Workloads
    /\ now = 0
    /\ socket = [g \in Generations |-> "none"]
    /\ pendingMap = NoMap
    /\ map = FirstMap
    /\ hello = <<>>
    /\ lease = FreshLease
    /\ lifecycle = NoLifecycle
    /\ seenPlays = {}
    /\ vehicle = <<Sedan, DefaultLoadout>>
    /\ estop = FALSE
    /\ input = SafeInput
    /\ runs = <<>>
    /\ topGen = 0
    /\ used = [pairs |-> {}, replayed |-> FALSE]

-----------------------------------------------------------------------------
(* The WebSocket server.  A connection delivers frames while it is open    *)
(* (its first frame not yet accepted) or ready.  One that failed may leave *)
(* one last frame behind, read already but not yet dispatched ("dying");   *)
(* close_all() does not reach it any more (module WsSession).              *)

SocketStates == {"none", "open", "ready", "dying", "closed"}

Live(g) == socket[g] \in {"open", "ready"}

Delivering(g) == Live(g) \/ socket[g] = "dying"

\* The state of the connection after its frame was rejected or accepted.
AfterFrame(g, accepted) ==
    [ socket EXCEPT ![g] =
        CASE @ = "dying"                -> "closed"
          [] @ = "open" /\ accepted     -> "ready"
          [] @ = "open" /\ ~accepted    -> "closed"
          [] OTHER                      -> @ ]

Connect(g) ==
    /\ socket[g] = "none"
    /\ \A h \in Generations : h < g => socket[h] # "none"
    /\ socket' = [socket EXCEPT ![g] = "open"]
    /\ UNCHANGED <<work, now, pendingMap, hostVars, history>>

\* The peer leaves, the network fails, or a frame that must be an accepted
\* Hello was none.  The host is not told.
Disconnect(g) ==
    /\ Delivering(g)
    /\ \E s \in IF Live(g) THEN {"dying", "closed"} ELSE {"closed"} :
         socket' = [socket EXCEPT ![g] = s]
    /\ UNCHANGED <<work, now, pendingMap, hostVars, history>>

\* Mutant of AllClosed: only the owner's connection is closed.
OwnerClosed ==
    [ g \in Generations |->
        IF Live(g) /\ g = topGen THEN "closed" ELSE socket[g] ]

\* close_all(): a session that is closing dispatches no further frame.
AllClosed ==
    [g \in Generations |-> IF Live(g) THEN "closed" ELSE socket[g]]

-----------------------------------------------------------------------------
(* Frames.                                                                 *)

Hellos == [ kind : {"hello"}, key : Keys, seq : HelloSeqs,
            loadouts : BOOLEAN ]

Controls == [ kind : {"control"}, key : Keys, seq : 1..MaxSeq,
              clientTime : ClientTimes, input : Inputs ]

EStops == [kind : {"estop"}, key : Keys, seq : EStopSeqs]

Resets == [ kind : {"reset"}, key : Keys, seq : 1..MaxSeq,
            clientTime : ClientTimes, play : Plays, class : Classes,
            loadout : Loadouts ]

Frames == Hellos \cup Controls \cup EStops \cup Resets

\* The frame fits what its connection has said so far: the identity of its
\* Hello, and a sequence number not below the highest accepted one, equal to
\* it only for the same frame again.
InOrder(g, m) ==
    /\ m.key = hello[g].key
    /\ m.seq >= hello[g].last.seq
    /\ m.seq = hello[g].last.seq => m = hello[g].last

Negotiated(g, m) == g \in DOMAIN hello /\ InOrder(g, m)

\* Only an accepted frame raises the connection's highest sequence.
Remember(g, m) == hello' = [hello EXCEPT ![g].last = m]

Oldest(S) == CHOOSE g \in S : \A h \in S : g <= h

\* The entries that stay when a new connection needs room.
Kept ==
    IF Cardinality(DOMAIN hello) >= MaxHellos
      THEN DOMAIN hello \ {Oldest(DOMAIN hello)}
      ELSE DOMAIN hello

HandleHello(g, m) ==
    /\ Delivering(g) /\ now <= FrameHorizon
    /\ m.loadouts = work.loadouts
    /\ IF g \in DOMAIN hello
         THEN /\ InOrder(g, m)
              /\ m.loadouts = hello[g].loadouts
              /\ Remember(g, m)
         ELSE hello' = [ h \in Kept \cup {g} |->
                           IF h = g
                             THEN [ key |-> m.key, loadouts |-> m.loadouts,
                                    last |-> m ]
                             ELSE hello[h] ]
    /\ socket' = AfterFrame(g, TRUE)
    /\ UNCHANGED << work, now, pendingMap, map, lease, lifecycle, seenPlays,
                    vehicle, estop, input, history >>

\* An emergency stop needs no Hello and no lifecycle.  As a first frame it
\* is obeyed, and then its connection is closed.
EmergencyStop(g, m) ==
    /\ Delivering(g) /\ now <= FrameHorizon
    /\ work.stops
    /\ IF g \in DOMAIN hello
         THEN InOrder(g, m) /\ Remember(g, m)
         ELSE UNCHANGED hello
    /\ estop' = TRUE
    /\ input' = SafeInput
    /\ socket' = AfterFrame(g, FALSE)
    /\ UNCHANGED << work, now, pendingMap, map, lease, lifecycle, seenPlays,
                    vehicle, history >>

\* Mutant of OwnsLifecycle: any negotiated connection may send commands.
LifecycleExists(g, m) == lifecycle.active

OwnsLifecycle(g, m) ==
    /\ lifecycle.active
    /\ m.key = lifecycle.key
    /\ g = lifecycle.gen

HandleControl(g, m) ==
    /\ Delivering(g) /\ now <= FrameHorizon
    /\ Negotiated(g, m)
    /\ OwnsLifecycle(g, m)
    /\ ~estop
    /\ CanAccept(lease, m, now)
    /\ lease' = AfterAccept(lease, m, now)
    /\ input' = m.input
    /\ Remember(g, m)
    /\ used' = [ pairs |-> used.pairs \cup {<<m.key, m.seq>>},
                 replayed |-> used.replayed
                                \/ <<m.key, m.seq>> \in used.pairs ]
    /\ socket' = AfterFrame(g, TRUE)
    /\ UNCHANGED << work, now, pendingMap, map, lifecycle, seenPlays, vehicle,
                    estop, runs, topGen >>

-----------------------------------------------------------------------------
(* SimulationReset.                                                        *)

PlayKey(m) == <<m.key[1], m.play>>

Selected(m) ==
    << IF m.class = Unspecified THEN Sedan ELSE m.class, m.loadout >>

\* The checks every reset passes first.  One that only rejects, that a reset
\* with another loadout finds the vehicle at rest, is left out.
ValidReset(g, m) ==
    /\ Delivering(g) /\ now <= FrameHorizon
    /\ Negotiated(g, m)
    /\ m.clientTime > 0
    /\ ~estop
    /\ Selected(m) \in Catalog
    /\ m.loadout # DefaultLoadout => hello[g].loadouts

\* Mutant of AlreadySeen: only the running play is remembered.
AlreadyRunning(m) == PlayKey(m) = lifecycle.play

AlreadySeen(m) == PlayKey(m) \in seenPlays

LifecycleOf(g, m) ==
    [ active |-> TRUE, key |-> m.key, gen |-> g, play |-> PlayKey(m),
      seq |-> m.seq, clientTime |-> m.clientTime ]

\* The same connection repeats its reset: nothing but the order it has
\* reached is recorded.
RepeatReset(g, m) ==
    /\ ValidReset(g, m)
    /\ lifecycle.active /\ g = lifecycle.gen
    /\ m.key = lifecycle.key /\ PlayKey(m) = lifecycle.play
    /\ Selected(m) = vehicle
    /\ m.seq >= lifecycle.seq /\ m.clientTime >= lifecycle.clientTime
    /\ lifecycle' = IF m.seq = lifecycle.seq THEN lifecycle
                                             ELSE LifecycleOf(g, m)
    /\ Remember(g, m)
    /\ socket' = AfterFrame(g, TRUE)
    /\ UNCHANGED << work, now, pendingMap, map, lease, seenPlays, vehicle, estop,
                    input, history >>

\* Mutant of MayTakeOver: the age of the connections is not compared.
MayTakeOverAnyAge(g, m) ==
    lifecycle.active => m.key[2] # lifecycle.key[2]

\* Another connection may take over: it is newer than the owner's, and does
\* not bear the owner's session.
MayTakeOver(g, m) ==
    lifecycle.active => g > lifecycle.gen /\ m.key[2] # lifecycle.key[2]

\* A new connection of the running play: ownership changes, the simulation
\* goes on.
Reconnect(g, m) ==
    /\ ValidReset(g, m)
    /\ MayTakeOver(g, m)
    /\ AlreadySeen(m)
    /\ PlayKey(m) = lifecycle.play
    /\ Selected(m) = vehicle
    /\ m.key \notin lease.retired
    /\ IF IsSameSession(lease, m.key)
         THEN UNCHANGED <<lease, input>>
         ELSE lease' = AfterReconnect(lease, m.key) /\ input' = SafeInput
    /\ lifecycle' = LifecycleOf(g, m)
    /\ topGen' = g
    /\ Remember(g, m)
    /\ socket' = AfterFrame(g, TRUE)
    /\ UNCHANGED << work, now, pendingMap, map, seenPlays, vehicle, estop, runs,
                    used >>

\* A play never seen before starts the simulation anew.
NewSimulation(g, m) ==
    /\ ValidReset(g, m)
    /\ MayTakeOver(g, m)
    /\ ~AlreadySeen(m)
    /\ Cardinality(seenPlays) < MaxPlays
    /\ CanBegin(lease, m.key)
    /\ lease' = AfterBegin(lease, m.key)
    /\ vehicle' = Selected(m)
    /\ input' = SafeInput
    /\ seenPlays' = seenPlays \cup {PlayKey(m)}
    /\ lifecycle' = LifecycleOf(g, m)
    /\ runs' = Append(runs, [play |-> PlayKey(m), vehicle |-> Selected(m)])
    /\ topGen' = g
    /\ Remember(g, m)
    /\ socket' = AfterFrame(g, TRUE)
    /\ UNCHANGED <<work, now, pendingMap, map, estop, used>>

-----------------------------------------------------------------------------
(* The tick, and the thread that watches the map package.                  *)

QueueMapReload(m) ==
    /\ pendingMap' = m
    /\ UNCHANGED <<work, now, socket, hostVars, history>>

ReloadDue == pendingMap # NoMap /\ pendingMap # map

\* Every identity of the old map is fenced off and every connection closed.
ReloadTick ==
    /\ ReloadDue
    /\ map' = pendingMap
    /\ pendingMap' = NoMap
    /\ input' = SafeInput
    /\ lease' = AfterMapReset(lease)
    /\ lifecycle' = NoLifecycle
    /\ hello' = <<>>
    /\ socket' = AllClosed
    /\ runs' = IF runs # <<>> /\ runs[Len(runs)] # Reload
                 THEN Append(runs, Reload) ELSE runs
    /\ UNCHANGED <<work, now, seenPlays, vehicle, estop, topGen, used>>

\* Mutant of SoftFires: the soft deadline is examined after the hard one.
SoftFiresSecond ==
    SoftTimeoutDue(IF HardTimeoutDue(lease, now)
                     THEN AfterHardTimeout(lease) ELSE lease, now)

\* Mutant of SoftFires: the deadline runs only while the owner is connected.
SoftFiresWhileConnected ==
    lifecycle.active /\ Live(lifecycle.gen) /\ SoftTimeoutDue(lease, now)

SoftFires == SoftTimeoutDue(lease, now)

SoftStopped == IF SoftFires THEN AfterSoftTimeout(lease) ELSE lease

HardFires == HardTimeoutDue(SoftStopped, now)

\* First the soft deadline, then the hard one, on one reading of the clock.
Tick ==
    /\ ~ReloadDue
    /\ pendingMap' = NoMap
    /\ input' = IF SoftFires THEN SafeInput ELSE input
    /\ lease' = IF HardFires THEN AfterHardTimeout(SoftStopped)
                             ELSE SoftStopped
    /\ socket' = IF HardFires THEN AllClosed ELSE socket
    /\ UNCHANGED <<work, now, map, hello, lifecycle, seenPlays, vehicle, estop,
                   history>>

\* run_tick returns early after a reload.
RunTick == ReloadTick \/ Tick

Advance ==
    /\ now < work.time
    /\ now' = now + 1
    /\ UNCHANGED <<work, socket, pendingMap, hostVars, history>>

-----------------------------------------------------------------------------
Next ==
    \/ \E g \in 1..work.connections :
         \/ Connect(g)
         \/ Disconnect(g)
         \/ \E m \in Hellos : HandleHello(g, m)
         \/ \E m \in EStops : EmergencyStop(g, m)
         \/ \E m \in Controls : HandleControl(g, m)
         \/ \E m \in Resets : \/ RepeatReset(g, m)
                              \/ Reconnect(g, m)
                              \/ NewSimulation(g, m)
    \/ \E m \in work.deliveries : QueueMapReload(m)
    \/ RunTick
    \/ Advance

Spec == Init /\ [][Next]_vars

\* schedule_tick re-arms the timer after every tick, and the clock runs.
Fairness == WF_vars(Advance) /\ WF_vars(RunTick)

FairSpec == Spec /\ Fairness
-----------------------------------------------------------------------------
TypeOK ==
    /\ work \in Workloads
    /\ now \in Nat
    /\ socket \in [Generations -> SocketStates]
    /\ pendingMap \in Maps \cup {NoMap}
    /\ map \in Maps
    /\ DOMAIN hello \subseteq Generations
    /\ \A g \in DOMAIN hello :
          hello[g] \in [key : Keys, loadouts : BOOLEAN, last : Frames]
    /\ Cardinality(DOMAIN hello) <= MaxHellos
    /\ lease \in LeaseRecord
    /\ lifecycle \in [ active : BOOLEAN, key : Keys \cup {NoKey},
                       gen : Generations \cup {0},
                       play : PlayKeys \cup {NoPlay},
                       seq : 0..MaxSeq, clientTime : ClientTimes \cup {0} ]
    /\ seenPlays \subseteq PlayKeys
    /\ vehicle \in Catalog
    /\ estop \in BOOLEAN
    /\ input \in Inputs \cup {SafeInput}
    /\ topGen \in Generations \cup {0}

\* make_health_snapshot: what the server tells everybody about control.
Health ==
    IF estop THEN "estop_latched"
    ELSE IF ~lifecycle.active THEN "awaiting_reset"
    ELSE IF RequiresReconnect(lease) THEN "reconnect_required"
    ELSE IF ~HasControlCommand(lease) THEN "awaiting_control"
    ELSE IF lease.safeStop THEN "safe_stop"
    ELSE "active"

\* The vehicle is driven only while the health the server publishes, which
\* also gates traffic and structure damage, is active, and then the lease
\* belongs to the controller of the lifecycle: none of the seven ways to
\* lose authority leaves the last driving input applied.
DrivenOnlyWhenActive ==
    input # SafeInput => Health = "active" /\ lease.active = lifecycle.key

\* Lease and lifecycle never disagree about the controller, and a controller
\* that holds the lifecycle is fenced off only by the hard deadline: a
\* reconnect never retires the identity it installs.
LeaseMatchesLifecycle ==
    /\ lease.active \in {NoKey, lifecycle.key}
    /\ lease.resetKey = lifecycle.key
    /\ lifecycle.active = (lifecycle.key # NoKey)
    /\ lifecycle.key \in lease.retired => RequiresReconnect(lease)

\* After a reload or a hard timeout no connection that ever owned motion, and
\* none older, is left open, and after a reload none of them can reset the
\* simulation with a frame left behind: whoever drives next is newer than
\* everybody who drove before, though the reload forgets their generation.
FencedConnectionsCannotReturn ==
    /\ ~lifecycle.active \/ RequiresReconnect(lease) =>
          \A g \in 1..topGen : ~Live(g)
    /\ ~lifecycle.active =>
          \A g \in 1..topGen : Delivering(g) => g \notin DOMAIN hello

\* Every play starts the simulation once in the life of the server: it is not
\* started again by a reconnect, a repeated or a delayed reset, nor after
\* another play or a reload took its place; and the vehicle of the running
\* play is the one it started with.
EachPlayStartsOnce ==
    /\ \A i, j \in 1..Len(runs) :
          runs[i].play = runs[j].play /\ runs[i] # Reload => i = j
    /\ IF lifecycle.active
         THEN /\ runs # <<>>
              /\ runs[Len(runs)] = [play |-> lifecycle.play,
                                    vehicle |-> vehicle]
         ELSE runs # <<>> => runs[Len(runs)] = Reload

\* No command drives the vehicle twice, across reconnects and new plays too.
NoCommandReplay == ~used.replayed

\* A controller that falls silent loses the vehicle: a driving input is
\* followed by another accepted command or by a safe stop.
SilentControllerStops ==
    \A t \in 0..MaxTime :
        (input # SafeInput /\ lease.receivedAt = t)
          ~> (input = SafeInput \/ lease.receivedAt # t)

\* What the host promises about motion (module MotionAuthority): the owner is
\* the connection of the lifecycle unless the hard deadline took the lease.
Authority == INSTANCE MotionAuthority WITH
    Connections <- Generations,
    owner   <- IF lifecycle.active /\ ~RequiresReconnect(lease)
                 THEN lifecycle.gen ELSE 0,
    newest  <- topGen,
    motion  <- input,
    latched <- estop

ImplementsAuthority == Authority!Spec
=============================================================================
