# Drive Integration: formal models

Drive Integration couples a C++ vehicle simulation server (`cpp/host`) with an
Unreal client: the client greets, resets and steers over a WebSocket; the
server integrates physics at a fixed rate and broadcasts world states. This
directory holds TLA+ models of the parts of both where order, time and failure
decide whether they are right, the TLC configurations that check them, and
TLAPS proofs about the parts where the argument is worth having for every
value of the constants. Paths are relative to the repository; `host/`
abbreviates `cpp/host/src/`, `ue/` abbreviates
`unreal/DriveIntegration/Source/DriveIntegration/`.

Check a module with `tlc -config <cfg> <MC module>`, a proof with
`tlapm <module>.tla`. `PROJECT.json` lists components, runs, mutants (a
plausible bug for each property, which TLC must find), the source lines of
every definition, findings, hazards and theorems.

## 1. Inventory

| Component | State | Operations | What makes it correct |
|---|---|---|---|
| Control lease, `host/control/control_lease.hpp` | owner, last sequence and client time, receive time, queue age, SafeStop, retired keys | accept; soft and hard deadline; new simulation, reconnect, map reset | one owner; a displaced owner never returns; the age of the queue is exact; a silent owner loses the vehicle |
| Sessions and lifecycle, `host/simulation_host_session.cpp` | table of greeted connections, lifecycle (player, connection, play), history of plays, vehicle, E-stop latch, applied input | Hello, control, E-stop, reset (repeat, reconnect, new play) | only the newest authorised connection drives; a play starts once; no command drives twice; a fenced connection cannot return |
| Tick, `host/simulation_host.cpp` | slots of the two watchers, clock, world | map and traffic reload, both deadlines, physics, NPCs, publication | authority is lost and the input cleared in the same tick; a held tick leaves no trace |
| Simulation clock, `host/simulation_clock.hpp` | deadline, elapsed steps, overruns | advance, restart, reset | every period is a tick or is counted as skipped; no burst after a late tick |
| Structure damage, `host/collision/structure_damage.cpp` | contact window, episode, damage, release of a pole | tick, record contacts, reset, checkpoint | no impulse is counted twice or lost, though ticks are undone |
| Replay recorder, `host/replay/physics_replay.cpp` | lines, byte and frame count, status | event, frame, invalidate, finish; verify | a complete recording reproduces the vehicle; any other is rejected |
| NPC traffic, `host/simulation_host_npc.cpp`, `host/traffic/npc_*` | per car: lane, change, bypass, search, pause, retreat | prepare, decide, search, reverse; rollback | a plan ends on a lane; what is backed is limited; every car gets its turn |
| Impact recovery, `host/traffic/impact_recovery.cpp` | contact window, episode, phase, hold, damage | record contact, update | a car drives again only after it has rested; a hit is charged once |
| WebSocket session and server, `host/websocket/ws_server.cpp` | outstanding operations, write queue, close state and deadline; list of sessions | accept, read, write, close, timer; broadcast, close all | no buffer released under a write; coalescing keeps the newest state; a close ends |
| Map package reload, `host/terrain/map_package_runtime.cpp` | accepted and rejected manifest, backoff, poll in progress | poll, load step by step, deliver | no mixed package; the newest package is not missed |
| Traffic network reload, `host/traffic/traffic_network_hot_reloader.cpp` | signatures observed and succeeded, backoff | poll, load, deliver | the matching network is installed whichever thread comes first |
| Exporter, `ue/GroundCollisionExporter.cpp`, `ue/SimCoreMapPackage.cpp` | package directory | bake: payloads, then manifest | readers can detect a bake in progress |
| Live measurement, `host/terrain/live_*.cpp`, `host/simulation_host_ground_shadow.cpp`, `ue/SimCoreWorldRevision.cpp` | context, revision, pending request, two measurements each; the client's revision | prepare, accept, notice, reset; poll, notice, reply | a step relies on one recent world; client and server do not wait for each other |
| NPC ground, `host/terrain/live_npc_ground.cpp` | tile cache, demands, pins | notice, lease, demand, prepare, accept, evict | who stands on a tile stands on this world; the player is not held for ever |
| Unreal client, `ue/SimCoreClientComponent.cpp` | connection, handshakes, play, choice of vehicle, last state, tasks of old sockets | connect, greet, reset, control, receive, reconnect | it comes to drive again after any loss of the connection; it shows no state of an earlier play |
| Traffic network and signals, `host/traffic/traffic_network.cpp`, `host/protocol/vehicle_messages.cpp` | plans of the loaded network | load and validate, signals at a time, snapshot | WALK excludes cars; whatever loads can be sent |
| Stop line and pedestrians, `host/traffic/npc_lane_follower.cpp`, `host/simulation_host_npc.cpp` | progress and leave of a car; place, direction and crossing of a pedestrian | step, retreat, change of lane, reset; walk | who crosses has green for the whole way; no car is left across a crossing |
| Horn and falling bodies, `host/traffic/` | poses and timers | per tick | functions of poses over reals |
| Physics, collision world, ground files, coordinates | floating-point state | | out of TLC's reach |
| Protocol, catalog, options, configuration | none after the start | conversion, parsing | unit-tested conversions |

**How they interact.** One thread runs the event loop of the server: frame
handlers of all connections and the tick of the host interleave as whole
steps, and the host calls back into the server (`broadcast`,
`close_control_connections`). The lease, the clock, the damage, the recording
and the traffic are fields of the host, advanced by its tick. The two watching
threads reach the host only through slots under a mutex that a tick empties.
They and the exporter share files without a lock; server and client share only
the connection. On the client everything is done on the game thread, but the
delegates of a socket queue tasks for it, which may outlive the socket.

**What is hard.** Completions and handlers of one session interleave with
closes; frames of an old connection arrive after a newer one took over; both
deadlines may fall into one tick; a reload forgets the generations and must
fence by other means; the table of greetings evicts; bakes race with loads,
and two deliveries come in either order; measurements outlive the world they
were made in; a tick on measured ground may have to be undone after half of it
was computed; cars compete for one search per tick; a light runs out within a
tick or while somebody is on the crossing. The hazards in
`PROJECT.json` name the lines; those without a property say why.

## 2. Modules

| Module | Models | Role |
|---|---|---|
| `LeaseOps` | `ControlLease`: each operation as an operator on a lease record | shared; no state |
| `ControlLease` | the class under an arbitrary caller, with a clock | checked and proved |
| `SimulationHost` | sessions, lifecycle, deadlines, reload of the map, connections; uses `LeaseOps` | composition of lease, host and server |
| `MotionAuthority` | what the server promises about motion | abstract specification that `SimulationHost` implements |
| `WsSession` | one WebSocket session | justifies the connections of `SimulationHost` |
| `ServerPartsProofs` | | theorems about `ControlLease`, `WsSession` and `HotReload` |
| `UnrealClient` | the network client: sockets, tasks, handshakes, choice of vehicle, filter of states | one side of `ClientServer` |
| `ClientServer` | client, a server reduced to what one client sees, the link, bakes, restarts | composition |
| `ClientServerProofs` | | theorems about `ClientServer` |
| `HotReload` | exporter, both watching threads, slots and installation | |
| `LiveMeasurement` | ground and obstacle measurement, server and client | composition |
| `LiveMeasurementProofs` | | theorems about `LiveMeasurement` |
| `SimulationHostProofs` | | theorems about `SimulationHost` |
| `SimulationClock` | the fixed-step clock | part of `Tick`, proved on its own |
| `StructureDamage` | one damageable structure, as operators on a record | part of `Tick` |
| `PhysicsReplay` | recorder and verifier, as operators on a recording | part of `Tick` |
| `Tick` | one tick as a transaction over clock, vehicle, recording, structure and traffic | composition of the three above |
| `TickProofs` | | theorems about `SimulationClock` and `Tick` |
| `NpcNavigation` | what blocked cars decide, in turn | |
| `ImpactRecovery` | what a collision does to the driving of a car of the traffic | |
| `TrafficProofs` | | theorems about `NpcNavigation` and `ImpactRecovery` |
| `Junction` | plans of the signals and their validation, a car at its stop line, a pedestrian on the crossing, the snapshot of the signals | composition |
| `NpcGround` | the tile cache of the traffic on measured ground, the ticks that query it, the client that measures | composition |
| `RoadProofs` | | theorems about `Junction` and `NpcGround` |
| `Induction` | | induction on naturals and intervals, recursive functions, sums over sets: lemmas for the proofs |
| `MC*` | instances for TLC; `MCServerParts` (`ControlLease`, `WsSession`), `MCTraffic` (`NpcNavigation`, `ImpactRecovery`) and `MCRoad` (`Junction`, `NpcGround`) check two in one run, whose variable `question` says which of them moves | |

**LeaseOps, ControlLease.** The record has the members of the class;
`CanAccept`/`AfterAccept` are `accept()` before and after its last early
return, and likewise for the other operations. Time points are natural numbers
and `Never` is the unset one. The history `owned` and `bestOffset` (the
smallest difference of receive and client time since the owner's first
command) are what the properties compare with. The caller is arbitrary: any
key, any sequence, any operation at any time, which is more than the host does.

**SimulationHost.** One action per accepted outcome of a handler:
`HandleHello`, `HandleControl`, `EmergencyStop`, `RepeatReset`, `Reconnect`,
`NewSimulation`; `QueueMapReload` for the watching thread; `RunTick` is the
head of a tick: reload, soft deadline, hard deadline, in the order of
`run_tick`. A rejected frame changes nothing in the code and has no step. A
connection is `none`, `open`, `ready`, `dying` or `closed`: "dying" is one that
failed and may still hand over one frame it had read, which is what
`AtMostOneLateFrame` of `WsSession` establishes; after a close by the host
there is none. History: `runs` (simulations started), `topGen`, `used`.

**MotionAuthority.** At most one connection owns motion, each new owner is
newer than all before, starts from the safe input, and nothing drives after
an E-stop. `ImplementsAuthority` is the refinement, with the owner computed
from lifecycle and lease.

**WsSession.** Every asynchronous operation is `idle`, `pending`, completed
(`ok` or `error`) or idle again when its handler has run. Handlers run in any
order after their completions, so that a write may complete, the session be
force-closed, and only then the write's handler run. Cancelling turns
what is pending into an error; what has completed keeps its result.

**UnrealClient, ClientServer.** `UnrealClient` has the members of
`USimCoreClientComponent` that decide what it does, named as in its comments:
the state of the connection, the generation of the socket, both handshakes,
the play, the chosen vehicle with `bLoadoutPending`, the state it shows. The
game thread's tick, each kind of message and each delegate is an action; a
delegate's task carries its generation and may run after the socket was
replaced. `ClientServer` adds the server (Hello, reset in its three outcomes,
commands, ticks with both deadlines, reload of the map), a link that is
lossless and in order until it breaks, a map package baked while both run, a
server restarted, and a player who changes vehicle and loadout, disconnects and
connects. Each frame and each tick is one step; a sequence number counts the world
states of one connection. A client that reconnects by itself, or after a selection,
compares the map on disk with the one it knew and begins a fresh play when they
differ (`PlayForMap`). `Connect()` does not: it reads the manifest itself before the
attempt makes that comparison (`SimCoreClientComponent.cpp:101` and `:179`), so that
the play is kept; that its two reads see the same manifest is an assumption of the
model. Section 3 says what becomes of such a client.

**HotReload.** A payload is an atom and a checksum *is* the contents it was
computed from; a load is nine steps (parse the manifest, hash two files, load
two, hash two again, compare the manifest's bytes), so that a bake may fall
between any two. A bake replaces ground, colliders, manifest, and may break off.
`TrafficNetworkHotReloader` is modelled step by step too.

**LiveMeasurement.** A probe is what `LiveGroundPatch` and
`LiveObstacleSnapshot` have in common, once for each kind; the differences are
in `MayAsk`, `Usable`, `HandleReply` and `Prepared`. The connection is a queue
of notices and replies. `Measurements` is what the physics step of a tick now
might rely on: any fresh ground patches (the wheels query many points) and one
usable obstacle snapshot.

**Tick** and its parts. `RunTick(m)` follows `run_tick` from the reload of the
network to the clock: deadlines, authority, placing of the traffic, the
structure's pending impulses, the vehicle's step, what the contacts bring the
structure, the recording, and the decision whether traffic and structures are
committed or restored. What a tick meets (`m`) is a record: which deadlines
passed, what was measured, whether the pose reached is still covered, what
impulse a contact had. The vehicle is the profile of its last reset and the
steps since, so that two computations reach the same vehicle exactly if they
made the same steps; this is what makes `ReplayReproduces` say something
about a verifier that has only the file. `StructureDamage` works on a window of
integer impulses; `Impulses`, `Episodes` and `TotalDamage` say from the whole
history what it should amount to.

**NpcNavigation.** A car has the fields of `LaneNpc` that decide what it does
(`mode`, `change`, `search`, pause, decisions waited, reverse, retreat so far).
Positions are increments along the lane or the plan. What a car meets in a tick
is a record: what is ahead and how far, whether the way back is clear, how a
search ends. `Prepared`, `Decided`, `Searched` and the others are the
functions of the source, in their order; the tick gives one car its turn.

**ImpactRecovery.** One car: `Ticked` is `ImpactRecoveryState::tick`, `Updated`
and `Integrated` are `RuntimeCollisionReaction`, `Readied` and `Contacted` are the
two places of a tick that drive them, before and after its contacts are solved. A change of speed is an integer; where the car is, how fast and how
tilted is reduced to `displaced`, `slides`, `tumbles`. What a tick means to the
car is a record again. The history `past` keeps for how long the car was found
at rest, how hard it was hit, and, in one workload, every blow: the properties
say from them when it may drive and what its damage should be, without the
window and the episodes of the code. A contact is charged with no time after
the tick's time has passed, so that a sum reaches over one tick more than the
window; it therefore depends on the length of the ticks, though the comment at
`host/traffic/impact_recovery.cpp:73` speaks of invariance under subdivision.
The pause before a car returns is skipped when its offset is exactly zero.

**Junction.** A tick is several units of time. The car takes its substeps, one
unit each (`Drive`, `Halt`), or stays or backs for the whole tick (`Freeze`,
`Retreat`); it may change lanes at the end (`ChangeLane`); then the pedestrian
walks or stays and the clock advances (`Walk`, `Stay`, `HeldTick`). The signals
are read once, at the beginning of the tick, so that the car must notice within
the tick that its green runs out. The networks are inputs, some of which
`Loads`, the validation of the file, refuses; `AspectAt` and `Countdown` are
`signals_at` and `countdown_for` with their sums over phases. One car and one
pedestrian stand for any, as no rule at a junction relates two cars except by
keeping one from moving on, which `Halt` always may. `admitted` and `held` are
history: the car was let over its line in this tick; the pedestrian was kept
from walking on this trip. The first format of plans, the way a car finds its
route and the shapes of lanes are left out.

**NpcGround.** A place is the key of a tile, and the cache is the sequence of its
tiles in the order of their last use, so that eviction takes the first without
a pin. `Query`, `Enqueued`, `Asking`, `Accepted`, `Learned` and `Begun` are the
functions of `LiveNpcGround` on a cache. `Outcome` is what a tick makes of the
measurements: bodies that are not in the world yet enter it, each body looks ahead
(`plan`, optional demands) and moves, or is frozen where the code catches a
missing measurement, and at last everything a body stands on is queried
(`Supports`, support demands), which decides whether the tick counts. A tick
that does not count puts the traffic back, but not the cache. Bodies go round
the routes of a scene; each stands for a car or a pedestrian. Times count down, the
client's frames are a queue with a bounded delay, and `left` remembers how long ago
the client's world left each revision. Each tile remembers who measured it, where
and in which world, which the code does not store: this is what
`TrafficStandsOnThisWorld` looks at. The vehicle's own patch of ground is reduced to the
world it knows; what becomes of it is `LiveMeasurement`.

## 3. Runs

| Run | Instance | States | Shows |
|---|---|---|---|
| `server_parts` | lease: 2 keys, 3 sequences, client times to 5, clock to 8, deadlines 1 and 3, queue age 2; session: 4 broadcasts, a queue of 2 | 45,917 | the lease's invariants; SafeStop is no opening (`NoPreemption`); a silent owner is retired; buffers, overlap, coalescing, termination of a close |
| `host` | workloads: 2 connections, sessions and plays, 2 maps, clock to 3; 3 connections, 2 sessions, 3 plays, a table of 2, no time | 228,628 | nobody drives without authority; lease and lifecycle agree; fenced connections cannot return; a play starts once; no command drives twice though the table evicts; refinement |
| `host_silence` | 2 connections, 1 play, clock to 4, no frame after time 1 | 67,351 | the vehicle of a silent controller stops |
| `client_server` | 2 classes, 2 loadouts, 2 maps, up to 8 sockets, 1 disturbance (a loss, a restart or a bake), 1 choice | 417,244 | the client shows only what the current play said; the health it shows is never rosier than told; it gives up only over a map; it gets a play of its own again, but for the one exception below |
| `hot_reload` | workloads: 3 bakes of 2 contents; 1 bake and 1 rewrite of the network; 1 transient error each | 430,588 | no mixed package; the newest package and the matching network are run |
| `live_measurement` | workloads: 2 connections; late frames of one; one that has to greet again | 591,492 | a step relies on one recent world; ground and obstacles agree; the server learns the client's world |
| `tick` | workloads: contacts on a structure (building, pole; ticks undone); late ticks; recordings | 202,273 | clock, damage and recording are what the history amounts to; a held tick changes nothing |
| `traffic` | one car that meets everything, three that compete for searches; a car hit 3 times that moves in any way, 5 blows in 6 ticks, each remembered | 69,446 | retreats are limited; plans end on a lane; turns come round; a car drives again only after the rest it needs; its damage and events are what its blows amount to |
| `road` | a junction: a tick of 2 units, a crossing of 3, clearance 2, one broken head; 9 networks, of which 2 must not load and do not: a road with a crossing of its own, one beside it, a protected left turn; plans with WALK over several phases and over the end of the cycle, too short, always on. Measured ground: lifetime 2, a pin and a retry of 1, a cache of 3 tiles, a queue of 1; three scenes: three bodies over 5 places of which 2 cannot be measured; two sessions; two worlds, with frames late by 1 | 130,376 | a trip of a pedestrian has WALK to its last unit and no car let over its line meanwhile; a car over its line may go on; a counted tick has every body on tiles of this world; the player is not held for ever |
| `map_race` | `client_server` with one bake | violation | finding 1 of section 6 |
| `loose_pole` | `tick` with one pole | violation | finding 2 of section 6 |
| `conflicting_greens` | the junction of `road` with two roads green together | violation | finding 3 of section 6 |

**Where the client does not recover.** `ClientRecovers` excepts one way, `Stranded`,
which the code really has: a bake is installed and the server closes the connection;
before the client reconnects by itself (half a second) somebody calls `Connect()`; the
client asks in the new map for the play that the server ran in the old one, the reset
is rejected as one of an earlier play (`simulation_host_session.cpp:563`), and
the connection stays open with nothing that would make the client ask again. The
exception is stated as narrowly as that: such a `Connect` has happened (`reason`, a
history), the server has seen the play, and does not run it. Without it TLC finds
this behaviour; with it, a client that loses the fresh play on any
other way is still found, which is the mutant of the property (`SamePlay`). Selecting a
vehicle or a loadout begins a fresh play and ends the state. A second
way lies outside the bound of one disturbance: two bakes, the second of which
restores the map the client knew, while the client waits. The server has installed
the map in between, the client sees no change and keeps its play. With
`MaxFaults = 2` TLC finds this one; `ClientRecovers` speaks of one disturbance.

**Workloads.** Where one instance large enough for every question would not
fit, a module has a variable `work` (`trial` in `ImpactRecovery`), chosen in the
initial state and never changed, that holds the bounds of one question. The properties hold in all.

**Why the bounds are enough.** Two keys are an owner and a contender; the
third role, somebody fenced earlier, is played by the first key later on. Three
connections and two sessions with a table of two force an eviction of the
owner's entry and the reuse of a session. Deadlines are apart, and the clock
runs past the hard one from any command within the horizon. Two broadcasts
would exercise coalescing; four leave one in each of written, running, pending
and replaced. Two contents and three bakes allow old-new-old across polls. With
lifetime 2 and clock 2 a measurement made at time 0 expires, and two replies in
flight at once are needed for a step to rely on late ones. One disturbance and
one choice of the player may fall at any moment of a handshake or a play, and
each makes the client try several sockets; eight are more than it can need. A
damage window of two ticks and five or six ticks hold
two episodes with a gap and a tick undone in either; a lag of five periods
skips several deadlines. Three cars are enough for one to be passed over
while two ask again. A tick of two units lets a light change within it; a
crossing of three and a clearance of two need WALK over more than two ticks,
which one of the plans has not; every phase and offset is met in every state of
the car, as the clock starts anywhere. A queue of one demand is always full for
the second who asks; three tiles for three bodies fill the cache with pins and
have one evicted at each move; and the bound of `TrafficStandsOnThisWorld`, a
lifetime and a delay, is reached exactly. In `client_server` a heartbeat is sent only when it can
change something, an acknowledgement is overdue only when nothing else can
happen, and entries of greeted connections that are gone are forgotten: each
leaves out repetitions of states, not outcomes. The mutants are the evidence:
each property is violated by its bug within these bounds. Symmetry is used in
the host's safety runs only (sessions, plays), never with liveness. Deadlock
checking is off where clocks, bakes, broadcasts and connections are bounded,
so that the run simply ends; `live_measurement` and `road` keep it on
(at a junction a server that ends would be a deadlock: it does not, in these
networks).

**Fairness.** `server_parts` (lease), `host_silence`: the clock runs and the
host examines the deadlines (`schedule_tick` re-arms itself after each tick; an
error of the timer itself would end it, a hazard listed as such).
`server_parts`
(session): queued handlers run and the timer expires; of the peer nothing is
assumed, except that `NewestStateDelivered` has "the peer goes on reading" as
its hypothesis. `hot_reload`: the threads go on polling, delays end and ticks
come; exporter and author may stop at any point. `live_measurement`: server
and connection work and the client repeats its notice (every 0.1 s), strongly
fair because the queue of the model may be full in between; that the client
measures anything is not assumed. `client_server`: client and server each go
on (their ticks and the messages that have arrived), an acknowledgement that
stays away is found overdue, a bake that was begun is finished, and the player
begins to play; losses, restarts and choices need not happen, and are bounded.
That the acceptor works is part of the server's fairness: in the code it does
not re-arm itself after an error of accept other than an abort
(`host/websocket/ws_server.cpp:352`). `traffic`: the car whose turn it is
decides; `TurnsComeRound` has as its hypothesis that the player drives and the client measures again and again
(the history `odd` changes for ever): without that no tick counts. `road` (ground): the host ticks and
handles the frames that arrive, time passes, the client repeats its notice, and
a tile that is asked for again and again is measured some time while there is
time left for the answer. The last is more than a client that is always slower
than 350 ms gives; such a client holds its player. `PlayerIsNotHeldForever` has as
its hypothesis that from some time on the world stays known: notices that
come too late, and a session that is lost, hold the player by design.

## 4. Proofs

**The lease.** `ServerPartsProofs` proves for every set of keys, every pair of
timeouts and every bound on queue, sequences and times, from the named
assumptions of `LeaseOps` and `ControlLease` only: `LeaseTypeCorrect`,
`DisplacedOwnersStayFenced`, `QueueAgeIsExact`, `ArmedMeansOwned`, and
`OwnersAreNotPreempted`, an action property.

The inductive invariant `LeaseInv` is the conjunction of these and
`OwnerHasCommanded`. The last is needed for two steps: `accept` computes the
age from the previous command, which an owner must have, and a receive time in
the future would make the elapsed time negative. `QueueAgeIsBacklog` is
inductive only with it: the new estimate is the old one plus the delay gained,
clamped at zero, and exactly at the clamp the best offset moves. The fence is
inductive because every operation that drops an owner adds it to `retired`
before it installs another; `ArmedOnlyForOwner` is needed so that a command
that arms the vehicle comes from an owner in `owned`. The proof goes operation by
operation: `EstimatedAgeType` and `OperationsType` say what the operators of
`LeaseOps` return, `ClearedInv` treats the three transitions at once, and
`LeaseInvNext` combines them.

**The clock and the tick.** `TickProofs` proves, from `ClockAssumption` only,
for every period and every lateness: `ClockTypeCorrect`; `PeriodsAccountedFor`,
the deadline is the start of the cadence plus a period per tick and per skipped
deadline, and the counter is their number up to its limit; and `TicksAreSpaced`,
that the next deadline is never past and never further ahead than it must be
(`NoBurstOfTicks`, which no run checks any more: the theorem covers it). The
work is in `SkippedBounds`, which is about the division in `advance()`.
`ClockAdvanced`, `ClockReset` and `ClockRestarted` say that each operation keeps
`ClockInv` at whatever time it is called; with them
`SimulationAccountsForPeriods` is `EveryPeriodCounted` of the running
simulation, where plays, maps, networks and stops call the clock (from
`TickAssumption` in addition).

`HeldTicksChangeNothing` is the action property `HeldTickChangesNothing` for all
workloads. If the vehicle is the same after a tick on measured ground, the tick
was not committed, for a committed step makes the history of the vehicle
longer. That fails for a step which places the vehicle anew and begins another
history, unless a vehicle that waits to be placed has not moved yet:
`UnplacedIsFresh`, the inductive part of `TickInv`.

`ReplaysReproduce` is `ReplayReproduces`: for recordings of any length and any
limits, the verifier accepts exactly what was finished and goes through the
host's vehicles. Verifier and host are two recursions over the same lines, one
done at the end and the other tick by tick. The invariant `ReplayInv` runs the
verifier on what has been written so far: between two ticks it is in the
position `Follows` describes, with the host's vehicle, the host's states behind
it and nothing half read. It is inductive because a verifier that reads a
longer file does with its beginning what it did before (`ReadingIsDefined`,
`StatesIsDefined`), and because a recording that has lost something is marked
in a way no later line takes back (`Faithful`).

`DamageIsWhatImpulsesAmountTo` is `DamageMatchesImpulses`, for every window,
onset, full damage, kind of structure and course of ticks (`DamageAssumption` in
addition). The structure remembers a window of impulses, and of one episode its
peak and what it has charged; the reference cuts the whole history of impulses
into episodes, takes the greatest window sum of each and adds up what they
damage. `DamageInv` says that what a standing structure remembers is what the
history ends with (`InStep`): its window is the end of the history, its peak the
greatest sum of the last episode, its silence as long as the history has been
silent; and that a fallen pole has nothing left to count. One more impulse either
starts an episode or goes on with the last one, and leaves every earlier episode
as it was (`EpisodeBegun`, `EpisodeContinued`). The total then has one more
term, or a greater last one (`TotalBegun`, `TotalRaised`); that clamping after
each term gives what clamping the sum gives is where the charges have to be
naturals. The number of reported episodes grows with the first damage of one
(`AccountBegun`, `AccountRaised`). With them `ImpulseCounted` and `QuietCounted`
are the two branches of `Ticked`, and `FallenStays` is the fallen pole, whose
later episodes the reference may know and must not report.

**The host.** `SimulationHostProofs` proves, from `HostAssumption` and the
assumptions of `LeaseOps` only, for every number of connections, sessions,
plays, maps and vehicles, every pair of deadlines and every size of the table
of greetings: `HostDrivenOnlyWhenActive`, `HostLeaseMatchesLifecycle`,
`HostFencesConnections`, `HostStartsPlaysOnce`, `HostNeverReplays`, and
`HostImplementsAuthority`, the refinement of `MotionAuthority`.

The inductive invariant `HostInv` is their conjunction with the types and four
facts none of them is inductive without. `Ownership`: a lease has an owner that
commanded, an owner taken by the hard deadline is in the retired set, an
inactive lifecycle has forgotten everything. `SocketsInOrder`: connections are
made in the order of their generations, so that a greater one is a newer one.
`StartsAreSeen`: the history of plays has every start. `UsedKeysAreSpent`:
whoever drove is retired, or owns the lease and has its sequence below the
lease's. The proof first sorts the steps (`StepKinds`) by what they do to lease
and lifecycle: a takeover, a command, a tick, or neither. `LeaseEffects`,
`AcceptEffects` and `TickLease` say what the operators of `LeaseOps` do; then
one lemma for each part of the invariant goes through the kinds, and
`HostInvNext` puts them together. `AuthorityStep` maps each kind to a step of
`MotionAuthority`; it needs `LeaseMatchesLifecycle` because the abstract owner
is computed from both records.

**The stop line.** `RoadProofs` proves, from `RouteAssumption` only, for
every route, every set of networks and every length of a tick,
`NoseOverLineMayGoOn` (`OverLineIsCommitted` always holds) and
`FollowerTypeCorrect`. `FollowerInv` is their conjunction; nothing about the
signals is needed, since `Limit` and `Commits` ask the same question of the
light at the same time, and that is what the proof shows: `MovedIsCommitted`
for a substep, `RetreatedIsCommitted` for backing, `PlacedIsCommitted` for a
start.

**The crossing.** `PedestriansCrossOnWalk` is `CrossingIsClear`, from
`ClearanceAssumption` and `NetworkAssumption` in addition: for plans of any
number of phases, of any lengths and with any offset. `CrossingInv` says of a
trip on which nothing has held the pedestrian up that WALK lasts for what is
left of it and the clearance; it is inductive because a walk of one tick uses up
one tick of both, and gives `CrossingIsClear` because the clearance covers a
tick. The rest is that the countdown may be believed (`AspectLasts`): the phases
it counts are one run that begins with the present one (`AlikeIs`, `RunIs`),
perhaps over the end of the cycle; what they last is a difference of sums
(`SpanIs`, `SpanOverEnd`, by induction over the phases); and a time before the
end of the run lies in a phase of it (`RunLasts`). That no car is let over its
line meanwhile is `RedForCars`, from the check of the plans
(`CrossingsAreSound`).

**The ground of the traffic.** `RoadProofs` proves, from `TileAssumption` only,
`TrafficStandsOnMeasuredGround` (`TrafficStandsOnThisWorld`) and
`GroundTypeCorrect`: for any number of bodies, routes of any shape, any capacity
of cache and queue, any lifetimes and delay. The property speaks of a tick,
which asks for many places in turn and may lose one for another; the invariant
`GroundInv` speaks of the cache before it. `TilesOfKnown`: every tile is of the
session and revision the cache knows, and of the place it is kept for.
`Freshness`: what is left of the lease, and the age of a notice, bound how long
ago the client left the revision; the longest time is lease and delay together.
`Acquaintance`: the patch under the vehicle is ready for the owner's world only
if the cache knows that owner, so that a takeover by a session which nobody has
heard of yet holds the traffic. `Numbering`: a request has a number that no
frame or broadcast in circulation has for another place, without which a late
reply would be kept as the ground of another place; that there is a free number
is again a pigeonhole. The tick is a composition of four walks along routes
(`QueriesContinue`, `InitializedContinues`, `TrafficContinues`,
`ValidatedContinues`), each of which leaves the tiles it has found, in the sense
of `Continues`; `OutcomeIs` puts them together.

**The session.** `ServerPartsProofs` also proves, from `SessionAssumption` only, for
every bound on the queue and every number of broadcasts and frames:
`FrontOfQueueIsOwned` (`WriteOwnsFront`), `OperationsNeverOverlap`
(`NoForbiddenOverlap`), `LateFramesAreFew` (`AtMostOneLateFrame`) and
`SessionTypes`. The assumption is that the queue has room for two messages,
which is the literal of the code (`host/websocket/ws_server.cpp:77`): with room
for one, the place of the message that is being written would be given away. `SessionInv` adds to
these what the order of the writes needs: the queue holds newer and newer
messages (`QueueInOrder`), and what is not yet written is newer than all that is
(`WritesInOrder`), which holds because nothing waits without a running write,
because a closing session keeps only the running write and because a ready one
has written its Hello. `StagesInOrder` says how far the handshake must have come
for an operation to run, and `LateFrameIsLast` that no read is started after the
one frame that may come late.

**The reload.** `ServerPartsProofs` also proves, from `ReloadAssumption` only, for every
set of contents, every number of bakes and every interleaving of the exporter
with the loader: `PackagesAreNeverMixed` (`NoMixedPackage`) and
`ReloadTypeCorrect`. The inductive part is `PollMakesProgress`: if the loader has
read other bytes of a file than the manifest it compares with declares, then the
declared bytes were overwritten since its first comparison, and so the second
cannot find them. This rests on the assumption of `Overwrite` that no file comes
back within one poll to what it was (section 5); without it the theorem is
false, since the code hashes each file before and after it loads it but not
while.

**Live measurement.** `LiveMeasurementProofs` proves for every lifetime, every
number of connections, revisions and frames under way: `ProbesKnowOneRevision`
(`RevisionsAgree`), `PhysicsUsesOneWorld` (`StepsUseOneWorld`),
`PhysicsUsesARecentWorld` (`WorldIsRecent`) and `MeasurementTypes`.
`MeasurementInv` has three strands. Contexts: what a probe measured in the
context of the present connection was measured by it (`PatchesAreRecent`), and
where ground is welcome the obstacles are in the same context (`ContextsAgree`).
Revisions: installed ground is of the revision the probe knows
(`GroundIsOfRevision`). Time: a reply with the number of the request published
last was measured after it was sent (`RepliesAreRecent`); that a new number is
on no frame under way is a pigeonhole argument (`NewIdIsNew`). The two
properties of physics need all three, as a step may take ground of one reply
and obstacles of another.

**The traffic.** `TrafficProofs` proves from `NpcAssumption`, for every limit,
length of a plan and duration, `RetreatsAreLimited` (`RetreatIsLimited`) and
`PlansEnd` (`PlansEndOnALane`, an action property); and from
`RecoveryAssumption` and `TrialAssumption`, for every threshold, length of the
window and number of blows, `CarsResumeOnlyAfterRest` (`ResumesOnlyAfterRest`).
`NpcAssumption` has the order of the two limits (`Limit <= AccidentLimit`,
`simulation_host_npc.cpp:27`), without which a car that meets an accident on its way
would exceed the smaller. `NavigationInv` says that what a car has backed and
what it is about to back keep the limit together (`RoomIsLeft`), and where a car
may be that follows a plan (`WithinPlan`) or backs out of one
(`RecoversToBeginning`). `RecoveryInv` relates the car to the history of its
blows: its severity is at least the hardest of them, what it has held and has
still to hold is at least what that severity asks for, and it takes itself for no
quieter than it is (`WaitsEnough`). The cars are proved about one function of a
tick at a time (`SearchedCar`, `ManeuverCar`, ..., `TickedCar`, `MetCar`,
`ContactedCar`), in the order in which the code calls them.

`CarsAreDamagedByBlows` is `CarDamageMatchesBlows`, from the same two
assumptions, for every number of blows and ticks. The property reads damage and
events off the history of all blows, in which contacts less than a window apart
are one episode; a car remembers only the sums of the last ticks, how long it has
been quiet, and one episode. `Account` relates the two: the window of the car is
the end of the history and its sum that of the last tick (`Remembers`); the last
contact is as long ago as it thinks (`CalmFor`); while the last episode goes on,
what the car shows is its hardest contact since one that opens it, and afterwards
nothing (`InEpisode`); what it has charged is what that amounts to
(`ChargedFor`). The last says also why a car that is disabled need remember no
more: all that a further blow of the same tick could charge has been charged in
full by what disabled it. The history goes on in three ways: by silence or a blow
that is not felt, which leaves every episode as it was (`StorySame`,
`SilentAccount`); by a contact after a window of quiet, which begins an episode
(`StoryBegun`); and by one within a window of the last, which joins that one and
no other (`StoryJoined`), both `TouchedAccount`. What a contact does to the sums
over episodes is `AmountsBegun` and `AmountsRaised`.

**Client and server.** `ClientServerProofs` proves, from `ClientAssumption` and
`BoundsAssumption`, for every bound on sockets, queues, disturbances and choices
and all vehicles and maps: `ShownStatesAreCurrent` (`ShownStateIsCurrent`),
`HudIsHonest` (`HudNeverOverstates`), `VehicleIsNeverRefused`
(`GivesUpOnlyOverMap`) and `ClientServerTypes`. `ClientServerInv` has two
strands. A play has one vehicle: each state and reset under way, each task
queued for the game thread and the lifecycle of the server tells of the client's
play with the client's vehicle, or of an earlier play (`OfOnePlay`). It is
inductive because a step leaves play and choice alone or begins a newer play
(`PlayGrows`), and so what was under way still fits (`TrafficStaysFit`).
And what is shown was observed: on a new socket nothing is shown and the cache
of the health is empty (`NothingShown`), afterwards the cache is that of the
newest state, which is not older than the one shown (`ShownFits`). Together they
make two branches of `ApplyBinaryMessage` unreachable: a state of this play that
the cache calls newer is newer than the one shown, and has the vehicle chosen.
`ServerMoves` and `ClientMoves` say what a step of either side has to leave
right; then there is one lemma per action.

Only TLC checks liveness (`SilentOwnerIsRetired` and the other leads-to
properties), which the prover does not reach. Every safety invariant and every
action property that a run checks is also a theorem.

**Induction.** The induction theorems of the library have a predicate as a
parameter, which the provers cannot instantiate. Module `Induction` states
induction without one: a predicate is the set of the numbers that have it
(`SetInduction`, `IntervalInduction`, from the well-foundedness of `<`), a
recursive function exists if its step stays within a set (`StepsExist`), and a
sum takes its terms in any order (`SumTakesEach`), one more of them
(`SumWithOneMore`), and from where they are (`SumShifted`). No module a theorem is
about uses a recursive operator; they use recursive functions.

## 5. Assumptions and what is left out

- Integers are unbounded: the conversion of unsigned client times to signed
  nanoseconds and the wrap of 64-bit counters are not modelled. The overrun
  counter, which saturates, has its limit.
- Every frame carries the checksum of the installed map; one with another is
  rejected by every handler and has no step.
- The server requires a client Hello, as `main.cpp` configures it, and a
  greeting has sequence 1.
- The check that the vehicle is at rest before its parts change is left out of
  `NewSimulation`: a reset may succeed more often than in the code.
  `ClientServer` has it.
- Measurement frames have their part in `LiveMeasurement`; in `SimulationHost`
  they would only narrow which later frames are in order.
- `reset_for_reconnect` of the class retires the active key even if the new
  key is the same; the host never calls it so, since a newer socket may
  not repeat the session of the lifecycle.
- A file does not return to an earlier content within one poll (two complete
  bakes during one load, `host/terrain/map_package_runtime.cpp:237`); FNV
  collisions and a rewrite of the same size within the granularity of time
  stamps (`host/traffic/traffic_network_hot_reloader.cpp:59`) do not occur.
- In `LiveMeasurement` the numbers of requests are names that nothing in
  circulation has, instead of a counter; the client's world changes when it
  notices (`FWorldRevision::Poll`), once per game frame; a world state reaches
  the client before the next one; whether a measurement covers a query is
  open, and so is the fence of an incomplete snapshot over an older one. An
  E-stop is a lost session.
- In `UnrealClient` messages parse, the settings are valid and a socket can be
  made; the age of a state, the reconnect delay and the wait for a loadout are
  not measured: what waits for them may happen at any time.
- In `Tick` an impulse is an integer and a tick has a constant length; the
  disk does not fail except through the limits of the recording.
- In `NpcGround` replies are complete, a place is measured or too rough for good,
  and the ground under a body lies in a few tiles; a car that finds no ground
  measured at all stays, which is the code's way with edges of the world. A
  session changes hands a bounded number of times.
- In `Junction` a car is let on a lane with room for it behind the line and goes
  no further than 0.1 m in a substep, as the loader and `step()` see to.
  `ClearanceAssumption` is not checked by the code: a trip needs WALK for its
  own time and 0.2 s, which covers its last tick only if `physics_hz` is 5 or
  more, and options accept less. A tick undone or not enabled lets time pass
  with nobody moving; the properties speak of trips without one.
- Not modelled: vehicle physics, the collision world and coordinates (floating
  point); parsing, encoding, options, catalog (sequential conversions);
  rendering, asset tools and scripts; how a pole falls, how a path around an
  obstacle is found, where a car may drive. These are most of the
  repository's lines, and the reason why the map covers a small share of it.

## 6. Findings

Three runs expect a violation and show a disagreement of the code with a
comment or a document (`PROJECT.json` has both lines).

1. `map_race`: a client whose connection breaks between the commit of a bake
   and the server's reload of it gives up for good, with the new map, since it
   re-reads the manifest before it reconnects and then finds the server's map
   incompatible.
2. `loose_pole`: a pole is released and moved in the tick of its impact, but
   charged in the next. When that tick is not enabled its impulse is thrown
   away: the solver meets the pole where it was pushed to, and the clients are
   never told.

3. `conflicting_greens`: a network without a protected left turn, in which two
   groups of cars on one controller are green together, loads, though
   `docs/reference/traffic_network_signals.md:96` says it fails closed. The
   snapshot of the first tick that shows both is refused by an exception which
   nothing catches, and the server ends.

Thirteen more were met while reading or modelling, and are not shown by a run:

4. A player who drives, chooses another class and then the first class again
   before the reset for the other is answered has his reset refused ("stop
   before changing vehicle parts", `host/simulation_host_session.cpp:509`);
   `bLoadoutPending` is false by then, so that the retry in
   `ue/SimCoreClientComponent.cpp:384`, whose comment says a stopped-state race
   is retried, does not happen.
5. The resistance of a pole is its threshold less the peak of the episode,
   though the window slides: a second hit in one episode may release a pole
   whose damage never reaches 100, while the comment at
   `host/collision/structure_damage.cpp:513` speaks of the episode-aware damage
   profile.
6. A car that waits for its stop with its rear blocked looks every 0.25 s at
   the obstacle and at its rear (`host/simulation_host_npc.cpp:1218`) but never
   again at the adjacent lane or a bypass, although
   `docs/reference/npc_navigation.md:90` says that each decision looks at the
   gaps of the adjacent lanes and at the destination again.
7. The acceptor is not re-armed after an error of accept
   (`host/websocket/ws_server.cpp:352`), see Fairness.
8. A group of cars that is green in every phase has the countdown 0, which
   `NpcLaneFollower::green` takes for a green that has run out, so that its cars
   never go, while `can_begin_crossing` takes it for one without end.
9. For a car, the heads of pedestrians that share its group count as lit heads:
   it goes on though its own head has been knocked down.
10. A car that backs behind its line by less than the stop margin keeps its
   leave and may go over the line by red. The same after it was stopped with its
   nose over the line for a whole red phase.
11. A place that cannot be measured where a body is to enter the world holds
   the player for as long as the world stays as it is
   (`host/simulation_host_npc.cpp:2253`), and so do more places under all the
   bodies than the cache has tiles: the tick is all or nothing.
12. A car that looks ahead at such a place is frozen there, and asks for it at
   every tick, but for 100 ms after an answer. A full queue takes no further
   demand of that kind and the cars come in the order of the fleet, so that enough such
   cars (more than the queue, the request and the 100 ms hold) keep a later
   car's planning from ever being asked for.
13. `make_room` cannot fail in `accept` (`host/terrain/live_npc_ground.cpp:114`):
   `prepare` made the room, only `accept` fills it, and a new context or
   world drops the request too.
14. After a takeover and before the first notice of the new client a body may
   enter the world on tiles of the former one (for 350 ms at most); no tick counts on
   them.
15. `Connect()` refreshes the checksum of the map (`ue/SimCoreClientComponent.cpp:101`)
   before the attempt saves the "previous" one (`:179`), so that the retry which,
   in the words of `:188`, "must still detect A -> B and mint a fresh
   PlaySessionId" does neither when it is a call of `Connect()`. The client stays
   connected without a play (`Stranded`, section 3).
16. Two bakes, A to B and back to A, both installed by the server while the client waits to
   reconnect, are no change to the client: it asks for its play, which the
   server has ended.

## 7. What is left

- The fence of an incomplete obstacle snapshot over an older one, on a grid; the
  geometry of a tile of ground and replies that cover it in part.
- `WsServer`: pruning of released sessions and `stop()`.
- The horn, and pedestrians and cars that fall, whose rules are about distances
  and poses.
- The rejected frames of the host's handlers, and `PhysicsReplay` against a
  disk that fails.
