-------------------------------- MODULE Tick --------------------------------
(***************************************************************************)
(* One fixed tick of the simulation as a transaction                       *)
(* (SimulationHost::run_tick): the clock, the player's vehicle, the        *)
(* recording of its physics, the damage of a structure and the traffic.    *)
(*                                                                         *)
(* On a map's file every tick moves the vehicle.  On the live ground of    *)
(* the client ("live") a tick whose ground is not measured holds it where  *)
(* it is; when the traffic too drives on measured ground ("live_npc") such *)
(* a tick must leave traffic and structures as if it had not been.  The    *)
(* clock goes on in any case, so that the server keeps answering.          *)
(*                                                                         *)
(* Between ticks the frames of the client start plays, reconnect, drive    *)
(* and stop; who may do that is module SimulationHost's subject, and what  *)
(* is measured when that of LiveMeasurement: here both are free.  Traffic  *)
(* is the number of steps it has made.                                     *)
(***************************************************************************)
EXTENDS SimulationClock, StructureDamage

CONSTANTS
    Workloads,      \* the settings and bounds of a run, chosen at its start
    Profiles, FirstProfile,   \* vehicles; the sedan
    Inputs, SafeInput,        \* of a driver; make_safe_stop_input()
    Impulse,        \* what a tick's contacts may bring a structure
    Worlds, FirstWorld, Unavailable \* measurements; the file's map; none

VARIABLES
    work,       \* the workload of this run
    authority,  \* nobody, or the state of the control lease
    estop,      \* estop_latched_
    input,      \* applied_input_
    mapWorld,   \* the map package that is installed
    vehicle,    \* physics_
    unplaced,   \* live_ground_reset_pending_: the next step places it anew
    newTraffic, \* live_npc_initialization_pending_
    traffic,    \* runtime_entities_, lane_npcs_ and pedestrians_
    damage,     \* structure_damage_, one of its targets
    replay,     \* config_.physics_replay
    alive,      \* the process runs
    spent,      \* history: the ticks, and the lapses, there have been
    ledger,     \* history: the committed ticks since the structure was intact
    driven      \* history: the vehicle after each tick, as long as it counts

hostVars == <<authority, estop, input, mapWorld, vehicle, unplaced,
              newTraffic, traffic, damage>>
vars == <<work, clockVars, hostVars, replay, alive, spent, ledger, driven>>

Live == work.mode # "file"
LiveTraffic == work.mode = "live_npc"

INSTANCE PhysicsReplay WITH
    Measured <- Live, FrameLimit <- work.frames, ByteLimit <- work.lines

Workload ==
    [ mode  : {"file", "live", "live_npc"},  \* live_ground, live_npc_ground
      kind  : {"pole", "building"},          \* the structure
      ticks : Nat,    \* bound on the ticks of the run
      lapses : Nat,   \* bound on plays, reconnects, stops and reloads
      lags : SUBSET Nat,   \* how long after its deadline a tick may end
      impulses : SUBSET Impulse,  \* those that contacts may bring
      recorded : BOOLEAN,  \* whether the physics is recorded
      frames : Nat,   \* frame_limit_
      lines : Nat ]   \* byte_limit_

ASSUME TickAssumption ==
    /\ Workloads \subseteq Workload
    /\ FirstProfile \in Profiles /\ SafeInput \notin Inputs
    /\ Impulse \subseteq Nat
    /\ FirstWorld \in Worlds /\ Unavailable \notin Worlds

Authorities == {"none", "awaiting", "active", "safe", "retired"}

TypeOK ==
    /\ ClockTypeOK
    /\ work \in Workloads
    /\ authority \in Authorities
    /\ estop \in BOOLEAN /\ input \in Inputs \cup {SafeInput} /\ mapWorld \in Worlds
    /\ vehicle.profile \in Profiles
    /\ unplaced \in BOOLEAN /\ newTraffic \in BOOLEAN
    /\ traffic \in Nat
    /\ damage \in TargetRecord
    /\ replay.status \in {"off", "open", "complete", "invalid"}
    /\ alive \in BOOLEAN

Init ==
    /\ ClockInit
    /\ work \in Workloads
    /\ authority = "none" /\ estop = FALSE
    /\ input = SafeInput
    /\ mapWorld = FirstWorld
    /\ vehicle = FreshVehicle(FirstProfile)
    /\ unplaced = TRUE /\ newTraffic = TRUE
    /\ traffic = 0
    /\ damage = Intact(work.kind)
    /\ replay = [NewRecording EXCEPT !.status =
                   IF work.recorded THEN "open" ELSE "off"]
    /\ alive = TRUE
    /\ spent = [ticks |-> 0, lapses |-> 0]
    /\ ledger = <<>> /\ driven = <<>>

-----------------------------------------------------------------------------
(* Whatever writes to the recording may fail: an exception leaves the      *)
(* handler, and with it the process.                                       *)

\* The recording becomes r with the last lines written.  At its limit it ends
\* as invalid, and with it the process.
Record(r) ==
    /\ replay' = r
    /\ alive' = (r.status # "invalid" \/ replay.status = "invalid")

Lapse ==
    /\ alive
    /\ spent.lapses < work.lapses
    /\ spent' = [spent EXCEPT !.lapses = @ + 1]
    /\ UNCHANGED work

Remember == UNCHANGED <<ledger, driven>>

\* A client starts a play (handle_simulation_reset).
NewPlay(profile) ==
    /\ Lapse
    /\ ~estop
    /\ vehicle' = FreshVehicle(profile)
    /\ unplaced' = TRUE
    /\ Record(Noted(replay, ResetLine(replay, profile)))
    /\ damage' = Intact(work.kind)
    /\ ledger' = <<>>
    /\ newTraffic' = TRUE
    /\ traffic' = 0
    /\ input' = SafeInput
    /\ ResetElapsed
    /\ authority' = "awaiting"
    /\ UNCHANGED <<estop, mapWorld, driven>>

\* The controller of a play comes back with a new connection.
Reconnect ==
    /\ Lapse
    /\ ~estop /\ authority # "none"
    /\ input' = SafeInput
    /\ Record(Noted(replay, EventLine(replay, "RECONNECT", "")))
    /\ authority' = "awaiting"
    /\ Remember
    /\ UNCHANGED <<clockVars, estop, mapWorld, vehicle, unplaced, newTraffic,
                   traffic, damage>>

\* The controller drives (an accepted motion command).
Drive(i) ==
    /\ alive
    /\ ~estop /\ authority \in {"awaiting", "active", "safe"}
    /\ <<authority, input>> # <<"active", i>>
    /\ authority' = "active"
    /\ input' = i
    /\ Remember
    /\ UNCHANGED <<clockVars, estop, mapWorld, vehicle, unplaced, newTraffic,
                   traffic, damage, work, replay, alive, spent>>

EmergencyStop ==
    /\ Lapse
    /\ estop' = TRUE
    /\ input' = SafeInput
    /\ Record(Noted(replay, EventLine(replay, "ESTOP", "")))
    /\ Remember
    /\ UNCHANGED <<clockVars, authority, mapWorld, vehicle, unplaced,
                   newTraffic, traffic, damage>>

\* A tick that installs a map package does nothing else
\* (apply_pending_map_package_reload).
InstallMap(t, world) ==
    /\ Lapse
    /\ world # mapWorld
    /\ mapWorld' = world
    /\ unplaced' = TRUE /\ newTraffic' = TRUE
    /\ replay' = Invalidated(replay)
    /\ vehicle' = FreshVehicle(vehicle.profile)
    /\ traffic' = 0
    /\ damage' = Intact(work.kind)
    /\ ledger' = <<>>
    /\ input' = SafeInput
    /\ authority' = "none"
    /\ Restart(t)
    /\ UNCHANGED <<estop, alive, driven>>

-----------------------------------------------------------------------------
(* run_tick(): a tick is a function of the state it finds and of what it   *)
(* meets, a record m with                                                  *)
(*   end      when it is completed                                         *)
(*   network  whether a new traffic network was delivered                  *)
(*   late     the deadlines of the control lease that have passed          *)
(*   placed   whether the traffic finds measured ground to be placed on    *)
(*   swept    whether the obstacles on the vehicle's way are measured      *)
(*   world    the ground measured for the vehicle, or Unavailable          *)
(*   covered  whether the poses it leads to are measured as well           *)
(*   impulse  what the contacts of the step bring the structure            *)

LatePossible ==
    CASE authority = "active" ->
           { {}, {"SAFE_STOP"}, {"SAFE_STOP", "HARD_TIMEOUT"} }
      [] authority = "safe" -> { {}, {"HARD_TIMEOUT"} }
      [] OTHER -> { {} }

AuthorityAfter(late) ==
    IF "HARD_TIMEOUT" \in late THEN "retired"
    ELSE IF "SAFE_STOP" \in late THEN "safe" ELSE authority

InputAfter(late) == IF "SAFE_STOP" \in late THEN SafeInput ELSE input

\* live_ground_session_ready(), with a client that supports it.
SessionReady(m) ==
    Live /\ ~estop /\ AuthorityAfter(m.late) \in {"awaiting", "active", "safe"}

\* initialize_live_npc_ground_entities().
StillNewTraffic(m) ==
    (newTraffic \/ m.network) /\ ~(SessionReady(m) /\ m.placed)

\* The tick as the recording tells it (measured_frame).
Frame(m) ==
    LET attempted == /\ SessionReady(m)
                     /\ LiveTraffic => ~StillNewTraffic(m)
                     /\ m.swept
    IN  [ attempted |-> attempted, initialize |-> unplaced,
          world |-> IF attempted THEN m.world ELSE Unavailable,
          covered |-> ~attempted \/ m.world = Unavailable \/ m.covered ]

Moves(m) == ~Live \/ Accepted(Frame(m))

\* structures_enabled.
Driven(m) == ~estop /\ AuthorityAfter(m.late) = "active"

\* The structure as the collision solve finds it.
DamageFound(m) ==
    Ticked(IF m.network THEN Intact(work.kind) ELSE damage, Driven(m))

\* Mutant of Committed: a tick that held the vehicle is kept all the same.
AlwaysCommitted(m) == TRUE

\* traffic_committed: on measured ground traffic moves with the vehicle.
Committed(m) == LiveTraffic => Moves(m)

LedgerFound(m) == IF m.network THEN <<>> ELSE ledger

TrafficFound(m) == IF m.network THEN 0 ELSE traffic

\* What a tick that is not committed restores: traffic and structures as they
\* were before it, but with the new network.
DamageLeft(m) ==
    IF ~Committed(m) THEN IF m.network THEN Intact(work.kind) ELSE damage
    ELSE IF Driven(m) THEN AfterContacts(DamageFound(m), m.impulse)
         ELSE DamageFound(m)

VehicleLeft(m) ==
    IF Live
      THEN MeasuredStep(vehicle, InputAfter(m.late), Proxy(DamageFound(m)),
                        Frame(m))
      ELSE Stepped(vehicle, InputAfter(m.late), Proxy(DamageFound(m)), mapWorld)

NotedIfLate(r, late, event) ==
    IF event \in late THEN Noted(r, EventLine(r, event, "")) ELSE r

\* The recording when the vehicle is stepped: the network replaced, and the
\* deadlines noted.
RecordingFound(m) ==
    LET found == IF m.network THEN Invalidated(replay) ELSE replay
    IN  NotedIfLate(NotedIfLate(found, m.late, "SAFE_STOP"),
                    m.late, "HARD_TIMEOUT")

\* The tick itself comes last, once it is known where it led to.  The
\* structure is recorded as the solve found it.
RecordingLeft(m) ==
    LET noted == RecordingFound(m)
    IN  Recorded(noted, TickLines(noted, InputAfter(m.late),
                                  Proxy(DamageFound(m)), Frame(m),
                                  VehicleLeft(m)))

\* What a tick may meet.  A vehicle that is held or not driven is not asked
\* for an impulse: nothing would be recorded of it.
Meets(m) ==
    /\ m.network => spent.lapses < work.lapses
    /\ m.placed => newTraffic \/ m.network
    /\ ~Live => m.swept /\ m.covered /\ m.world = Unavailable
    /\ ~SessionReady(m) => m.swept /\ m.covered /\ m.world = Unavailable
    /\ m.impulse > 0 => Moves(m) /\ Driven(m)

RunTick(m) ==
    /\ alive
    /\ spent.ticks < work.ticks
    /\ Meets(m)
    /\ authority' = AuthorityAfter(m.late)
    /\ input' = InputAfter(m.late)
    /\ newTraffic' = StillNewTraffic(m)
    /\ vehicle' = VehicleLeft(m)
    /\ unplaced' = (unplaced /\ ~(Live /\ Moves(m)))
    /\ traffic' = TrafficFound(m) + (IF Committed(m) THEN 1 ELSE 0)
    /\ damage' = DamageLeft(m)
    /\ ledger' = IF ~Committed(m) THEN LedgerFound(m)
                 ELSE Append(LedgerFound(m),
                             [enabled |-> Driven(m), impulse |-> m.impulse])
    /\ LET r == RecordingLeft(m)
       IN  /\ replay' = r
           /\ alive' = ( \/ r.status \in {"off", "open"}
                         \/ r.status = "invalid" /\ m.network
                         \/ r.status = replay.status )
    /\ driven' = IF replay.status = "open" /\ ~m.network
                   THEN Append(driven, VehicleLeft(m)) ELSE driven
    /\ Advance(m.end)
    /\ spent' = [ ticks |-> spent.ticks + 1,
                  lapses |-> spent.lapses + (IF m.network THEN 1 ELSE 0) ]
    /\ UNCHANGED <<work, estop, mapWorld>>

\* The process is told to stop (main.cpp): the recording is finished, which
\* is an error when it is empty.
Shutdown ==
    /\ alive
    /\ alive' = FALSE
    /\ replay' = IF Finishable(replay) THEN Finished(replay) ELSE replay
    /\ Remember
    /\ UNCHANGED <<clockVars, hostVars, work, spent>>

\* The process is killed: some of the last lines may never reach the file.
Kill ==
    /\ alive /\ replay.status = "open"
    /\ alive' = FALSE
    /\ \E n \in 0..Len(replay.lines) : replay' = CutOff(replay, n)
    /\ Remember
    /\ UNCHANGED <<clockVars, hostVars, work, spent>>

Met == [ end : {clock.deadline + lag : lag \in work.lags}, network : BOOLEAN,
         late : LatePossible, placed : BOOLEAN, swept : BOOLEAN,
         world : Worlds \cup {Unavailable}, covered : BOOLEAN,
         impulse : work.impulses ]

Next ==
    \/ \E profile \in Profiles : NewPlay(profile)
    \/ Reconnect
    \/ \E i \in Inputs : Drive(i)
    \/ EmergencyStop
    \/ \E lag \in work.lags, world \in Worlds :
         InstallMap(clock.deadline + lag, world)
    \/ \E m \in Met : RunTick(m)
    \/ Shutdown
    \/ Kill

Spec == Init /\ [][Next]_vars

-----------------------------------------------------------------------------

\* A complete recording tells all there is to tell: the verifier, which has
\* nothing but the file, reaches the same vehicle as the host after each of
\* its ticks.  A recording that was broken off, by its limit, by a new map or
\* network, or with the process, is rejected.  (physics_replay.cpp, and
\* run_tick, handle_simulation_reset, main, which feed the recorder)
ReplayReproduces ==
    /\ Verifies(Live, replay.lines) <=> replay.status = "complete"
    /\ replay.status = "complete" => StatesOf(replay.lines) = driven

\* Damage and events of a structure are what the impulses of the ticks that
\* counted amount to: nothing is charged twice because a tick was undone or
\* an episode went on, and nothing is lost because a tick was held in between.
\* (StructureDamageRuntime::tick, record_contacts, and run_tick's rollback)
DamageMatchesImpulses ==
    LET charge   == Damages(Impulses(ledger))
        episodes == DOMAIN charge
    IN  /\ damage.damage = TotalDamage(charge, episodes)
        /\ damage.events
             = Cardinality(ReportedEpisodes(damage.kind, charge, episodes))

\* A tick on measured ground that cannot move the vehicle moves nothing: the
\* traffic stands still and the structures keep even the impulses that wait
\* to be counted, while the clock has gone on.  (run_tick: "NPC preparation
\* and finite-body contact solving form one transaction")
HeldTickChangesNothing ==
    [][ LiveTraffic /\ vehicle' = vehicle
        /\ spent' = [spent EXCEPT !.ticks = @ + 1]
          => UNCHANGED <<traffic, damage>> ]_vars

\* A pole whose base gave way has moved, and the solve meets it where it is
\* now; once its impulse is counted, the clients are told.  (run_tick: "Wire
\* pose and the pole's actual collision geometry stay atomic")
LoosePoleIsShown ==
    damage.released /\ damage.pending = 0 => OnTheWire(damage)
=============================================================================
