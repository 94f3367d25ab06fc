---------------------------- MODULE PhysicsReplay ----------------------------
(***************************************************************************)
(* The recording of the player's physics (physics_replay.cpp): what each   *)
(* tick and each event of the session adds to the file, how a recording    *)
(* ends, and what the verifier computes from the file alone.               *)
(*                                                                         *)
(* The physics is a function of what it is given: a vehicle is the profile *)
(* of its last reset and the steps it has made since.  Two computations    *)
(* reach the same vehicle exactly if they made the same steps.  The header *)
(* of the file, which names the executable, the vehicles and the map, is   *)
(* the same for both, and left out.  One line of the model stands for the  *)
(* lines of one kind that a tick writes together (TICK and its PROXY lines,*)
(* GROUND and its samples and colliders).                                  *)
(***************************************************************************)
EXTENDS Integers, Sequences

CONSTANTS
    FirstProfile,   \* the vehicle before the first reset, the sedan
    FirstWorld,     \* the map package of the identity line
    Unavailable,    \* a measurement of the ground that is missing
    Measured,       \* BOOLEAN: measured_ground_, the ground is recorded too
    FrameLimit,     \* frame_limit_
    ByteLimit       \* byte_limit_, in lines

-----------------------------------------------------------------------------
(* The physics of the player's vehicle, as far as a replay depends on it   *)
(* (vehicle_physics.cpp).                                                  *)

\* The constructor, replace_parameters() and reset().
FreshVehicle(profile) == [profile |-> profile, steps |-> <<>>]

\* update(): one step on the ground and against the colliders of the world
\* and the proxies.
Stepped(vehicle, input, proxies, world) ==
    [vehicle EXCEPT !.steps = Append(@, <<input, proxies, world>>)]

\* A measured tick as the solver sees it: whether it was tried, whether the
\* vehicle is placed anew, what was measured, and whether the pose it would
\* reach is still covered by what was measured.
Accepted(frame) ==
    frame.attempted /\ frame.world # Unavailable /\ frame.covered

\* try_update_with_ground(), or no update at all: a step that is not accepted
\* leaves the vehicle as it was.
MeasuredStep(vehicle, input, proxies, frame) ==
    IF ~Accepted(frame) THEN vehicle
    ELSE Stepped(IF frame.initialize THEN FreshVehicle(vehicle.profile)
                                     ELSE vehicle,
                 input, proxies, frame.world)

-----------------------------------------------------------------------------
(* The recorder.                                                           *)

NewRecording ==
    [status |-> "open", lines |-> <<>>, frames |-> 0, events |-> 0]

EventLine(r, event, profile) ==
    [ kind |-> "EVENT", frame |-> r.frames, event |-> event,
      profile |-> profile ]

\* Mutant of ResetLine: the original spelling, which names no vehicle.
BareResetLine(r, profile) == EventLine(r, "RESET", FirstProfile)

ResetLine(r, profile) == EventLine(r, "RESET", profile)

\* The lines of one tick, from its input to the state it led to.
TickLines(r, input, proxies, frame, vehicle) ==
    << [kind |-> "TICK", frame |-> r.frames, input |-> input,
        proxies |-> proxies] >>
    \o (IF Measured THEN << [kind |-> "GROUND", ground |-> frame] >> ELSE <<>>)
    \o << [kind |-> "STATE", state |-> vehicle] >>

EndLine(r) == [kind |-> "END", frames |-> r.frames, events |-> r.events]

\* invalidate(): a recording that is over keeps its end.
Invalidated(r) ==
    IF r.status # "open" THEN r
    ELSE [ r EXCEPT !.status = "invalid",
                    !.lines = Append(@, [kind |-> "INVALID"]) ]

\* finish(); it is an error to finish a recording without a frame.
Finishable(r) == r.status # "open" \/ r.frames > 0

Finished(r) ==
    IF r.status # "open" THEN r
    ELSE [r EXCEPT !.status = "complete", !.lines = Append(@, EndLine(r))]

\* Room is kept for the line that ends the file.
Fits(r, lines) == Len(r.lines) + Len(lines) < ByteLimit

\* write_line() for each of the lines: either all are written, or the limit
\* cuts them off and the recording ends as invalid, with an exception.
Written(r, lines) ==
    IF Fits(r, lines) THEN [r EXCEPT !.lines = @ \o lines]
    ELSE Invalidated(
           [ r EXCEPT !.lines =
               @ \o SubSeq(lines, 1, ByteLimit - 1 - Len(r.lines)) ])

\* event().
Noted(r, line) ==
    IF r.status # "open" THEN r
    ELSE LET w == Written(r, <<line>>)
         IN  IF w.status = "open" THEN [w EXCEPT !.events = @ + 1] ELSE w

\* tick(), tick_measured(): the frame that reaches the limit ends the file.
Recorded(r, lines) ==
    IF r.status # "open" THEN r
    ELSE LET w == Written(r, lines)
             f == [w EXCEPT !.frames = @ + 1]
         IN  IF w.status # "open" THEN w
             ELSE IF f.frames = FrameLimit THEN Finished(f) ELSE f

\* The disk fails, or the process is killed: some of the lines never reach
\* the file, and no line ends it.
CutOff(r, n) == [r EXCEPT !.status = "invalid", !.lines = SubSeq(@, 1, n)]

-----------------------------------------------------------------------------
(* verify_physics_replay(): the file is executed line by line.             *)

\* The header tells whether the ground is recorded too.
Unread(measured) ==
    [ measured |-> measured,
      verdict |-> "reading", expect |-> {"TICK", "EVENT", "END"}, frames |-> 0,
      events |-> 0, vehicle |-> FreshVehicle(FirstProfile),
      input |-> "", proxies |-> "" ]

Between(v) == [v EXCEPT !.expect = {"TICK", "EVENT", "END"}]

VerifyTick(v, line) ==
    LET read == [v EXCEPT !.input = line.input, !.proxies = line.proxies]
    IN  IF v.measured
        THEN [read EXCEPT !.expect = {"GROUND"}]
        ELSE [ read EXCEPT
                 !.expect = {"STATE"},
                 !.vehicle = Stepped(@, line.input, line.proxies, FirstWorld) ]

VerifyGround(v, line) ==
    [ v EXCEPT !.expect = {"STATE"},
               !.vehicle = MeasuredStep(@, v.input, v.proxies, line.ground) ]

VerifyEvent(v, line) ==
    [ v EXCEPT !.events = @ + 1,
               !.vehicle = IF line.event = "RESET"
                             THEN FreshVehicle(line.profile) ELSE @ ]

Reject(v) == [v EXCEPT !.verdict = "rejected"]

\* A line that does not come next, or belongs to another frame.
Misplaced(v, line) ==
    \/ line.kind \notin v.expect
    \/ line.kind \in {"TICK", "EVENT"} /\ line.frame # v.frames

VerifyLine(v, line) ==
    IF v.verdict # "reading" \/ Misplaced(v, line) THEN Reject(v)
    ELSE CASE line.kind = "EVENT" -> VerifyEvent(v, line)
           [] line.kind = "TICK" -> VerifyTick(v, line)
           [] line.kind = "GROUND" -> VerifyGround(v, line)
           [] line.kind = "STATE" ->
                IF line.state = v.vehicle
                  THEN [Between(v) EXCEPT !.frames = @ + 1]
                  ELSE Reject(v)
           [] line.kind = "END" ->
                IF line.frames = v.frames /\ v.frames > 0 /\ line.events = v.events
                  THEN [v EXCEPT !.verdict = "verified"] ELSE Reject(v)

\* The verifier after the last of the lines.
Reading(measured, lines) ==
    LET after[n \in 0..Len(lines)] ==
          IF n = 0 THEN Unread(measured) ELSE VerifyLine(after[n - 1], lines[n])
    IN  after[Len(lines)]

\* Whether the verifier accepts the file.  One that stops without an end is
\* rejected as truncated.
Verifies(measured, lines) == Reading(measured, lines).verdict = "verified"

\* The vehicles of the ticks in a file.
WithState(states, line) ==
    IF line.kind = "STATE" THEN Append(states, line.state) ELSE states

StatesOf(lines) ==
    LET states[n \in 0..Len(lines)] ==
          IF n = 0 THEN <<>> ELSE WithState(states[n - 1], lines[n])
    IN  states[Len(lines)]
=============================================================================
