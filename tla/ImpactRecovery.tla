--------------------------- MODULE ImpactRecovery ---------------------------
(***************************************************************************)
(* What a collision does to the driving of a car of the traffic: the       *)
(* policy of impact_recovery.cpp, the motion it rests on                   *)
(* (runtime_collision_reaction.cpp), and the two places of a tick that     *)
(* feed them: prepare_lane_npc before the contacts of the tick are solved, *)
(* advance_runtime_entities after.                                         *)
(*                                                                         *)
(* A hit car coasts until it has settled, holds for as long as the hit was *)
(* severe, drives back to its lane, and only then goes on.  Contacts that  *)
(* are close in time form one episode, whose largest sum over a window     *)
(* does its damage once.                                                   *)
(*                                                                         *)
(* The change of speed a contact means to the car is a number; where the   *)
(* car is, how fast it moves and how it is tilted are reduced to whether   *)
(* it is displaced from its lane, slides, or tumbles.  A tick that is      *)
(* undone (module Tick) leaves the car as it was, and is no step here.     *)
(* Impulses are finite and masses positive.                                *)
(***************************************************************************)
EXTENDS Integers, Sequences, FiniteSetsExt, Functions

CONSTANTS
    Window,         \* contact_window_seconds, in ticks of constant length
    Noise, Presentation, Reaction, Onset, Disabling,  \* ..._delta_v_mps
    MinimumHold,    \* minimum_hold_seconds, in ticks
    HoldPerUnit,    \* what a unit of severity adds, to maximum_hold_seconds
    Boarding,       \* the pause before the car returns, in ticks
    MaxEvents,      \* the largest value of event_sequence_, 2^32 - 1
    Trials          \* the questions of a run, chosen at its start

ASSUME RecoveryAssumption ==
    /\ Window \in Nat \ {0}
    /\ Noise \in Nat \ {0} /\ Presentation \in Nat /\ Reaction \in Nat
    /\ Onset \in Nat /\ Disabling \in Nat
    /\ Noise <= Presentation /\ Presentation <= Reaction
    /\ Reaction <= Onset /\ Onset < Disabling
    /\ MinimumHold \in Nat \ {0} /\ HoldPerUnit \in Nat /\ Boarding \in Nat
    /\ MaxEvents \in Nat

VARIABLES
    trial,   \* the trial of this run
    car,     \* the car: recovery, reaction and tumble of its LaneNpcRuntime
    past     \* history: what has happened to it, see Noted

recoveryVars == <<trial, car, past>>

\* What a tick may mean to a car:
\*   enabled   somebody drives: no time passes for the traffic otherwise
\*   grounded  the ground under the car is measured
\*   posed     it finds a pose on its lane, and is not frozen
\*   lands     its tumbling ends; overturns: it has tilted too far
\*   rests     what moves it has faded away
\*   returned  it is back on its lane
\*   blocked   something is where it would slide or return to
\*   blow      the change of speed the contacts of the tick bring
\*   moves, shifted, topples   what they leave: whether it slides, is
\*             displaced, tumbles
Impacts ==
    [ enabled : BOOLEAN, grounded : BOOLEAN, posed : BOOLEAN,
      lands : BOOLEAN, overturns : BOOLEAN, rests : BOOLEAN,
      returned : BOOLEAN, blocked : BOOLEAN, blow : Nat,
      moves : BOOLEAN, shifted : BOOLEAN, topples : BOOLEAN ]

\* meets: what the ticks of a run may mean; hits: a bound on the blows;
\* listed: whether the history keeps every one; ticks: for how many ticks.
ASSUME TrialAssumption ==
    Trials \subseteq
      [meets : SUBSET Impacts, hits : Nat, listed : BOOLEAN, ticks : Nat]

Phases == {"Driving", "Settling", "Holding", "Recovering", "Disabled"}

CarRecord ==
    [ phase    : Phases,
      window   : Seq(Nat),     \* window_, by tick, newest last
      sum      : Nat,          \* window_delta_v_mps_
      quiet    : 0..Window,    \* quiet_seconds_
      calm     : 0..Window,    \* episode_quiet_seconds_
      episode  : BOOLEAN,      \* episode_active_
      shown    : BOOLEAN,      \* episode_event_emitted_
      peak     : Nat,          \* episode_peak_delta_v_mps_
      charged  : Nat,          \* episode_damage_percent_, in units of speed
      damage   : Nat,          \* damage_percent_, likewise
      events   : Nat,          \* event_sequence_
      severity : Nat,          \* severity_delta_v_mps_
      hold     : Nat,          \* hold_remaining_seconds_
      grace    : Nat,          \* return_departure_grace_remaining_s
      slides   : BOOLEAN,      \* velocity_enu_mps, heading_rate_rad_s
      tumbles  : BOOLEAN,      \* npc.tumble is not settled
      displaced : BOOLEAN ]    \* offset_enu_m, heading_offset_rad

UnhitCar ==
    [ phase |-> "Driving", window |-> <<0>>, sum |-> 0,
      quiet |-> Window, calm |-> Window, episode |-> FALSE, shown |-> FALSE, peak |-> 0,
      charged |-> 0, damage |-> 0, events |-> 0, severity |-> 0, hold |-> 0,
      grace |-> 0, slides |-> FALSE, tumbles |-> FALSE, displaced |-> FALSE ]

Full == Disabling - Onset    \* 100 percent

Greater(m, n) == IF m >= n THEN m ELSE n
Lesser(m, n) == IF m <= n THEN m ELSE n

-----------------------------------------------------------------------------
(* ImpactRecoveryState.                                                    *)

\* hold_duration_seconds().
Hold(severity) == MinimumHold + HoldPerUnit * Lesser(severity, Disabling)

\* episode_damage().
Charge(peak) == IF peak <= Onset THEN 0 ELSE Lesser(peak - Onset, Full)

\* update_window().  The impulse of a tick is added after its time: when the
\* window is full its oldest tick has just run out, and counts a last time.
Slid(window, dt) ==
    LET longer == IF dt = 1 THEN Append(window, 0) ELSE window
    IN  IF Len(longer) > Window + 1 THEN Tail(longer) ELSE longer

RunOut(window, dt) ==
    IF dt = 1 /\ Len(window) > Window THEN Head(window) ELSE 0

\* The first half of tick(): the window, what kind of contact this is, how
\* long it has been quiet, and what the episode shows.
Observed(c, dt, blow) ==
    LET window   == Slid(c.window, dt)
        sum      == Greater(0, c.sum + blow - RunOut(c.window, dt))
        contact  == blow > 0 /\ sum >= Noise
        reactive == contact /\ sum >= Reaction
        opens    == IF c.phase = "Disabled" THEN reactive ELSE contact
        episode  == c.episode \/ opens
        peak     == IF episode THEN Greater(c.peak, sum) ELSE c.peak
        shown    == c.shown \/ (episode /\ peak >= Presentation)
    IN  [ c EXCEPT
            !.window = [window EXCEPT ![Len(window)] = @ + blow],
            !.sum = sum, !.episode = episode, !.peak = peak,
            !.quiet = IF reactive THEN 0 ELSE Lesser(Window, @ + dt),
            !.calm = IF contact THEN 0 ELSE Lesser(Window, @ + dt),
            !.shown = shown,
            !.events = IF shown /\ ~c.shown THEN Lesser(MaxEvents, @ + 1)
                                             ELSE @ ]

\* The episode charges what its peak damages beyond what it charged before.
Charged(c) ==
    IF ~c.episode THEN c
    ELSE [ c EXCEPT !.damage = Lesser(@ + Greater(0, Charge(c.peak) - c.charged), Full),
                    !.charged = Charge(c.peak) ]

\* Mutant of AfterHit: a second hit does not lengthen the hold.
AfterFirstHit(c) ==
    LET severity == IF c.phase = "Driving" THEN c.peak
                                           ELSE Greater(c.severity, c.peak)
    IN  [ c EXCEPT
            !.severity = severity,
            !.phase = IF @ \in {"Driving", "Recovering"} THEN "Settling" ELSE @,
            !.hold = IF c.phase \in {"Driving", "Recovering"}
                       THEN Hold(severity) ELSE @ ]

\* A hit that the driver would notice stops the car, or lengthens its hold.
AfterHit(c) ==
    LET severity == IF c.phase = "Driving" THEN c.peak
                                           ELSE Greater(c.severity, c.peak)
    IN  [ c EXCEPT
            !.severity = severity,
            !.phase = IF @ \in {"Driving", "Recovering"} THEN "Settling" ELSE @,
            !.hold = IF c.phase \in {"Driving", "Recovering"}
                       THEN Hold(severity)
                     ELSE IF c.phase = "Holding"
                       THEN @ + Hold(severity) - Hold(c.severity) ELSE @ ]

\* From phase to phase.
Progressed(c, dt, settled) ==
    CASE c.phase = "Settling" ->
           [ c EXCEPT !.hold = Hold(c.severity),
                      !.phase = IF settled THEN "Holding" ELSE @ ]
      [] c.phase = "Holding" /\ settled ->
           LET hold == Greater(0, c.hold - dt)
           IN  [ c EXCEPT !.hold = hold,
                          !.phase = IF hold = 0 /\ c.quiet >= Window
                                      THEN "Recovering" ELSE @ ]
      [] c.phase \in {"Holding", "Recovering"} /\ ~settled ->
           [c EXCEPT !.phase = "Settling", !.hold = Hold(c.severity)]
      [] OTHER -> c

\* Mutant of EpisodeClosed: an episode ends with the first tick of quiet.
EpisodeClosedAtOnce(c, blow) ==
    IF blow = 0
      THEN [ c EXCEPT !.episode = FALSE, !.shown = FALSE, !.peak = 0,
                      !.charged = 0 ]
      ELSE c

\* clear_episode(), after a window without contact.
EpisodeClosed(c, blow) ==
    IF (blow = 0 \/ c.sum < Noise) /\ c.calm >= Window
      THEN [ c EXCEPT !.episode = FALSE, !.shown = FALSE, !.peak = 0,
                      !.charged = 0 ]
      ELSE c

\* The second half of tick(), of a car that is driven or may be again.
Decided(c, dt, blow, settled) ==
    IF c.episode /\ c.peak >= Disabling
      THEN [ c EXCEPT !.phase = "Disabled", !.hold = 0,
                      !.severity = Greater(@, c.peak) ]
      ELSE EpisodeClosed(
             Progressed(IF blow > 0 /\ c.sum >= Reaction THEN AfterHit(c) ELSE c,
                        dt, settled), blow)

\* tick().
Ticked(c, dt, blow, settled) ==
    IF c.phase = "Disabled"
      THEN EpisodeClosed(Observed(c, dt, blow), blow)
      ELSE Decided(Charged(Observed(c, dt, blow)), dt, blow, settled)

-----------------------------------------------------------------------------
(* RuntimeCollisionReaction.                                               *)

\* What update() takes for the car's being at rest; moves is whether a car
\* that drives, or has just been hit, is on the move.
Settled(c, moves) ==
    ~(IF c.phase = "Driving" THEN moves ELSE c.slides) /\ ~c.tumbles

\* A car that is stopped keeps what the hit left it of its speed; one that
\* recovers waits for its driver.
Reacted(c, next, moves) ==
    IF c.phase # "Recovering" /\ next.phase = "Recovering"
      THEN [next EXCEPT !.grace = Boarding]
    ELSE IF /\ c.phase \in {"Driving", "Recovering"}
            /\ next.phase \in {"Settling", "Holding", "Disabled"}
      THEN [next EXCEPT !.grace = 0, !.slides = moves]
    ELSE next

\* update().
Updated(c, dt, blow, moves) ==
    Reacted(c, Ticked(c, dt, blow, Settled(c, moves)), moves)

\* integrate_offset().
Integrated(c, m) ==
    IF c.phase = "Holding" THEN [c EXCEPT !.slides = FALSE]
    ELSE IF c.phase = "Recovering" /\ c.grace > 0
      THEN [c EXCEPT !.slides = FALSE, !.grace = @ - 1]
    ELSE LET strayed == c.displaced \/ c.slides
             back    == c.phase \in {"Driving", "Recovering"} /\ m.returned
         IN  [ c EXCEPT !.displaced = strayed /\ ~back,
                        !.slides = @ /\ ~m.rests
                             /\ ~(back /\ c.phase = "Recovering") ]

\* The way it would slide or return is not clear: it stays where it is.
Halted(before, c, m) ==
    [ c EXCEPT !.displaced = before.displaced \/ c.phase = "Driving",
               !.slides = FALSE,
               !.tumbles = before.tumbles /\ ~m.rests ]

\* Mutant of Finished: the car goes on from where it is.
FinishedAnywhere(c) ==
    IF c.phase = "Recovering" /\ c.grace = 0 /\ ~c.slides
      THEN [c EXCEPT !.phase = "Driving", !.hold = 0, !.grace = 0] ELSE c

\* finish_recovery().
Finished(c) ==
    IF c.phase = "Recovering" /\ ~c.displaced /\ ~c.slides
      THEN [c EXCEPT !.phase = "Driving", !.hold = 0, !.grace = 0] ELSE c

-----------------------------------------------------------------------------
(* The tick of the host.                                                   *)

\* A car that has tilted too far does not drive again.
Overturned(c, m) ==
    IF m.overturns /\ c.tumbles THEN [c EXCEPT !.phase = "Disabled", !.hold = 0]
                                ELSE c

\* Where it goes, found as in c, and then as in s.
Moved(c, s, m) ==
    IF ~m.posed THEN s
    ELSE Finished(IF /\ m.blocked
                     /\ s.phase # "Driving" \/ s.tumbles \/ c.displaced
                    THEN Halted(c, Integrated(s, m), m)
                    ELSE Integrated(s, m))

\* prepare_lane_npc(), in a tick whose time counts for the car.
Readied(c, m) ==
    Moved(c, Overturned(Updated([c EXCEPT !.tumbles = @ /\ ~m.lands],
                                1, 0, m.moves), m), m)

\* Time counts for the car.
Counts(m) == m.enabled /\ m.grounded

\* It has a pose the contacts were solved against (pending): the one it goes
\* to, or the one it keeps because its ground is not measured.
Solved(m) == m.grounded => m.enabled /\ m.posed

\* advance_runtime_entities(): what the contacts of the tick leave, and the
\* impulses they bring if there was a pose to solve them against.
Contacted(c, m) ==
    IF m.blow = 0 THEN c
    ELSE IF ~Solved(m) THEN Updated(c, 0, 0, FALSE)
    ELSE Updated([ c EXCEPT !.slides = m.moves, !.displaced = @ \/ m.shifted,
                            !.tumbles = @ \/ m.topples ],
                 0, m.blow, m.moves)

\* The car as the contacts of the tick find it.
Met(c, m) == IF Counts(m) THEN Readied(c, m) ELSE c

After(c, m) == Contacted(Met(c, m), m)

-----------------------------------------------------------------------------
(* History: for how long the car was found at rest since it was stopped,   *)
(* how long ago and how hard it was hit since it last drove, whether it    *)
(* ever went on too early or away from its lane, and every blow that       *)
(* counted, by tick, and whether it met a car that was not yet disabled.   *)

NoPast == [ rest |-> 0, since |-> Window, hardest |-> 0, rushed |-> FALSE,
            hits |-> 0, blows |-> <<[sum |-> 0, live |-> FALSE]>> ]

Motors == {"Driving", "Recovering"}    \* phases in which the car drives

\* From one state of the car to the next one, it begins to drive although it
\* has not rested for long enough, or goes on although it is not on its lane.
Rushes(before, after, p) ==
    \/ /\ before.phase \notin Motors /\ after.phase \in Motors
       /\ \/ before.phase = "Disabled"
          \/ p.rest < Hold(p.hardest) \/ p.since < Window
    \/ /\ before.phase # "Driving" /\ after.phase = "Driving"
       /\ after.displaced

\* The time of a tick passes for a car that was found as in c, moving or not.
Rested(p, c, m) ==
    [ p EXCEPT !.rest = IF c.phase \in Motors \/ c.slides
                             \/ (c.tumbles /\ ~m.lands) THEN 0
                        ELSE Lesser(Hold(Disabling), @ + 1),
               !.since = Lesser(Window, @ + 1),
               !.hardest = IF c.phase = "Driving" THEN 0 ELSE @,
               !.blows = IF trial.listed
                           THEN Append(@, [sum |-> 0, live |-> FALSE]) ELSE @ ]

\* A blow meets a car as in c, and its window then sums up to sum.
Struck(p, c, m, sum) ==
    LET felt == sum >= Reaction
    IN  [ p EXCEPT
            !.rest = IF m.moves \/ c.tumbles \/ m.topples
                          \/ (felt /\ c.phase \in Motors) THEN 0 ELSE @,
            !.since = IF felt THEN 0 ELSE @,
            !.hardest = IF ~felt THEN @
                        ELSE IF c.phase = "Driving" THEN sum
                        ELSE Greater(@, sum),
            !.blows = IF ~trial.listed THEN @
                      ELSE [ p.blows EXCEPT ![Len(p.blows)] =
                               [ sum  |-> @.sum + m.blow,
                                 live |-> @.live \/ c.phase # "Disabled" ] ] ]

\* A car went from c to between to after, and its past from rested to struck.
Judged(c, between, after, rested, struck, m) ==
    [ struck EXCEPT
        !.rushed = @ \/ Rushes(c, between, rested)
                     \/ Rushes(between, after, struck),
        !.hits = IF m.blow > 0 THEN @ + 1 ELSE @ ]

Noted(rested, c, between, after, m) ==
    Judged(c, between, after, rested,
           IF m.blow > 0 /\ Solved(m) THEN Struck(rested, between, m, after.sum)
                                      ELSE rested, m)

-----------------------------------------------------------------------------

TypeOK == trial \in Trials /\ car \in CarRecord

RecoveryInit ==
    /\ trial \in Trials
    /\ car = UnhitCar
    /\ past = NoPast

RunTick(m) ==
    /\ m.blow > 0 => past.hits < trial.hits
    /\ Len(past.blows) <= trial.ticks
    /\ car' = After(car, m)
    /\ past' = Noted(IF Counts(m) THEN Rested(past, car, m) ELSE past,
                     car, Met(car, m), car', m)
    /\ UNCHANGED trial

\* A new play, map or traffic network: rebuild_lane_npc().
Rebuilt ==
    /\ <<car, past>> # <<UnhitCar, NoPast>>
    /\ car' = UnhitCar /\ past' = NoPast
    /\ UNCHANGED trial

RecoveryNext == (\E m \in trial.meets : RunTick(m)) \/ Rebuilt

RecoverySpec == RecoveryInit /\ [][RecoveryNext]_recoveryVars

-----------------------------------------------------------------------------

\* A car that was hit does not drive again, and not even back to its lane,
\* before it has been at rest for as long as the hardest blow since it last
\* drove demands and no such blow has come for a window of time; it does not
\* go on before it is back on its lane; and never once it is disabled.
\* (ImpactRecoveryState::tick, RuntimeCollisionReaction, prepare_lane_npc)
ResumesOnlyAfterRest == ~past.rushed

\* What the damage should amount to, from the blows by tick.  A sum reaches
\* back over Window ticks, the one just run out included.
Sum(x, n) ==
    SumFunctionOnSet([k \in DOMAIN x |-> x[k].sum], Greater(1, n - Window) .. n)

IsContact(x, n) == x[n].sum > 0 /\ Sum(x, n) >= Noise

\* Contacts less than a window apart are one episode, begun by its first.
BeginsEpisode(x, n) ==
    IsContact(x, n)
      /\ \A k \in Greater(1, n - Window + 1) .. n - 1 : ~IsContact(x, k)

Beginnings(x) == {n \in DOMAIN x : BeginsEpisode(x, n)}

ContactsOf(x, first) ==
    {n \in DOMAIN x : /\ n >= first /\ IsContact(x, n)
                      /\ \A k \in Beginnings(x) : k <= n => k <= first}

HardestSum(x, contacts) == Max({Sum(x, n) : n \in contacts} \cup {0})

\* Light pressure against a car that is disabled shows nothing by itself.
ShownContacts(x, first) ==
    LET contacts == ContactsOf(x, first)
        openers  == {n \in contacts : x[n].live \/ Sum(x, n) >= Reaction}
    IN  {n \in contacts : \E o \in openers : o <= n}

EpisodeCharge(x, first) ==
    Charge(HardestSum(x, {n \in ContactsOf(x, first) : x[n].live}))

Charges(x) == [n \in Beginnings(x) |-> EpisodeCharge(x, n)]

\* The episodes that can be seen.
Presented(x) ==
    {n \in Beginnings(x) : HardestSum(x, ShownContacts(x, n)) >= Presentation}

\* Damage is done once for each episode, by its hardest moment, and one event
\* tells of each episode that can be seen, also when the car no longer drives.
\* (ImpactRecoveryState::tick, "only the peak severity of a contact episode
\* is charged", "one presentation event per contact episode")
CarDamageMatchesBlows ==
    LET x == past.blows
    IN  trial.listed =>
          /\ car.damage
               = Lesser(Full, SumFunctionOnSet(Charges(x), Beginnings(x)))
          /\ car.events = Lesser(MaxEvents, Cardinality(Presented(x)))
=============================================================================
