---------------------------- MODULE NpcNavigation ----------------------------
(***************************************************************************)
(* How the cars of the traffic get around what blocks their lane           *)
(* (simulation_host_npc.cpp: prepare_lane_npc, update_npc_navigation and   *)
(* what they call).  A car that is blocked asks for a search.  In each     *)
(* tick one of the cars that ask has its turn, in the order of their       *)
(* numbers: it changes the lane, begins or goes on with the search for a   *)
(* bypass, or backs half a metre at a time to win room.  A car that is     *)
(* blocked in the middle of a change or bypass backs to where it began     *)
(* and plans anew.                                                         *)
(*                                                                         *)
(* Geometry is left out.  A car is at a number of increments from the      *)
(* beginning of its lane, and what it meets in a tick is a record of a     *)
(* given set: what is ahead and behind, and how its searches end.          *)
(***************************************************************************)
EXTENDS Integers, FiniteSetsExt

CONSTANTS
    Workloads,      \* the cars and settings of a run, chosen at its start
    MaxNpc,         \* the largest number of cars
    Decision,       \* kNpcNavigationDecisionPeriodS, in ticks
    SearchPause,    \* local_search_cooldown_s, in ticks
    ChangePause,    \* navigation_cooldown_s after a change, in ticks
    Patience,       \* kNpcOvertakeDecisionDelayS, in decisions
    Increment,      \* the distance of one reverse
    Reserve,        \* kNpcEscapeRearReserveM
    Limit, AccidentLimit   \* kNpcEscape..., kNpcAccidentEscapeMaximumRetreatM

VARIABLES
    work,       \* the workload of this run
    npc,        \* lane_npcs_
    after,      \* npc_search_after_entity_id_
    odd         \* history: whether the number of ticks in which the player
                \* drives and all that counts is measured is odd

vars == <<work, npc, after, odd>>

Npcs == 1..work.npcs

\* What a car may meet in a tick:
\*   ahead      what blocks its way: "queue" is somebody who may go on, behind
\*              whom in "queued_wall" is something that will not
\*   distance   how far away that is: within 2 m of the bumper, 8 m, 12 m
\*   red        a red signal; offset: a collision has moved it off its path
\*   rear       the way it would back is clear, and retreatable its own lane
\*   change, detour, routed   whether a lane change, a way around on other
\*              lanes, a new destination is found when it is looked for
\*   slice      how a slice of the local search ends
\*   arrived    it is at its destination, or has none
\*   shifting   its gearbox does not yet back; displayed: its plan has a
\*              pose on the road; adopted: the target lane takes it over
\*   hit        what collisions mean to its driving: "off", "on" or "as_is"
\*   missing    ground it asks for is not measured
Meets ==
    [ ahead : {"none", "queue", "queued_wall", "wall", "crash"},
      distance : {"near", "close", "middle", "far"},
      slice : {"pending", "none", "plan"}, hit : {"as_is", "off", "on"},
      red : BOOLEAN, offset : BOOLEAN, rear : BOOLEAN, retreatable : BOOLEAN,
      change : BOOLEAN, detour : BOOLEAN, routed : BOOLEAN, arrived : BOOLEAN,
      shifting : BOOLEAN, displayed : BOOLEAN, adopted : BOOLEAN,
      missing : BOOLEAN ]

ASSUME NpcAssumption ==
    /\ \A w \in Workloads : /\ w.npcs \in 1..MaxNpc
                            /\ w.lane \in Nat /\ w.plan \in Nat \ {0}
                            /\ w.meets \cup w.idle \subseteq Meets
    /\ {Decision, SearchPause, ChangePause, Patience} \subseteq Nat
    /\ {Increment, Limit, AccidentLimit} \subseteq Nat \ {0} /\ Reserve \in Nat
    /\ Limit <= AccidentLimit

NoStop == -1

NewCar ==
    [ pos |-> Reserve, halt |-> "other",        \* follower
      plan |-> "none", begin |-> 0,             \* lane_change, local_bypass
      phase |-> "none", remaining |-> 0, total |-> 0,   \* avoidance_...
      stopAt |-> NoStop,                        \* avoidance_stop_distance_m
      recovering |-> FALSE, anchor |-> 0, obstructed |-> 0, \* maneuver_...
      searching |-> FALSE, searchedAt |-> 0, observe |-> 0, \* local_search...
      searchPause |-> 0,
      requested |-> FALSE,                      \* navigation_search_requested
      probe |-> FALSE,                          \* next_reverse_probe_m > 0
      pause |-> 0, waited |-> 0,   \* navigation_cooldown_s, obstruction_...
      drives |-> TRUE,                          \* reaction.recovery
      backed |-> 0, crash |-> FALSE ]
      \* history: how far it has backed since it was last free to go on, and
      \* whether an accident was ahead in the meantime

Init ==
    /\ work \in Workloads
    /\ npc = [n \in Npcs |-> NewCar]
    /\ after = 0
    /\ odd = FALSE

-----------------------------------------------------------------------------
(* Pieces of the navigation of one car v.                                  *)

LessOne(k) == IF k = 0 THEN 0 ELSE k - 1
Smaller(j, k) == IF j <= k THEN j ELSE k

Moving(v) == v.halt = "none"
Blocked(m) == m.ahead # "none"
Persistent(m) == m.ahead \in {"queued_wall", "wall", "crash"}
FirstPersists(m) == m.ahead \in {"wall", "crash"}
RetreatLimit(m) == IF m.ahead = "crash" THEN AccidentLimit ELSE Limit

\* clear_npc_avoidance_state.
Cleared(v) ==
    [ v EXCEPT !.stopAt = NoStop, !.phase = "none", !.remaining = 0,
               !.total = 0, !.recovering = FALSE, !.obstructed = 0,
               !.anchor = 0, !.searching = FALSE, !.requested = FALSE,
               !.probe = FALSE, !.backed = 0, !.crash = FALSE ]

Adopted(v, plan) ==
    [Cleared(v) EXCEPT !.plan = plan, !.begin = v.pos, !.waited = 0]

\* begin_npc_escape_reverse: the car backs only from what is close, within its
\* lane and the limit, and once it stands.
EscapeReverse(v, m) ==
    LET room == Smaller(v.pos - Reserve, RetreatLimit(m) - v.total)
        distance == Smaller(Increment, room)
        standing == [v EXCEPT !.stopAt = v.pos, !.probe = FALSE]
    IN  IF \/ ~m.retreatable \/ v.total >= RetreatLimit(m)
           \/ m.distance \notin {"near", "close"}
          THEN [v EXCEPT !.probe = FALSE]
        ELSE IF Moving(v)
          THEN [standing EXCEPT !.probe = TRUE, !.requested = TRUE]
        ELSE IF distance <= 0 \/ ~m.rear
          THEN standing
          ELSE [ standing EXCEPT !.searching = FALSE, !.requested = FALSE,
                                 !.remaining = distance, !.phase = "waiting" ]

\* One slice of the search itself, once the car stands.
Slice(v, m) ==
    CASE m.slice = "pending" -> [v EXCEPT !.requested = TRUE]
      [] m.slice = "none"    -> [v EXCEPT !.searching = FALSE]
      [] m.slice = "plan"    -> Adopted(v, "local_bypass")

\* try_npc_local_bypass: one slice of the search for a bypass, or its
\* beginning.  A plan that no longer fits the scene counts as none.
LocalBypass(v, m) ==
    LET going == v.searching /\ v.searchedAt = v.pos
        stopping == [v EXCEPT !.stopAt = v.pos, !.searching = going]
    IN  IF m.offset
          THEN [v EXCEPT !.searching = FALSE]
        ELSE IF Moving(v)
          THEN [stopping EXCEPT !.requested = TRUE]
        ELSE IF ~going /\ ~Blocked(m)
          THEN stopping
        ELSE IF going
          THEN Slice(stopping, m)
          ELSE Slice([ stopping EXCEPT !.searching = TRUE,
                         !.searchedAt = v.pos, !.observe = Decision ], m)

-----------------------------------------------------------------------------
(* update_npc_maneuver_recovery: a car in a lane change or bypass.         *)

\* Mutant of AtBeginning: half a metre away is near enough.
NearBeginning(distance) == distance <= Increment

AtBeginning(distance) == distance = 0

\* Mutant of Dropped: the way backed so far is forgotten with the plan.
DroppedAndForgotten(v) ==
    [ Cleared(v) EXCEPT !.plan = "none", !.begin = 0, !.pause = 0,
                        !.searchPause = 0, !.requested = TRUE,
                        !.backed = v.backed, !.crash = v.crash ]

Dropped(v) ==
    [ Cleared(v) EXCEPT !.plan = "none", !.begin = 0, !.pause = 0,
                        !.searchPause = 0, !.requested = TRUE, !.total = v.total,
                        !.backed = v.backed, !.crash = v.crash ]

Awaiting(v) ==
    IF v.recovering
      THEN [v EXCEPT !.phase = "waiting", !.remaining = 0, !.stopAt = v.pos]
      ELSE v

\* The car backs towards the beginning of its plan.
BackingUp(v, distance, m) ==
    LET standing == [v EXCEPT !.stopAt = v.pos]
    IN  IF v.phase = "backing" THEN v
        ELSE IF Moving(v) THEN standing
        ELSE IF ~m.rear THEN [standing EXCEPT !.phase = "waiting"]
        ELSE [ standing EXCEPT !.remaining = Smaller(Increment, distance),
                               !.phase = "backing" ]

\* It is blocked for good, for long enough.
Recovering(v, m) ==
    LET distance == v.pos - (IF v.recovering THEN v.anchor ELSE v.begin)
        begun == IF v.recovering THEN v
                 ELSE [ v EXCEPT !.recovering = TRUE, !.anchor = v.begin,
                                 !.phase = "waiting", !.stopAt = v.pos ]
    IN  IF \/ distance > 0 /\ ( \/ ~m.retreatable
                                \/ v.pos - distance - Reserve < 0 )
           \/ distance + v.total > RetreatLimit(m)
           \/ m.offset
          THEN Awaiting(v)
        ELSE IF AtBeginning(distance) THEN Dropped(begun)
        ELSE BackingUp(begun, distance, m)

Maneuver(v, m) ==
    LET decided == [v EXCEPT !.pause = Decision]
    IN  IF ~v.recovering /\ v.halt # "blocked"
          THEN [v EXCEPT !.obstructed = 0]
        ELSE IF v.pause > 0
          THEN v
        ELSE IF ~m.displayed
          THEN decided
        ELSE IF ~FirstPersists(m)
          THEN IF v.recovering THEN Cleared(decided)
                               ELSE [decided EXCEPT !.obstructed = 0]
        ELSE IF ~v.recovering /\ v.obstructed < Patience
          THEN [decided EXCEPT !.obstructed = @ + 1]
          ELSE Recovering(decided, m)

-----------------------------------------------------------------------------
(* update_npc_navigation: a car without a plan.                            *)

\* The selected car goes on with its search.
SearchOn(v, m) ==
    LET looks == v.observe = 0
        seen == IF looks THEN [v EXCEPT !.observe = Decision] ELSE v
        tried == LocalBypass([seen EXCEPT !.requested = FALSE], m)
        given_up == [tried EXCEPT !.pause = Decision, !.searchPause = SearchPause]
    IN  IF looks /\ ~Blocked(m) THEN Cleared(seen)
        ELSE IF tried.plan # "none" \/ tried.searching THEN tried
        ELSE IF Persistent(m) /\ m.distance # "far"
          THEN EscapeReverse(given_up, m)
          ELSE given_up

\* The car stands, or comes to stand, before it backs.
WaitToBack(v, m) ==
    LET decided == [v EXCEPT !.pause = Decision]
    IN  IF v.pause > 0 THEN v
        ELSE IF ~Persistent(m) THEN Cleared(decided)
        ELSE IF ~Moving(v) /\ m.rear THEN [decided EXCEPT !.phase = "backing"]
        ELSE decided

KeepBacking(v, m) ==
    IF v.pause > 0 THEN v
    ELSE IF ~Persistent(m) THEN Cleared([v EXCEPT !.pause = Decision])
    ELSE [v EXCEPT !.pause = Decision]

ChooseDestination(v, m) ==
    LET decided == [v EXCEPT !.pause = Decision]
    IN  IF v.pause > 0 THEN v
        ELSE IF m.routed THEN Cleared(decided) ELSE decided

\* A reverse that waits for the car to stand keeps it standing.
Probing(v) == IF v.probe THEN [v EXCEPT !.stopAt = v.pos] ELSE v

OrElseProbing(v) == IF v.phase = "waiting" THEN v ELSE Probing(v)

\* The turn of a car that asked for a search.
Searched(v, m) ==
    LET early == /\ Persistent(m) /\ v.total = 0 /\ m.distance = "near"
        first == IF early THEN EscapeReverse(v, m) ELSE v
        second == LocalBypass(first, m)
    IN  IF v.probe /\ Persistent(m)
          THEN OrElseProbing(EscapeReverse(v, m))
        ELSE IF m.change /\ ~m.offset
          THEN Adopted(v, "lane_change")
        ELSE IF first.phase = "waiting"
          THEN first
        ELSE IF second.plan # "none" \/ second.searching \/ second.requested
          THEN second
        ELSE IF Persistent(m)
          THEN OrElseProbing(EscapeReverse(second, m))
          ELSE Probing(second)

\* A decision of a car on its way.  Where it is blocked it keeps the room it
\* has, and asks for a search when it has been blocked long enough.
OnItsWay(v, m, turn) ==
    LET decided == [ v EXCEPT !.pause = Decision, !.waited =
                       IF Blocked(m) THEN Smaller(@ + 1, Patience) ELSE 0 ]
        seen == IF Blocked(m)
                  THEN [ decided EXCEPT !.stopAt =
                           IF m.distance \in {"near", "close"} THEN v.pos
                                                               ELSE v.pos + 1 ]
                  ELSE Cleared(decided)
        asks == [seen EXCEPT !.requested = @ \/ seen.searchPause = 0]
    IN  IF v.pause > 0 THEN v
        ELSE IF Persistent(m) /\ m.detour THEN Cleared(decided)
        ELSE IF ~Persistent(m) /\ decided.waited < Patience THEN seen
        ELSE IF turn
          THEN Searched([ asks EXCEPT !.requested = FALSE,
                                      !.searchPause = SearchPause ], m)
          ELSE Probing(asks)

Navigated(car, m, turn) ==
    LET later == [ car EXCEPT !.pause = IF turn THEN 0 ELSE LessOne(@),
                     !.searchPause = LessOne(@), !.observe = LessOne(@) ]
        v == IF m.ahead = "crash" THEN [later EXCEPT !.crash = TRUE] ELSE later
    IN  CASE v.plan # "none" -> Maneuver(v, m)
          [] v.plan = "none" /\ v.searching ->
               IF turn THEN SearchOn(v, m) ELSE v
          [] v.plan = "none" /\ ~v.searching /\ v.phase = "backing" ->
               KeepBacking(v, m)
          [] v.plan = "none" /\ ~v.searching /\ v.phase = "waiting" ->
               WaitToBack(v, m)
          [] OTHER ->
               IF m.arrived THEN ChooseDestination(v, m)
                            ELSE OnItsWay(v, m, turn)

-----------------------------------------------------------------------------
(* prepare_lane_npc, for one car.                                          *)

\* A step of a reverse; a way that is no longer clear ends it.
Backed(v, m) ==
    LET back == [ v EXCEPT !.pos = @ - 1, !.halt = "blocked",
                           !.remaining = @ - 1, !.total = @ + 1,
                           !.stopAt = IF v.recovering THEN v.pos - 1 ELSE NoStop,
                           !.backed = @ + 1 ]
    IN  IF m.shifting
          THEN v
        ELSE IF m.rear /\ m.retreatable /\ ~Moving(v) /\ v.pos > 0
          THEN IF back.remaining > 0 THEN back
               ELSE [back EXCEPT !.phase = "ready", !.pause = 0]
          ELSE [v EXCEPT !.phase = "waiting", !.pause = 0]

\* The follower's own step.
Stepped(v, m, drive) ==
    LET held == v.stopAt # NoStop /\ (v.plan = "none" \/ v.recovering)
                  /\ v.pos >= v.stopAt
    IN  IF ~drive THEN [v EXCEPT !.halt = "other"]
        ELSE IF held \/ (Blocked(m) /\ m.distance = "near")
          THEN [v EXCEPT !.halt = "blocked"]
        ELSE IF m.red \/ v.pos >= work.lane THEN [v EXCEPT !.halt = "other"]
        ELSE [v EXCEPT !.halt = "none", !.pos = @ + 1]

\* freeze_failed_change: the pose and what was backed are those before.
Frozen(before, v, reversed) ==
    LET still == [ v EXCEPT !.pos = before.pos, !.halt = "other" ]
    IN  IF reversed
          THEN [ still EXCEPT !.remaining = before.remaining,
                              !.total = before.total, !.phase = "waiting",
                              !.stopAt = before.pos, !.backed = before.backed ]
          ELSE still

AtEnd(v) == v.plan # "none" /\ v.pos >= v.begin + work.plan

Completed(before, v, m, reversed) ==
    IF v.plan # "none" /\ ~m.displayed THEN Frozen(before, v, reversed)
    ELSE IF ~AtEnd(v) THEN v
    ELSE IF v.plan = "local_bypass"
      THEN [v EXCEPT !.plan = "none", !.begin = 0, !.pause = SearchPause]
    ELSE IF m.adopted
      THEN [v EXCEPT !.plan = "none", !.begin = 0, !.pause = ChangePause]
      ELSE Frozen(before, v, reversed)

\* A car whose ground is missing is put back to what it was.
Prepared(car, m, enabled, turn) ==
    LET hit == [ car EXCEPT !.drives =
                   IF m.hit = "as_is" THEN @ ELSE m.hit = "on" ]
        drive == enabled /\ hit.drives
        v == IF drive THEN Navigated(hit, m, turn) ELSE hit
        backing == drive /\ v.phase = "backing"
        backed == IF backing THEN Backed(v, m) ELSE v
        reversed == backing /\ (m.shifting \/ backed.pos # v.pos)
        moved == IF reversed THEN backed ELSE Stepped(backed, m, drive)
    IN  IF m.missing THEN car
        ELSE IF enabled THEN Completed(v, moved, m, reversed)
        ELSE moved

-----------------------------------------------------------------------------

Requests(n) ==
    /\ n \in Npcs
    /\ npc[n].requested /\ npc[n].plan = "none" /\ npc[n].drives

Behind(requesters) == {n \in requesters : n > after}

\* The first car behind the last one that had a turn, else the first of all.
Turn ==
    LET requesters == {n \in Npcs : Requests(n)}
    IN  IF requesters = {} THEN 0
        ELSE IF Behind(requesters) # {} THEN Min(Behind(requesters))
        ELSE Min(requesters)

\* Mutant of AfterRollback: a tick that is undone has used up its turn.
TurnUsedUp(turn) == IF turn = 0 THEN after ELSE turn

\* run_tick restores what a tick it does not commit has changed.
AfterRollback(turn) == after

TurnIf(enabled) == IF enabled THEN Turn ELSE 0

Tick(enabled, m) ==
    LET turn == TurnIf(enabled)
    IN  /\ npc' = [n \in Npcs |-> Prepared(npc[n], m[n], enabled, turn = n)]
        /\ after' = IF turn = 0 THEN after ELSE turn
        /\ odd' = (odd # enabled)
        /\ UNCHANGED work

\* A tick whose collisions or own ground are not measured is undone.
UndoneTick(enabled) ==
    /\ after' = AfterRollback(TurnIf(enabled))
    /\ UNCHANGED <<work, npc, odd>>

\* rebuild_lane_npc: a new play, map or network.
Rebuild ==
    /\ npc' = [n \in Npcs |-> NewCar]
    /\ after' = 0
    /\ UNCHANGED <<work, odd>>

Next ==
    \/ \E m \in [Npcs -> work.meets] : Tick(TRUE, m)
    \/ \E m \in [Npcs -> work.idle] : Tick(FALSE, m)
    \/ \E enabled \in BOOLEAN : UndoneTick(enabled)
    \/ Rebuild

Spec == Init /\ [][Next]_vars

\* The player drives and the client measures, again and again.
Fairness == []<><<odd' # odd>>_vars

FairSpec == Spec /\ Fairness

-----------------------------------------------------------------------------

\* The turns come round: a car that goes on asking for a search has its turn,
\* however many others ask, however often they ask again at once, and whatever
\* ticks are undone because something is not measured.  (prepare_lane_npc's
\* round robin, and what run_tick restores of it)
TurnsComeRound ==
    \A n \in 1..MaxNpc :
      []<><<odd' # odd /\ Turn = n>>_vars \/ []<>~Requests(n)

\* However a car escapes from what blocks it, half a metre at a time, from
\* within its lane or out of the middle of a plan, with reverses that break
\* off or are frozen: before it is free to go on it never backs further than
\* the limit for what it has seen.  (begin_npc_escape_reverse,
\* update_npc_maneuver_recovery, freeze_failed_change)
RetreatIsLimited ==
    \A n \in Npcs :
      npc[n].backed <= IF npc[n].crash THEN AccidentLimit ELSE Limit

\* A lane change or a bypass ends where it leads to, or is given up at the
\* place where it began, on the lane: never in between, next to it.
\* (update_npc_maneuver_recovery: "Only the shared zero-offset beginning
\* permits dropping a plan.")
PlansEndOnALane ==
    [][ Rebuild \/ \A n \in Npcs :
          npc[n].plan # "none" /\ npc'[n].plan = "none" =>
            \/ npc[n].pos = npc[n].begin
            \/ npc'[n].pos >= npc[n].begin + work.plan ]_vars
=============================================================================
