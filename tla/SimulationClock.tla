--------------------------- MODULE SimulationClock ---------------------------
(***************************************************************************)
(* The fixed-step clock of the simulation (simulation_clock.hpp): which    *)
(* deadline the timer of the next tick is armed with, how many ticks the   *)
(* simulation has made, and how many deadlines it skipped because a tick   *)
(* was completed too late.  SimulationHost advances it at the end of each  *)
(* tick, resets its elapsed time when a play starts, between two ticks and *)
(* without touching the armed timer, and restarts it when a map is         *)
(* installed at the beginning of a tick.                                   *)
(*                                                                         *)
(* Times are integers, of the resolution of the steady clock.              *)
(***************************************************************************)
EXTENDS Integers

CONSTANTS
    Period,         \* period_, at least one unit of the clock
    MaxOverruns,    \* the largest value of overrun_count_, 2^32 - 1
    Times,          \* the times at which something may happen
    Start           \* the time at which the host is created

ASSUME ClockAssumption ==
    /\ Period \in Nat \ {0}
    /\ MaxOverruns \in Nat
    /\ Times \subseteq Int /\ Start \in Int

VARIABLES
    clock,   \* the fields of the object
    epoch    \* history: the deadline tick 0 has by the cadence in force, and
             \* every deadline skipped since, those not counted included

clockVars == <<clock, epoch>>

ClockTypeOK ==
    /\ clock \in [deadline : Int, tick : Nat, overruns : 0..MaxOverruns]
    /\ epoch \in [start : Int, skipped : Nat]

ClockInit ==
    /\ clock = [deadline |-> Start + Period, tick |-> 0, overruns |-> 0]
    /\ epoch = [start |-> Start, skipped |-> 0]

-----------------------------------------------------------------------------

Smaller(m, n) == IF m <= n THEN m ELSE n

\* The deadlines that are past at time t when the next one would be d.
Skipped(d, t) == IF t > d THEN (t - d) \div Period + 1 ELSE 0

\* Mutant of Counted: the counter wraps around.
CountedModulo(n, skipped) == (n + skipped) % (MaxOverruns + 1)

\* overrun_count_ stops at its largest value.
Counted(n, skipped) == n + Smaller(skipped, MaxOverruns - n)

\* A tick was completed at time t.
Advance(t) ==
    LET next == clock.deadline + Period
        skipped == Skipped(next, t)
    IN  /\ clock' =
             [ deadline |-> next + Period * skipped,
               tick     |-> clock.tick + 1,
               overruns |-> Counted(clock.overruns, skipped) ]
        /\ epoch' = [epoch EXCEPT !.skipped = @ + skipped]

\* A play starts between two ticks: the timer stays armed as it is.
ResetElapsed ==
    /\ clock' = [clock EXCEPT !.tick = 0, !.overruns = 0]
    /\ epoch' = [start |-> clock.deadline - Period, skipped |-> 0]

\* A map is installed in the callback of the timer, at time t.
Restart(t) ==
    /\ clock' = [deadline |-> t + Period, tick |-> 0, overruns |-> 0]
    /\ epoch' = [start |-> t, skipped |-> 0]

ClockNext ==
    \/ \E t \in Times : Advance(t)
    \/ ResetElapsed
    \/ \E t \in Times : Restart(t)

ClockSpec == ClockInit /\ [][ClockNext]_clockVars

-----------------------------------------------------------------------------

\* The armed deadline accounts for every period since the cadence began: one
\* for each tick made and one for each deadline skipped, none twice and none
\* lost, whatever was late and whenever a play was started in between.  The
\* overrun count is the number of skipped deadlines up to its limit.
\* (SimulationClock::advance, reset_elapsed, restart)
EveryPeriodCounted ==
    /\ clock.deadline
         = epoch.start + Period * (clock.tick + epoch.skipped + 1)
    /\ clock.overruns = Smaller(epoch.skipped, MaxOverruns)

\* A completed tick, and nothing else but a map, moves the deadline.  It ends
\* up neither in the past, which would fire the timer at once and again and
\* again, nor further ahead than the next one the cadence has to offer.
\* (SimulationClock::advance: "Skip missed wall-clock deadlines instead of
\* issuing a burst of immediate callbacks")
NoBurstOfTicks ==
    [][ \A t \in Times : Advance(t) =>
          /\ t <= clock'.deadline
          /\ \/ clock'.deadline = clock.deadline + Period
             \/ clock'.deadline - Period <= t ]_clockVars
=============================================================================
