----------------------------- MODULE TickProofs ------------------------------
(***************************************************************************)
(* The clock, alone and in the tick it is part of, for every period, limit *)
(* of the overrun counter and order of late and timely ticks; and, for all *)
(* workloads, the tick that holds its vehicle, the recording, and the      *)
(* damage of the structure.                                                *)
(*                                                                         *)
(* The clock's invariant is kept by each of its operations at any time     *)
(* (ClockAdvanced, ClockReset, ClockRestarted), and so by everything that  *)
(* calls them.  That a tick which leaves the vehicle as it was has not     *)
(* moved the traffic rests on UnplacedIsFresh: a step that is accepted     *)
(* makes the history of steps longer, or places the vehicle anew and       *)
(* begins another; the latter could leave it as it was, if a vehicle that  *)
(* waits to be placed had ever moved.                                      *)
(*                                                                         *)
(* The last part is about definitions that look back on all there was: the *)
(* verifier of a recording reads a file from its beginning, and the damage *)
(* a structure should show is defined by all of its impulses.  Both are    *)
(* brought to one step more, a line (ReadingExtended) or an impulse        *)
(* (EpisodeBegun, EpisodeContinued), and the step of the program is shown  *)
(* to do the same to the little it remembers.                              *)
(***************************************************************************)
EXTENDS Tick, Induction, SequenceTheorems

-----------------------------------------------------------------------------
(* The clock.                                                              *)

\* Integer division, as the clock uses it: n div Period periods fit into n and
\* one more does not.
LEMMA Division ==
    ASSUME NEW n \in Nat
    PROVE  /\ n \div Period \in Nat
           /\ Period * (n \div Period) <= n
           /\ n < Period * (n \div Period) + Period
  BY ClockAssumption, Z3

\* The skipped deadlines are those up to t: the first one not skipped is
\* ahead of t, and the last one skipped is not.
LEMMA SkippedBounds ==
    ASSUME NEW d \in Int, NEW t \in Int
    PROVE  /\ Skipped(d, t) \in Nat
           /\ t <= d + Period * Skipped(d, t)
           /\ \/ Skipped(d, t) = 0
              \/ d + Period * Skipped(d, t) - Period <= t
  <1>1. CASE t > d
    <2> DEFINE q == (t - d) \div Period
    <2>1. t - d \in Nat
      BY <1>1
    <2>2. q \in Nat /\ Period * q <= t - d /\ t - d < Period * q + Period
      BY <2>1, Division
    <2>3. Skipped(d, t) = q + 1
      BY <1>1 DEF Skipped
    <2> HIDE DEF q
    <2>4. Period * (q + 1) = Period * q + Period
      BY <2>2, ClockAssumption
    <2>5. Period * q \in Int
      BY <2>2, ClockAssumption
    <2> QED
      BY <2>2, <2>3, <2>4, <2>5, ClockAssumption
  <1>2. CASE ~(t > d)
    BY <1>2, ClockAssumption DEF Skipped
  <1> QED
    BY <1>1, <1>2

\* The counter of skipped deadlines stays in its range, and is the smaller of
\* its limit and what there was to count.
LEMMA CountedBounds ==
    ASSUME NEW k \in Nat, NEW s \in Nat
    PROVE  /\ Counted(Smaller(k, MaxOverruns), s) \in 0..MaxOverruns
           /\ Counted(Smaller(k, MaxOverruns), s) = Smaller(k + s, MaxOverruns)
  BY ClockAssumption DEF Counted, Smaller

ClockInv == ClockTypeOK /\ EveryPeriodCounted

LEMMA ClockStarted ==
    ASSUME ClockInit
    PROVE  ClockInv
PROOF
  <1>1. ClockTypeOK
    BY ClockAssumption DEF ClockInit, ClockTypeOK
  <1>2. EveryPeriodCounted
    BY ClockAssumption DEF ClockInit, EveryPeriodCounted, Smaller
  <1> QED BY <1>1, <1>2 DEF ClockInv

LEMMA ClockAdvanced ==
    ASSUME ClockInv, NEW t \in Int, Advance(t)
    PROVE  ClockInv'
PROOF
  <1> DEFINE next == clock.deadline + Period
             s == Skipped(next, t)
             k == epoch.skipped
             n == clock.tick
  <1>1. /\ next \in Int /\ clock.deadline \in Int /\ epoch.start \in Int
        /\ s \in Nat /\ k \in Nat /\ n \in Nat
    <2>1. next \in Int /\ clock.deadline \in Int /\ epoch.start \in Int
      BY ClockAssumption DEF ClockInv, ClockTypeOK
    <2>2. k \in Nat /\ n \in Nat
      BY DEF ClockInv, ClockTypeOK
    <2> QED BY <2>1, <2>2, SkippedBounds
  <1>2. /\ clock' = [ deadline |-> next + Period * s, tick |-> n + 1,
                      overruns |-> Counted(clock.overruns, s) ]
        /\ epoch' = [epoch EXCEPT !.skipped = k + s]
    BY DEF Advance
  <1>3. clock.overruns = Smaller(k, MaxOverruns)
    BY DEF ClockInv, EveryPeriodCounted
  <1>4. /\ Counted(clock.overruns, s) \in 0..MaxOverruns
        /\ Counted(clock.overruns, s) = Smaller(k + s, MaxOverruns)
    BY <1>1, <1>3, CountedBounds
  <1>5. next + Period * s \in Int
    BY <1>1, ClockAssumption
  <1>6. epoch' = [start |-> epoch.start, skipped |-> k + s]
    BY <1>2 DEF ClockInv, ClockTypeOK
  <1>7. clock.deadline = epoch.start + Period * (n + k + 1)
    BY DEF ClockInv, EveryPeriodCounted
  <1>8. next = clock.deadline + Period
    OBVIOUS
  <1> HIDE DEF next, s, k, n
  <1>9. Period * ((n + 1) + (k + s) + 1)
          = Period * (n + k + 1) + Period + Period * s
    BY <1>1, ClockAssumption
  <1>10. next + Period * s
           = epoch.start + Period * ((n + 1) + (k + s) + 1)
    BY <1>1, <1>7, <1>8, <1>9, ClockAssumption
  <1>11. ClockTypeOK'
    <2>1. n + 1 \in Nat /\ k + s \in Nat
      BY <1>1
    <2> QED BY <1>1, <1>2, <1>4, <1>5, <1>6, <2>1 DEF ClockTypeOK
  <1>12. EveryPeriodCounted'
    BY <1>2, <1>4, <1>6, <1>10 DEF EveryPeriodCounted
  <1> QED BY <1>11, <1>12 DEF ClockInv

LEMMA ClockReset ==
    ASSUME ClockInv, ResetElapsed
    PROVE  ClockInv'
PROOF
  <1>1. /\ clock.deadline \in Int /\ clock.deadline - Period \in Int
        /\ 0 \in 0..MaxOverruns
    BY ClockAssumption DEF ClockInv, ClockTypeOK
  <1>2. clock' = [deadline |-> clock.deadline, tick |-> 0, overruns |-> 0]
    BY DEF ResetElapsed, ClockInv, ClockTypeOK
  <1>3. epoch' = [start |-> clock.deadline - Period, skipped |-> 0]
    BY DEF ResetElapsed
  <1>4. ClockTypeOK'
    BY <1>1, <1>2, <1>3 DEF ClockTypeOK
  <1>5. EveryPeriodCounted'
    BY <1>1, <1>2, <1>3, ClockAssumption DEF EveryPeriodCounted, Smaller
  <1> QED BY <1>4, <1>5 DEF ClockInv

LEMMA ClockRestarted ==
    ASSUME NEW t \in Int, Restart(t)
    PROVE  ClockInv'
PROOF
  <1>1. ClockTypeOK'
    BY ClockAssumption DEF Restart, ClockTypeOK
  <1>2. EveryPeriodCounted'
    BY ClockAssumption DEF Restart, EveryPeriodCounted, Smaller
  <1> QED BY <1>1, <1>2 DEF ClockInv

LEMMA ClockStays ==
    ASSUME ClockInv, UNCHANGED clockVars
    PROVE  ClockInv'
PROOF
  BY DEF ClockInv, ClockTypeOK, EveryPeriodCounted, clockVars

\* What the operations of the clock keep, whoever calls them and when.
THEOREM ClockInvariant == ClockSpec => []ClockInv
PROOF
  <1>1. ASSUME ClockInv, [ClockNext]_clockVars PROVE ClockInv'
    BY <1>1, ClockAssumption, ClockAdvanced, ClockReset, ClockRestarted,
       ClockStays
       DEF ClockNext
  <1> QED BY <1>1, ClockStarted, PTL DEF ClockSpec

\* The clock and its history have their types in every reachable state.
THEOREM ClockTypeCorrect == ClockSpec => []ClockTypeOK
PROOF
  <1>1. ClockInv => ClockTypeOK
    BY DEF ClockInv
  <1> QED BY <1>1, ClockInvariant, PTL

\* No period is lost or counted twice: the deadline is where the ticks and the
\* skipped deadlines since the cadence began put it, and the overrun count is
\* exact until it reaches its limit.
THEOREM PeriodsAccountedFor == ClockSpec => []EveryPeriodCounted
PROOF
  <1>1. ClockInv => EveryPeriodCounted
    BY DEF ClockInv
  <1> QED BY <1>1, ClockInvariant, PTL

\* However late a tick is completed, the next deadline is neither past nor
\* further ahead than the cadence asks for: ticks never come in a burst.
THEOREM TicksAreSpaced == ClockSpec => NoBurstOfTicks
  <1>1. ClockTypeOK /\ [ClockNext]_clockVars
          => [ \A t \in Times : Advance(t) =>
                 /\ t <= clock'.deadline
                 /\ \/ clock'.deadline = clock.deadline + Period
                    \/ clock'.deadline - Period <= t ]_clockVars
    <2> SUFFICES ASSUME ClockTypeOK, NEW t \in Times, Advance(t)
                 PROVE  /\ t <= clock'.deadline
                        /\ \/ clock'.deadline = clock.deadline + Period
                           \/ clock'.deadline - Period <= t
      OBVIOUS
    <2> DEFINE next == clock.deadline + Period
               s == Skipped(next, t)
    <2>1. next \in Int /\ t \in Int /\ clock.deadline \in Int
      BY ClockAssumption DEF ClockTypeOK
    <2>2. clock'.deadline = next + Period * s
      BY DEF Advance
    <2>3. /\ s \in Nat
          /\ t <= next + Period * s
          /\ s = 0 \/ next + Period * s - Period <= t
      BY <2>1, SkippedBounds
    <2> HIDE DEF s
    <2>4. CASE s = 0
      BY <2>1, <2>2, <2>3, <2>4, ClockAssumption
    <2>5. CASE s # 0
      <3>1. next + Period * s - Period <= t
        BY <2>1, <2>3, <2>5, ClockAssumption
      <3>2. t <= clock'.deadline
        BY <2>2, <2>3
      <3> QED
        BY <2>1, <2>2, <2>3, <3>1, <3>2, ClockAssumption
    <2> QED
      BY <2>4, <2>5
  <1> QED
    BY <1>1, ClockTypeCorrect, PTL DEF ClockSpec, NoBurstOfTicks

-----------------------------------------------------------------------------
(* The tick.                                                               *)

\* The completion of a tick and the installation of a map are at times of the
\* clock.
LEMMA LagsAreTimes ==
    ASSUME ClockInv, work \in Workloads, NEW lag \in work.lags
    PROVE  clock.deadline + lag \in Int
PROOF
  <1>1. lag \in Nat
    BY TickAssumption DEF Workload
  <1> QED BY <1>1 DEF ClockInv, ClockTypeOK

\* Whatever a client, a map or a network does between and in the ticks, the
\* clock is only moved by its own operations.
LEMMA TickMovesClock ==
    ASSUME ClockInv, work \in Workloads, [Next]_vars
    PROVE  ClockInv' /\ work' \in Workloads
PROOF
  <1>1. ASSUME NEW profile \in Profiles, NewPlay(profile)
        PROVE  ClockInv' /\ work' \in Workloads
    BY <1>1, ClockReset DEF NewPlay, Lapse
  <1>2. CASE Reconnect
    BY <1>2, ClockStays DEF Reconnect, Lapse
  <1>3. ASSUME NEW i \in Inputs, Drive(i)
        PROVE  ClockInv' /\ work' \in Workloads
    BY <1>3, ClockStays DEF Drive
  <1>4. CASE EmergencyStop
    BY <1>4, ClockStays DEF EmergencyStop, Lapse
  <1>5. ASSUME NEW lag \in work.lags, NEW world \in Worlds,
               InstallMap(clock.deadline + lag, world)
        PROVE  ClockInv' /\ work' \in Workloads
    <2>1. Restart(clock.deadline + lag) /\ work' = work
      BY <1>5 DEF InstallMap, Lapse
    <2> QED BY <2>1, LagsAreTimes, ClockRestarted
  <1>6. ASSUME NEW m \in Met, RunTick(m)
        PROVE  ClockInv' /\ work' \in Workloads
    <2>1. Advance(m.end) /\ work' = work
      BY <1>6 DEF RunTick
    <2>2. m.end \in Int
      BY LagsAreTimes DEF Met
    <2> QED BY <2>1, <2>2, ClockAdvanced
  <1>7. CASE Shutdown \/ Kill
    BY <1>7, ClockStays DEF Shutdown, Kill
  <1>8. CASE UNCHANGED vars
    BY <1>8, ClockStays DEF vars
  <1> QED BY <1>1, <1>2, <1>3, <1>4, <1>5, <1>6, <1>7, <1>8 DEF Next

\* The clock of the running simulation accounts for every period, with plays,
\* maps, stops and lost deadlines in any order.
THEOREM SimulationAccountsForPeriods == Spec => []EveryPeriodCounted
PROOF
  <1>1. Init => ClockInv /\ work \in Workloads
    BY ClockStarted DEF Init
  <1>2. ASSUME ClockInv /\ work \in Workloads, [Next]_vars
        PROVE  (ClockInv /\ work \in Workloads)'
    BY <1>2, TickMovesClock
  <1>3. ClockInv => EveryPeriodCounted
    BY DEF ClockInv
  <1> QED BY <1>1, <1>2, <1>3, PTL DEF Spec

\* A history of steps.
IsHistory(s) == s \in Seq(Range(s))

IsVehicle(v) ==
    v \in [profile : {v.profile}, steps : {v.steps}] /\ IsHistory(v.steps)

\* A vehicle that waits to be placed on measured ground has not moved.
UnplacedIsFresh == Live /\ unplaced => vehicle.steps = <<>>

TickInv ==
    /\ IsVehicle(vehicle)
    /\ traffic \in Nat
    /\ unplaced \in BOOLEAN
    /\ spent = [ticks |-> spent.ticks, lapses |-> spent.lapses]
    /\ spent.ticks \in Nat /\ spent.lapses \in Nat
    /\ UnplacedIsFresh

LEMMA FreshIsVehicle ==
    ASSUME NEW profile
    PROVE  /\ IsVehicle(FreshVehicle(profile))
           /\ FreshVehicle(profile).steps = <<>>
PROOF
  <1>1. <<>> \in Seq(Range(<<>>))
    BY EmptySeq
  <1> QED BY <1>1 DEF IsVehicle, IsHistory, FreshVehicle

\* A step is one more entry of the history, and so changes the vehicle.
LEMMA SteppedVehicle ==
    ASSUME NEW v, IsVehicle(v), NEW i, NEW p, NEW w
    PROVE  /\ IsVehicle(Stepped(v, i, p, w))
           /\ Len(Stepped(v, i, p, w).steps) = Len(v.steps) + 1
           /\ Len(v.steps) \in Nat
PROOF
  <1> DEFINE e == <<i, p, w>>
             T == Range(v.steps) \cup {e}
             longer == Append(v.steps, e)
  <1>1. v.steps \in Seq(T) /\ e \in T
    <2>1. v.steps \in Seq(Range(v.steps))
      BY DEF IsVehicle, IsHistory
    <2>2. /\ Len(v.steps) \in Nat
          /\ v.steps \in [1..Len(v.steps) -> Range(v.steps)]
      BY <2>1, SeqDef, LenProperties
    <2>3. v.steps \in [1..Len(v.steps) -> T]
      BY <2>2
    <2> QED BY <2>2, <2>3, IsASeq
  <1>2. /\ longer \in Seq(T) /\ Len(longer) = Len(v.steps) + 1
        /\ Len(v.steps) \in Nat
    BY <1>1, AppendProperties, LenProperties
  <1>3. IsHistory(longer)
    <2>1. longer \in [1..Len(longer) -> T] /\ Len(longer) \in Nat
      BY <1>2, SeqDef, LenProperties
    <2>2. longer \in [1..Len(longer) -> Range(longer)]
      BY <2>1 DEF Range
    <2> HIDE DEF longer, T
    <2>3. longer \in Seq(Range(longer))
      BY <2>1, <2>2, IsASeq
    <2> QED BY <2>3 DEF IsHistory
  <1>4. /\ Stepped(v, i, p, w) \in [profile : {v.profile}, steps : {longer}]
        /\ Stepped(v, i, p, w).profile = v.profile
        /\ Stepped(v, i, p, w).steps = longer
    <2> HIDE DEF longer
    <2>1. Stepped(v, i, p, w) = [v EXCEPT !.steps = longer]
      BY DEF Stepped, longer
    <2>2. v \in [profile : {v.profile}, steps : {v.steps}]
      BY DEF IsVehicle
    <2> QED BY <2>1, <2>2
  <1> HIDE DEF longer
  <1> QED BY <1>2, <1>3, <1>4 DEF IsVehicle

\* A tick whose vehicle moves has another vehicle at its end.
LEMMA MovedVehicle ==
    ASSUME TickInv, NEW m
    PROVE  /\ IsVehicle(VehicleLeft(m))
           /\ Live /\ Moves(m) => VehicleLeft(m) # vehicle
           /\ ~Moves(m) => VehicleLeft(m) = vehicle
PROOF
  <1>1. CASE ~Live
    BY <1>1, SteppedVehicle DEF VehicleLeft, Moves, TickInv
  <1>2. CASE Live /\ ~Accepted(Frame(m))
    BY <1>2 DEF VehicleLeft, Moves, MeasuredStep, TickInv
  <1>3. CASE Live /\ Accepted(Frame(m))
    <2> DEFINE v == IF Frame(m).initialize THEN FreshVehicle(vehicle.profile)
                                           ELSE vehicle
    <2>1. IsVehicle(v) /\ v.steps = vehicle.steps
      <3>1. Frame(m).initialize = unplaced
        BY DEF Frame
      <3>2. CASE unplaced
        BY <1>3, <3>1, <3>2, FreshIsVehicle DEF TickInv, UnplacedIsFresh
      <3>3. CASE ~unplaced
        BY <3>1, <3>3 DEF TickInv
      <3> QED BY <3>2, <3>3
    <2>2. VehicleLeft(m) = Stepped(v, InputAfter(m.late),
                                   Proxy(DamageFound(m)), Frame(m).world)
      BY <1>3 DEF VehicleLeft, MeasuredStep
    <2> HIDE DEF v
    <2>3. /\ IsVehicle(VehicleLeft(m)) /\ Len(vehicle.steps) \in Nat
          /\ Len(VehicleLeft(m).steps) = Len(vehicle.steps) + 1
      BY <2>1, <2>2, SteppedVehicle
    <2>4. VehicleLeft(m) # vehicle
      BY <2>3
    <2> QED BY <1>3, <2>3, <2>4 DEF Moves
  <1> QED BY <1>1, <1>2, <1>3

LEMMA TickInvInit ==
    ASSUME Init
    PROVE  TickInv
PROOF
  BY FreshIsVehicle DEF Init, TickInv, UnplacedIsFresh

LEMMA TickInvNext ==
    ASSUME TickInv, [Next]_vars
    PROVE  TickInv'
PROOF
  <1>1. ASSUME Lapse
        PROVE  /\ spent' = [ticks |-> spent'.ticks, lapses |-> spent'.lapses]
               /\ spent'.ticks \in Nat /\ spent'.lapses \in Nat
               /\ Live' = Live
    BY <1>1 DEF Lapse, TickInv, Live
  <1>2. ASSUME NEW profile \in Profiles, NewPlay(profile)
        PROVE  TickInv'
    BY <1>1, <1>2, FreshIsVehicle DEF NewPlay, TickInv, UnplacedIsFresh
  <1>3. CASE Reconnect
    <2>1. Lapse /\ UNCHANGED <<vehicle, unplaced, traffic>>
      BY <1>3 DEF Reconnect
    <2> QED BY <1>1, <2>1 DEF TickInv, UnplacedIsFresh
  <1>4. ASSUME NEW i \in Inputs, Drive(i)
        PROVE  TickInv'
    BY <1>4 DEF Drive, TickInv, UnplacedIsFresh, Live
  <1>5. CASE EmergencyStop
    <2>1. Lapse /\ UNCHANGED <<vehicle, unplaced, traffic>>
      BY <1>5 DEF EmergencyStop
    <2> QED BY <1>1, <2>1 DEF TickInv, UnplacedIsFresh
  <1>6. ASSUME NEW lag \in work.lags, NEW world \in Worlds,
               InstallMap(clock.deadline + lag, world)
        PROVE  TickInv'
    BY <1>1, <1>6, FreshIsVehicle DEF InstallMap, TickInv, UnplacedIsFresh
  <1>7. ASSUME NEW m \in Met, RunTick(m)
        PROVE  TickInv'
    <2>1. /\ vehicle' = VehicleLeft(m) /\ Live' = Live
          /\ unplaced' = (unplaced /\ ~(Live /\ Moves(m)))
          /\ traffic' = TrafficFound(m) + (IF Committed(m) THEN 1 ELSE 0)
          /\ spent' = [ ticks |-> spent.ticks + 1,
                        lapses |-> spent.lapses
                                     + (IF m.network THEN 1 ELSE 0) ]
      BY <1>7 DEF RunTick, Live
    <2>2. IsVehicle(vehicle')
      BY <2>1, MovedVehicle
    <2>3. traffic' \in Nat
      BY <2>1 DEF TickInv, TrafficFound
    <2>4. UnplacedIsFresh'
      BY <2>1, MovedVehicle DEF UnplacedIsFresh, TickInv
    <2> QED BY <2>1, <2>2, <2>3, <2>4 DEF TickInv
  <1>8. CASE Shutdown \/ Kill \/ UNCHANGED vars
    BY <1>8 DEF Shutdown, Kill, vars, hostVars, TickInv, UnplacedIsFresh, Live
  <1> QED BY <1>2, <1>3, <1>4, <1>5, <1>6, <1>7, <1>8 DEF Next

\* The inductive invariant of the tick's transaction: a vehicle that waits to
\* be placed on measured ground has not moved.
THEOREM TickInvariant == Spec => []TickInv
PROOF
  BY TickInvInit, TickInvNext, PTL DEF Spec

\* A tick on measured ground that leaves the vehicle where it is leaves the
\* traffic and the structures as well, for all that may come together in it.
THEOREM HeldTicksChangeNothing == Spec => HeldTickChangesNothing
PROOF
  <1> DEFINE Held ==
        LiveTraffic /\ vehicle' = vehicle
          /\ spent' = [spent EXCEPT !.ticks = @ + 1]
  <1>1. ASSUME TickInv, [Next]_vars, Held
        PROVE  UNCHANGED <<traffic, damage>>
    <2>1. spent'.ticks = spent.ticks + 1 /\ spent'.lapses = spent.lapses
      BY <1>1 DEF TickInv
    <2>2. ~Lapse
      BY <1>1, <2>1 DEF Lapse, TickInv
    <2>3. spent' # spent
      BY <1>1, <2>1 DEF TickInv
    <2>4. PICK m \in Met : RunTick(m)
      BY <1>1, <2>2, <2>3
         DEF Next, NewPlay, Reconnect, Drive, EmergencyStop, InstallMap,
             Shutdown, Kill, vars
    <2>5. ~m.network
      BY <1>1, <2>1, <2>4 DEF RunTick, TickInv
    <2>6. ~Committed(m)
      <3>1. VehicleLeft(m) = vehicle
        BY <1>1, <2>4 DEF RunTick
      <3> QED BY <1>1, <3>1, MovedVehicle DEF Committed, LiveTraffic, Live
    <2> QED BY <1>1, <2>4, <2>5, <2>6
            DEF RunTick, TrafficFound, DamageLeft, TickInv
  <1>2. TickInv /\ [Next]_vars => [Held => UNCHANGED <<traffic, damage>>]_vars
    BY <1>1
  <1> QED BY <1>2, TickInvariant, PTL DEF Spec, HeldTickChangesNothing

-----------------------------------------------------------------------------
(* Sequences of whatever there is to record.                               *)

LEMMA HistoryOf ==
    ASSUME NEW T, NEW s \in Seq(T)
    PROVE  IsHistory(s) /\ Len(s) \in Nat /\ DOMAIN s = 1..Len(s)
  BY LenProperties, SeqOfRange DEF IsHistory

LEMMA HistoryAppended ==
    ASSUME NEW s, IsHistory(s), NEW e
    PROVE  /\ IsHistory(Append(s, e))
           /\ Len(s) \in Nat /\ Len(Append(s, e)) = Len(s) + 1
           /\ \A i \in 1..Len(s) : Append(s, e)[i] = s[i]
           /\ Append(s, e)[Len(s) + 1] = e
PROOF
  <1> DEFINE T == Range(s) \cup {e}
  <1>1. s \in Seq(T) /\ e \in T
    BY SeqMonotonic DEF IsHistory
  <1> HIDE DEF T
  <1>2. /\ Append(s, e) \in Seq(T) /\ Len(Append(s, e)) = Len(s) + 1
        /\ \A i \in 1..Len(s) : Append(s, e)[i] = s[i]
        /\ Append(s, e)[Len(s) + 1] = e
    BY <1>1, AppendProperties
  <1>3. IsHistory(Append(s, e))
    BY <1>2, HistoryOf
  <1> QED BY <1>1, <1>2, <1>3, LenProperties

LEMMA HistoryConcatenated ==
    ASSUME NEW s, IsHistory(s), NEW t, IsHistory(t)
    PROVE  /\ IsHistory(s \o t)
           /\ Len(s) \in Nat /\ Len(t) \in Nat
           /\ Len(s \o t) = Len(s) + Len(t)
           /\ \A i \in 1..Len(s) + Len(t) :
                (s \o t)[i] = IF i <= Len(s) THEN s[i] ELSE t[i - Len(s)]
PROOF
  <1> DEFINE T == Range(s) \cup Range(t)
  <1>1. s \in Seq(T) /\ t \in Seq(T)
    BY SeqMonotonic DEF IsHistory
  <1> HIDE DEF T
  <1> QED BY <1>1, ConcatProperties, HistoryOf, LenProperties

\* Concatenating a list of one element is appending it.
LEMMA HistoryExtended ==
    ASSUME NEW s, IsHistory(s), NEW e
    PROVE  s \o <<e>> = Append(s, e)
PROOF
  <1> DEFINE T == Range(s) \cup {e}
  <1>1. s \in Seq(T) /\ e \in T
    BY SeqMonotonic DEF IsHistory
  <1> HIDE DEF T
  <1> QED BY <1>1, AppendIsConcat

LEMMA HistoryCut ==
    ASSUME NEW s, IsHistory(s), NEW n \in Int, n <= Len(s)
    PROVE  /\ IsHistory(SubSeq(s, 1, n))
           /\ Len(SubSeq(s, 1, n)) <= Len(s)
           /\ \A i \in 1..Len(SubSeq(s, 1, n)) : SubSeq(s, 1, n)[i] = s[i]
PROOF
  <1>1. /\ s \in Seq(Range(s)) /\ Len(s) \in Nat
        /\ \A i \in 1..n : s[i] \in Range(s)
    BY ElementOfSeq, LenProperties DEF IsHistory
  <1>2. /\ SubSeq(s, 1, n) \in Seq(Range(s))
        /\ Len(SubSeq(s, 1, n)) = IF 1 <= n THEN n - 1 + 1 ELSE 0
        /\ \A i \in 1..n - 1 + 1 : SubSeq(s, 1, n)[i] = s[1 + i - 1]
    BY <1>1, SubSeqProperties
  <1>3. \A i \in 1..Len(SubSeq(s, 1, n)) : SubSeq(s, 1, n)[i] = s[i]
    BY <1>2
  <1>4. IsHistory(SubSeq(s, 1, n))
    BY <1>2, HistoryOf
  <1>5. Len(SubSeq(s, 1, n)) <= Len(s)
    BY <1>1, <1>2
  <1> QED BY <1>3, <1>4, <1>5

-----------------------------------------------------------------------------
(* The verifier, line by line.                                             *)

\* after tells where the verifier is after each of the first n lines.
ReadsUpTo(after, measured, lines, n) ==
    after = [i \in 0..n |->
               IF i = 0 THEN Unread(measured) ELSE VerifyLine(after[i - 1], lines[i])]

LEMMA ReadsUpToExists ==
    ASSUME NEW measured, NEW lines
    PROVE  \A n \in Nat : \E after : ReadsUpTo(after, measured, lines, n)
PROOF
  <1> DEFINE N == {n \in Nat : \E after : ReadsUpTo(after, measured, lines, n)}
  <1>1. 0 \in N
    <2> DEFINE g == [i \in 0..0 |-> Unread(measured)]
    <2>1. g = [i \in 0..0 |->
                 IF i = 0 THEN Unread(measured) ELSE VerifyLine(g[i - 1], lines[i])]
      OBVIOUS
    <2>2. ReadsUpTo(g, measured, lines, 0)
      BY <2>1 DEF ReadsUpTo
    <2> QED BY <2>2
  <1>2. ASSUME NEW n \in Nat, n \in N PROVE n + 1 \in N
    <2>1. PICK g : ReadsUpTo(g, measured, lines, n)
      BY <1>2
    <2> DEFINE h == [i \in 0..n + 1 |->
                       IF i <= n THEN g[i] ELSE VerifyLine(g[n], lines[n + 1])]
    <2>2. ASSUME NEW i \in 0..n + 1
          PROVE  h[i] = IF i = 0 THEN Unread(measured) ELSE VerifyLine(h[i - 1], lines[i])
      <3>1. CASE i = 0
        BY <2>1, <3>1 DEF ReadsUpTo
      <3>2. CASE i \in 1..n
        <4>1. h[i] = g[i] /\ h[i - 1] = g[i - 1]
          BY <3>2
        <4>2. g[i] = VerifyLine(g[i - 1], lines[i])
          BY <2>1, <3>2 DEF ReadsUpTo
        <4> QED BY <3>2, <4>1, <4>2
      <3>3. CASE i = n + 1
        BY <3>3
      <3> QED BY <3>1, <3>2, <3>3
    <2>3. h = [i \in 0..n + 1 |->
                 IF i = 0 THEN Unread(measured) ELSE VerifyLine(h[i - 1], lines[i])]
      BY <2>2
    <2>4. ReadsUpTo(h, measured, lines, n + 1)
      BY <2>3 DEF ReadsUpTo
    <2> QED BY <2>4
  <1>3. \A n \in Nat : n \in N => \E after : ReadsUpTo(after, measured, lines, n)
    OBVIOUS
  <1> HIDE DEF N
  <1>4. Nat \subseteq N
    BY <1>1, <1>2, SetInduction
  <1> QED BY <1>3, <1>4

LEMMA ReadingIsDefined ==
    ASSUME NEW measured, NEW lines, Len(lines) \in Nat
    PROVE  \E after : /\ ReadsUpTo(after, measured, lines, Len(lines))
                      /\ Reading(measured, lines) = after[Len(lines)]
PROOF
  <1> DEFINE f == CHOOSE after : after = [n \in 0..Len(lines) |->
                    IF n = 0 THEN Unread(measured) ELSE VerifyLine(after[n - 1], lines[n])]
  <1>1. ReadsUpTo(f, measured, lines, Len(lines))
    <2>1. \E after : ReadsUpTo(after, measured, lines, Len(lines))
      BY ReadsUpToExists
    <2> QED BY <2>1 DEF ReadsUpTo
  <1>2. Reading(measured, lines) = f[Len(lines)]
    BY DEF Reading
  <1> QED BY <1>1, <1>2

\* A file is read from its beginning, one line after the other.
LEMMA ReadingExtended ==
    ASSUME NEW measured, NEW lines, IsHistory(lines), NEW line
    PROVE  Reading(measured, Append(lines, line)) = VerifyLine(Reading(measured, lines), line)
PROOF
  <1> DEFINE longer == Append(lines, line)
             k == Len(lines)
  <1>1. /\ k \in Nat /\ Len(longer) = k + 1 /\ longer[k + 1] = line
        /\ \A i \in 1..k : longer[i] = lines[i]
    BY HistoryAppended
  <1> HIDE DEF longer, k
  <1>2. PICK g : ReadsUpTo(g, measured, lines, k) /\ Reading(measured, lines) = g[k]
    BY <1>1, ReadingIsDefined DEF k
  <1>3. PICK h : ReadsUpTo(h, measured, longer, k + 1) /\ Reading(measured, longer) = h[k + 1]
    <2>1. Len(longer) \in Nat
      BY <1>1
    <2>2. \E h : /\ ReadsUpTo(h, measured, longer, Len(longer))
                 /\ Reading(measured, longer) = h[Len(longer)]
      BY <2>1, ReadingIsDefined
    <2> QED BY <1>1, <2>2
  <1> DEFINE N == {n \in 0..k : h[n] = g[n]}
  <1>4. 0 \in N
    BY <1>1, <1>2, <1>3 DEF ReadsUpTo
  <1>5. ASSUME NEW n \in 0..k - 1, n \in N PROVE n + 1 \in N
    <2>1. n + 1 \in 1..k /\ (n + 1) - 1 = n /\ h[n] = g[n]
      BY <1>1, <1>5
    <2>2. g[n + 1] = VerifyLine(g[n], lines[n + 1])
      BY <1>1, <1>2, <2>1 DEF ReadsUpTo
    <2>3. h[n + 1] = VerifyLine(h[n], longer[n + 1])
      BY <1>1, <1>3, <2>1 DEF ReadsUpTo
    <2> QED BY <1>1, <2>1, <2>2, <2>3
  <1>6. k \in N => h[k] = g[k]
    OBVIOUS
  <1> HIDE DEF N
  <1>7. \A n \in 0..k : n \in N
    BY <1>1, <1>4, <1>5, IntervalInduction
  <1>8. h[k + 1] = VerifyLine(h[k], longer[k + 1])
    BY <1>1, <1>3 DEF ReadsUpTo
  <1> QED BY <1>1, <1>2, <1>3, <1>6, <1>7, <1>8 DEF longer

LEMMA ReadingNothing ==
    ASSUME NEW measured
    PROVE  Reading(measured, <<>>) = Unread(measured)
PROOF
  <1>1. Len(<<>>) = 0
    OBVIOUS
  <1>2. PICK g : ReadsUpTo(g, measured, <<>>, 0) /\ Reading(measured, <<>>) = g[0]
    BY <1>1, ReadingIsDefined
  <1> QED BY <1>2 DEF ReadsUpTo

\* states tells the states there are among the first lines, n of them.
CollectsUpTo(states, lines, n) ==
    states = [i \in 0..n |->
               IF i = 0 THEN <<>> ELSE WithState(states[i - 1], lines[i])]

LEMMA CollectsUpToExists ==
    ASSUME NEW lines
    PROVE  \A n \in Nat : \E states : CollectsUpTo(states, lines, n)
PROOF
  <1> DEFINE N == {n \in Nat : \E states : CollectsUpTo(states, lines, n)}
  <1>1. 0 \in N
    <2> DEFINE g == [i \in 0..0 |-> <<>>]
    <2>1. g = [i \in 0..0 |->
                 IF i = 0 THEN <<>> ELSE WithState(g[i - 1], lines[i])]
      OBVIOUS
    <2>2. CollectsUpTo(g, lines, 0)
      BY <2>1 DEF CollectsUpTo
    <2> QED BY <2>2
  <1>2. ASSUME NEW n \in Nat, n \in N PROVE n + 1 \in N
    <2>1. PICK g : CollectsUpTo(g, lines, n)
      BY <1>2
    <2> DEFINE h == [i \in 0..n + 1 |->
                       IF i <= n THEN g[i] ELSE WithState(g[n], lines[n + 1])]
    <2>2. ASSUME NEW i \in 0..n + 1
          PROVE  h[i] = IF i = 0 THEN <<>> ELSE WithState(h[i - 1], lines[i])
      <3>1. CASE i = 0
        BY <2>1, <3>1 DEF CollectsUpTo
      <3>2. CASE i \in 1..n
        <4>1. h[i] = g[i] /\ h[i - 1] = g[i - 1]
          BY <3>2
        <4>2. g[i] = WithState(g[i - 1], lines[i])
          BY <2>1, <3>2 DEF CollectsUpTo
        <4> QED BY <3>2, <4>1, <4>2
      <3>3. CASE i = n + 1
        BY <3>3
      <3> QED BY <3>1, <3>2, <3>3
    <2>3. h = [i \in 0..n + 1 |->
                 IF i = 0 THEN <<>> ELSE WithState(h[i - 1], lines[i])]
      BY <2>2
    <2>4. CollectsUpTo(h, lines, n + 1)
      BY <2>3 DEF CollectsUpTo
    <2> QED BY <2>4
  <1>3. \A n \in Nat : n \in N => \E states : CollectsUpTo(states, lines, n)
    OBVIOUS
  <1> HIDE DEF N
  <1>4. Nat \subseteq N
    BY <1>1, <1>2, SetInduction
  <1> QED BY <1>3, <1>4

LEMMA StatesIsDefined ==
    ASSUME NEW lines, Len(lines) \in Nat
    PROVE  \E states : /\ CollectsUpTo(states, lines, Len(lines))
                      /\ StatesOf(lines) = states[Len(lines)]
PROOF
  <1> DEFINE f == CHOOSE states : states = [n \in 0..Len(lines) |->
                    IF n = 0 THEN <<>> ELSE WithState(states[n - 1], lines[n])]
  <1>1. CollectsUpTo(f, lines, Len(lines))
    BY CollectsUpToExists DEF CollectsUpTo
  <1>2. StatesOf(lines) = f[Len(lines)]
    BY DEF StatesOf
  <1> QED BY <1>1, <1>2

\* The states of a longer file are those of the shorter one, and the new one.
LEMMA StatesExtended ==
    ASSUME NEW lines, IsHistory(lines), NEW line
    PROVE  StatesOf(Append(lines, line)) = WithState(StatesOf(lines), line)
PROOF
  <1> DEFINE longer == Append(lines, line)
             k == Len(lines)
  <1>1. /\ k \in Nat /\ Len(longer) = k + 1 /\ longer[k + 1] = line
        /\ \A i \in 1..k : longer[i] = lines[i]
    BY HistoryAppended
  <1> HIDE DEF longer, k
  <1>2. PICK g : CollectsUpTo(g, lines, k) /\ StatesOf(lines) = g[k]
    BY <1>1, StatesIsDefined DEF k
  <1>3. PICK h : CollectsUpTo(h, longer, k + 1) /\ StatesOf(longer) = h[k + 1]
    <2>1. Len(longer) \in Nat
      BY <1>1
    <2>2. \E h : /\ CollectsUpTo(h, longer, Len(longer))
                 /\ StatesOf(longer) = h[Len(longer)]
      BY <2>1, StatesIsDefined
    <2> QED BY <1>1, <2>2
  <1> DEFINE N == {n \in 0..k : h[n] = g[n]}
  <1>4. 0 \in N
    BY <1>1, <1>2, <1>3 DEF CollectsUpTo
  <1>5. ASSUME NEW n \in 0..k - 1, n \in N PROVE n + 1 \in N
    <2>1. n + 1 \in 1..k /\ (n + 1) - 1 = n /\ h[n] = g[n]
      BY <1>1, <1>5
    <2>2. g[n + 1] = WithState(g[n], lines[n + 1])
      BY <1>1, <1>2, <2>1 DEF CollectsUpTo
    <2>3. h[n + 1] = WithState(h[n], longer[n + 1])
      BY <1>1, <1>3, <2>1 DEF CollectsUpTo
    <2> QED BY <1>1, <2>1, <2>2, <2>3
  <1>6. k \in N => h[k] = g[k]
    OBVIOUS
  <1> HIDE DEF N
  <1>7. \A n \in 0..k : n \in N
    BY <1>1, <1>4, <1>5, IntervalInduction
  <1>8. h[k + 1] = WithState(h[k], longer[k + 1])
    BY <1>1, <1>3 DEF CollectsUpTo
  <1> QED BY <1>1, <1>2, <1>3, <1>6, <1>7, <1>8 DEF longer

LEMMA StatesNothing == StatesOf(<<>>) = <<>>
PROOF
  <1>1. Len(<<>>) = 0
    OBVIOUS
  <1>2. PICK g : CollectsUpTo(g, <<>>, 0) /\ StatesOf(<<>>) = g[0]
    BY <1>1, StatesIsDefined
  <1> QED BY <1>2 DEF CollectsUpTo

\* What the verifier expects next is never the line of an invalid recording.
Expected == {"TICK", "GROUND", "STATE", "EVENT", "END"}

IsReader(v) ==
    v \in [ measured : {v.measured}, verdict : {"reading", "rejected", "verified"},
            expect : SUBSET Expected, frames : Nat, events : Nat,
            vehicle : {v.vehicle}, input : {v.input}, proxies : {v.proxies} ]

LEMMA MakeReader ==
    ASSUME NEW verdict \in {"reading", "rejected", "verified"},
           NEW expect \in SUBSET Expected, NEW frames \in Nat, NEW events \in Nat,
           NEW veh, NEW i, NEW p, NEW measured
    PROVE  IsReader([ measured |-> measured, verdict |-> verdict, expect |-> expect, frames |-> frames,
                      events |-> events, vehicle |-> veh, input |-> i,
                      proxies |-> p ])
  BY DEF IsReader

LEMMA VerifierReads ==
    ASSUME NEW v, IsReader(v), NEW line
    PROVE  /\ IsReader(VerifyLine(v, line))
           /\ VerifyLine(v, line).verdict = "verified" => line.kind = "END"
PROOF
  <1>1. CASE v.verdict # "reading" \/ Misplaced(v, line)
    <2>1. VerifyLine(v, line) = Reject(v)
      BY <1>1 DEF VerifyLine
    <2> QED BY <2>1 DEF Reject, IsReader
  <1> DEFINE reads == v.verdict = "reading" /\ ~Misplaced(v, line)
  <1>3. CASE reads /\ line.kind = "EVENT"
    <2>1. VerifyLine(v, line) = VerifyEvent(v, line)
      BY <1>3 DEF VerifyLine
    <2> DEFINE veh == IF line.event = "RESET"
                        THEN FreshVehicle(line.profile) ELSE v.vehicle
    <2>2. VerifyEvent(v, line)
            = [v EXCEPT !.events = v.events + 1, !.vehicle = veh]
      BY DEF VerifyEvent
    <2> HIDE DEF veh
    <2>3. VerifyLine(v, line)
            = [ measured |-> v.measured, verdict |-> v.verdict, expect |-> v.expect, frames |-> v.frames,
                events |-> v.events + 1, vehicle |-> veh, input |-> v.input,
                proxies |-> v.proxies ]
      BY <2>1, <2>2 DEF IsReader
    <2>4. /\ v.expect \in SUBSET Expected /\ v.frames \in Nat
          /\ v.events + 1 \in Nat
      BY DEF IsReader
    <2> QED BY <1>3, <2>3, <2>4, MakeReader
  <1>4. CASE reads /\ line.kind = "TICK"
    <2>1. VerifyLine(v, line) = VerifyTick(v, line)
      BY <1>4 DEF VerifyLine
    <2> DEFINE read == [v EXCEPT !.input = line.input, !.proxies = line.proxies]
               veh == Stepped(read.vehicle, line.input, line.proxies, FirstWorld)
    <2>2. VerifyTick(v, line)
            = IF v.measured THEN [read EXCEPT !.expect = {"GROUND"}]
              ELSE [read EXCEPT !.expect = {"STATE"}, !.vehicle = veh]
      BY DEF VerifyTick, IsReader
    <2>3. /\ read = [ v EXCEPT !.input = line.input, !.proxies = line.proxies ]
          /\ IsReader(read) /\ read.verdict = v.verdict
      BY DEF IsReader
    <2> HIDE DEF veh, read
    <2>4. IsReader([read EXCEPT !.expect = {"GROUND"}])
      BY <2>3 DEF IsReader, Expected
    <2>5. IsReader([read EXCEPT !.expect = {"STATE"}, !.vehicle = veh])
      BY <2>3 DEF IsReader, Expected
    <2>6. VerifyLine(v, line).verdict = v.verdict
      BY <2>1, <2>2, <2>3 DEF IsReader
    <2> QED BY <1>4, <2>1, <2>2, <2>4, <2>5, <2>6
  <1>5. CASE reads /\ line.kind = "GROUND"
    <2>1. VerifyLine(v, line) = VerifyGround(v, line)
      BY <1>5 DEF VerifyLine
    <2> DEFINE veh == MeasuredStep(v.vehicle, v.input, v.proxies, line.ground)
    <2>2. VerifyGround(v, line)
            = [v EXCEPT !.expect = {"STATE"}, !.vehicle = veh]
      BY DEF VerifyGround
    <2> HIDE DEF veh
    <2>3. VerifyLine(v, line)
            = [ measured |-> v.measured, verdict |-> v.verdict,
                expect |-> {"STATE"}, frames |-> v.frames,
                events |-> v.events, vehicle |-> veh, input |-> v.input,
                proxies |-> v.proxies ]
      BY <2>1, <2>2 DEF IsReader
    <2>4. {"STATE"} \in SUBSET Expected /\ v.frames \in Nat /\ v.events \in Nat
      BY DEF IsReader, Expected
    <2> QED BY <1>5, <2>3, <2>4, MakeReader
  <1>6. CASE reads /\ line.kind = "STATE"
    <2>1. VerifyLine(v, line) = IF line.state = v.vehicle
                                  THEN [Between(v) EXCEPT !.frames = @ + 1]
                                  ELSE Reject(v)
      BY <1>6 DEF VerifyLine
    <2>2. IsReader(Reject(v)) /\ Reject(v).verdict # "verified"
      BY DEF Reject, IsReader
    <2>3. CASE line.state = v.vehicle
      <3>1. VerifyLine(v, line) = [ v EXCEPT !.expect = {"TICK", "EVENT", "END"},
                                             !.frames = v.frames + 1 ]
        BY <2>1, <2>3 DEF Between, IsReader
      <3>2. VerifyLine(v, line)
              = [ measured |-> v.measured, verdict |-> v.verdict, expect |-> {"TICK", "EVENT", "END"},
                  frames |-> v.frames + 1, events |-> v.events,
                  vehicle |-> v.vehicle, input |-> v.input,
                  proxies |-> v.proxies ]
        BY <3>1 DEF IsReader
      <3>3. /\ {"TICK", "EVENT", "END"} \in SUBSET Expected
            /\ v.frames + 1 \in Nat /\ v.events \in Nat
        BY DEF IsReader, Expected
      <3> QED BY <1>6, <3>2, <3>3, MakeReader
    <2> QED BY <2>1, <2>2, <2>3
  <1>7. CASE reads /\ line.kind = "END"
    <2>1. \/ VerifyLine(v, line) = [v EXCEPT !.verdict = "verified"]
          \/ VerifyLine(v, line) = Reject(v)
      BY <1>7 DEF VerifyLine
    <2> QED BY <1>7, <2>1 DEF Reject, IsReader
  <1>8. v.expect \subseteq Expected
    BY DEF IsReader
  <1> QED BY <1>1, <1>3, <1>4, <1>5, <1>6, <1>7, <1>8 DEF Expected, Misplaced

\* A file without an end is not accepted, whatever else is in it.
NoEnd(lines) == \A i \in 1..Len(lines) : lines[i].kind # "END"

LEMMA ReaderOfFile ==
    ASSUME NEW measured, NEW lines, IsHistory(lines)
    PROVE  /\ IsReader(Reading(measured, lines))
           /\ NoEnd(lines) => ~Verifies(measured, lines)
PROOF
  <1> DEFINE k == Len(lines)
  <1>1. k \in Nat
    BY LenProperties DEF IsHistory
  <1>2. PICK g : ReadsUpTo(g, measured, lines, k) /\ Reading(measured, lines) = g[k]
    BY <1>1, ReadingIsDefined
  <1> HIDE DEF k
  <1> DEFINE N == {n \in 0..k : IsReader(g[n])}
  <1>3. g[0] = Unread(measured)
    BY <1>1, <1>2 DEF ReadsUpTo
  <1>4. \A n \in 0..k - 1 : g[n + 1] = VerifyLine(g[n], lines[n + 1])
    BY <1>1, <1>2 DEF ReadsUpTo
  <1>5. 0 \in N
    <2>1. {"TICK", "EVENT", "END"} \in SUBSET Expected
      BY DEF Expected
    <2>2. IsReader(Unread(measured))
      BY <2>1, MakeReader DEF Unread
    <2> QED BY <1>1, <1>3, <2>2
  <1>6. ASSUME NEW n \in 0..k - 1, n \in N PROVE n + 1 \in N
    <2>1. n + 1 \in 0..k /\ IsReader(g[n])
      BY <1>1, <1>6
    <2> QED BY <1>4, <2>1, VerifierReads
  <1>7. \A n \in 0..k : n \in N => IsReader(g[n])
    OBVIOUS
  <1> HIDE DEF N
  <1>8. \A n \in 0..k : IsReader(g[n])
    BY <1>1, <1>5, <1>6, <1>7, IntervalInduction
  <1>9. IsReader(Reading(measured, lines))
    BY <1>1, <1>2, <1>8
  <1>10. ASSUME NoEnd(lines) PROVE ~Verifies(measured, lines)
    <2>1. CASE k = 0
      <3>1. Unread(measured).verdict = "reading"
        BY DEF Unread
      <3> QED BY <1>2, <1>3, <2>1, <3>1 DEF Verifies
    <2>2. CASE k # 0
      <3>1. k - 1 \in 0..k - 1 /\ k - 1 \in 0..k /\ (k - 1) + 1 = k
        BY <1>1, <2>2
      <3>2. g[k] = VerifyLine(g[k - 1], lines[k])
        BY <1>4, <3>1
      <3>3. lines[k].kind # "END"
        BY <1>1, <1>10, <2>2 DEF NoEnd, k
      <3> QED BY <1>2, <1>8, <3>1, <3>2, <3>3, VerifierReads DEF Verifies
    <2> QED BY <2>1, <2>2
  <1> QED BY <1>9, <1>10

-----------------------------------------------------------------------------
(* The recorder, and what the verifier makes of its file so far.           *)

IsRecording(r) ==
    /\ r \in [ status : {"off", "open", "complete", "invalid"},
               lines : {r.lines}, frames : Nat, events : Nat ]
    /\ IsHistory(r.lines)

\* Between two ticks the verifier has followed an open recording to where the
\* host is: it has counted the same frames and events, and has reached the
\* vehicle that the host has.
Follows(v, live, r, veh) ==
    /\ v.measured = live
    /\ v.verdict = "reading" /\ v.expect = {"TICK", "EVENT", "END"}
    /\ v.frames = r.frames /\ v.events = r.events
    /\ v.vehicle = veh

\* The recording of a host that has the vehicle veh, after ticks that led to
\* the states in drv.
Faithful(live, r, veh, drv) ==
    /\ IsRecording(r)
    /\ r.status \in {"open", "complete"} => StatesOf(r.lines) = drv
    /\ r.status = "open" => Follows(Reading(live, r.lines), live, r, veh)
    /\ IF r.status = "complete" THEN Verifies(live, r.lines) ELSE NoEnd(r.lines)

LEMMA NoEndExtended ==
    ASSUME NEW lines, IsHistory(lines), NoEnd(lines),
           NEW line, line.kind # "END"
    PROVE  NoEnd(Append(lines, line))
  BY HistoryAppended DEF NoEnd

LEMMA OneLine ==
    ASSUME NEW line, line.kind # "END"
    PROVE  IsHistory(<<line>>) /\ NoEnd(<<line>>)
PROOF
  <1>1. <<line>> \in Seq({line}) /\ Len(<<line>>) = 1
    OBVIOUS
  <1>2. \A i \in 1..Len(<<line>>) : <<line>>[i] = line
    BY <1>1
  <1>3. NoEnd(<<line>>)
    BY <1>2 DEF NoEnd
  <1> QED BY <1>1, <1>3, HistoryOf

LEMMA NoEndConcatenated ==
    ASSUME NEW s, IsHistory(s), NoEnd(s), NEW t, IsHistory(t), NoEnd(t)
    PROVE  NoEnd(s \o t)
PROOF
  <1>1. ASSUME NEW i \in 1..Len(s \o t) PROVE (s \o t)[i].kind # "END"
    <2>1. /\ Len(s) \in Nat /\ Len(t) \in Nat /\ i \in 1..Len(s) + Len(t)
          /\ (s \o t)[i] = IF i <= Len(s) THEN s[i] ELSE t[i - Len(s)]
      BY HistoryConcatenated
    <2>2. i <= Len(s) \/ i - Len(s) \in 1..Len(t)
      BY <2>1
    <2> QED BY <2>1, <2>2 DEF NoEnd
  <1> QED BY <1>1 DEF NoEnd

LEMMA NoEndCut ==
    ASSUME NEW s, IsHistory(s), NoEnd(s), NEW n \in Int, n <= Len(s)
    PROVE  NoEnd(SubSeq(s, 1, n))
PROOF
  <1>1. Len(SubSeq(s, 1, n)) \in Nat /\ Len(s) \in Nat
    BY HistoryCut, LenProperties DEF IsHistory
  <1> QED BY <1>1, HistoryCut DEF NoEnd

\* An invalid recording is rejected, however much of it there is.
LEMMA InvalidIsFaithful ==
    ASSUME NEW r, IsRecording(r), NoEnd(r.lines), r.status = "open",
           NEW veh, NEW drv
    PROVE  Faithful(Live, Invalidated(r), veh, drv) /\ Invalidated(r).status = "invalid"
PROOF
  <1> DEFINE longer == Append(r.lines, [kind |-> "INVALID"])
  <1>1. IsHistory(longer) /\ NoEnd(longer)
    BY HistoryAppended, NoEndExtended DEF IsRecording
  <1>2. Invalidated(r) = [r EXCEPT !.status = "invalid", !.lines = longer]
    BY DEF Invalidated, IsRecording
  <1> HIDE DEF longer
  <1>3. /\ Invalidated(r).status = "invalid" /\ Invalidated(r).lines = longer
        /\ Invalidated(r) \in [ status : {"off", "open", "complete", "invalid"},
                                lines : {longer}, frames : Nat, events : Nat ]
    BY <1>2 DEF IsRecording
  <1> QED BY <1>1, <1>3 DEF Faithful, IsRecording

\* What the limit cuts off.
LEMMA OverflowIsFaithful ==
    ASSUME NEW r, IsRecording(r), NoEnd(r.lines), r.status = "open",
           NEW lines, IsHistory(lines), NoEnd(lines),
           work.lines \in Nat, ~Fits(r, lines), NEW veh, NEW drv
    PROVE  /\ Faithful(Live, Written(r, lines), veh, drv)
           /\ Written(r, lines).status = "invalid"
PROOF
  <1> DEFINE n == work.lines - 1 - Len(r.lines)
             cut == SubSeq(lines, 1, n)
             w == [r EXCEPT !.lines = r.lines \o cut]
  <1>1. Len(r.lines) \in Nat /\ Len(lines) \in Nat
    BY LenProperties DEF IsRecording, IsHistory
  <1>2. n \in Int /\ n <= Len(lines)
    BY <1>1 DEF Fits
  <1>3. IsHistory(cut) /\ NoEnd(cut)
    BY <1>2, HistoryCut, NoEndCut
  <1>4. IsHistory(r.lines \o cut) /\ NoEnd(r.lines \o cut)
    BY <1>3, HistoryConcatenated, NoEndConcatenated DEF IsRecording
  <1>5. Written(r, lines) = Invalidated(w)
    BY DEF Written
  <1> HIDE DEF cut, n
  <1>6. IsRecording(w) /\ w.status = "open" /\ w.lines = r.lines \o cut
    BY <1>4 DEF IsRecording
  <1> HIDE DEF w
  <1> QED BY <1>4, <1>5, <1>6, InvalidIsFaithful

\* An event is a line that the verifier can follow.
LEMMA EventIsFaithful ==
    ASSUME NEW r, NEW veh, NEW drv, Faithful(Live, r, veh, drv), work.lines \in Nat,
           NEW event, NEW profile
    PROVE  Faithful(Live, Noted(r, EventLine(r, event, profile)),
                    IF event = "RESET" THEN FreshVehicle(profile) ELSE veh, drv)
PROOF
  <1> DEFINE line == EventLine(r, event, profile)
             next == IF event = "RESET" THEN FreshVehicle(profile) ELSE veh
             longer == Append(r.lines, line)
             w == Written(r, <<line>>)
  <1>1. CASE r.status # "open"
    BY <1>1 DEF Noted, Faithful
  <1>2. CASE r.status = "open" /\ ~Fits(r, <<line>>)
    <2>1. IsHistory(<<line>>) /\ NoEnd(<<line>>)
      <3>1. line.kind = "EVENT"
        BY DEF EventLine
      <3> HIDE DEF line
      <3> QED BY <3>1, OneLine
    <2>2. Faithful(Live, w, next, drv) /\ w.status = "invalid"
      <3> HIDE DEF next, line
      <3> QED BY <1>2, <2>1, OverflowIsFaithful DEF Faithful
    <2> QED BY <1>2, <2>2 DEF Noted
  <1>3. CASE r.status = "open" /\ Fits(r, <<line>>)
    <2> DEFINE v == Reading(Live, r.lines)
    <2>1. /\ line.kind = "EVENT" /\ line.frame = r.frames /\ line.event = event
          /\ line.profile = profile
      BY DEF EventLine
    <2> HIDE DEF line
    <2>2. /\ IsHistory(r.lines) /\ IsHistory(longer)
          /\ r.lines \o <<line>> = longer
      BY HistoryAppended, HistoryExtended DEF Faithful, IsRecording
    <2>3. w = [r EXCEPT !.lines = longer] /\ w.status = "open"
      BY <1>3, <2>2 DEF Written, Faithful, IsRecording
    <2>4. Noted(r, line) = [w EXCEPT !.events = @ + 1]
      BY <1>3, <2>3 DEF Noted
    <2> DEFINE n == Noted(r, line)
    <2>5. /\ n = [r EXCEPT !.lines = longer, !.events = r.events + 1]
          /\ n.status = "open" /\ n.lines = longer /\ n.frames = r.frames
          /\ n.events = r.events + 1
          /\ IsRecording(n)
      <3>1. n = [r EXCEPT !.lines = longer, !.events = r.events + 1]
        BY <2>3, <2>4 DEF Faithful, IsRecording
      <3> HIDE DEF longer, n
      <3>2. r.events + 1 \in Nat
        BY DEF Faithful, IsRecording
      <3> QED BY <1>3, <2>2, <3>1, <3>2 DEF Faithful, IsRecording
    <2> HIDE DEF n, w
    <2>6. IsReader(v) /\ Follows(v, Live, r, veh)
      BY <1>3, <2>2, ReaderOfFile DEF Faithful
    <2>7. Reading(Live, longer) = VerifyEvent(v, line)
      <3>1. Reading(Live, longer) = VerifyLine(v, line)
        BY <2>2, ReadingExtended
      <3> HIDE DEF v
      <3>2. ~Misplaced(v, line)
        BY <2>1, <2>6 DEF Misplaced, Follows
      <3> QED BY <2>1, <2>6, <3>1, <3>2 DEF VerifyLine, Follows
    <2>8. Follows(Reading(Live, longer), Live, n, next)
      <3> HIDE DEF v
      <3>1. VerifyEvent(v, line) = [ v EXCEPT !.events = v.events + 1,
                                              !.vehicle = next ]
        BY <2>1, <2>6 DEF VerifyEvent, Follows
      <3> HIDE DEF next
      <3> QED BY <2>5, <2>6, <2>7, <3>1 DEF Follows, IsReader
    <2>9. StatesOf(longer) = StatesOf(r.lines)
      BY <2>1, <2>2, StatesExtended DEF WithState
    <2>10. NoEnd(longer)
      BY <1>3, <2>1, <2>2, NoEndExtended DEF Faithful
    <2> QED BY <1>3, <2>5, <2>8, <2>9, <2>10 DEF Faithful, n, line
  <1> QED BY <1>1, <1>2, <1>3

\* The end of a recording with frames tells what the verifier has counted.
LEMMA EndIsFaithful ==
    ASSUME NEW r, NEW veh, NEW drv, Faithful(Live, r, veh, drv),
           r.status = "open", r.frames > 0
    PROVE  Faithful(Live, Finished(r), veh, drv)
PROOF
  <1> DEFINE line == EndLine(r)
             longer == Append(r.lines, line)
             v == Reading(Live, r.lines)
             f == Finished(r)
  <1>1. /\ line.kind = "END" /\ line.frames = r.frames
        /\ line.events = r.events
    BY DEF EndLine
  <1>2. f = [r EXCEPT !.status = "complete", !.lines = longer]
    BY DEF Finished, Faithful, IsRecording
  <1>3. IsHistory(r.lines) /\ IsHistory(longer)
    BY HistoryAppended DEF Faithful, IsRecording
  <1> HIDE DEF line
  <1>4. f.status = "complete" /\ f.lines = longer /\ IsRecording(f)
    <2> HIDE DEF longer, f
    <2> QED BY <1>2, <1>3 DEF Faithful, IsRecording
  <1> HIDE DEF f
  <1>5. IsReader(v) /\ Follows(v, Live, r, veh)
    BY <1>3, ReaderOfFile DEF Faithful
  <1>6. Verifies(Live, longer)
    <2>1. Reading(Live, longer) = VerifyLine(v, line)
      BY <1>3, ReadingExtended
    <2> HIDE DEF v
    <2>2. ~Misplaced(v, line)
      BY <1>1, <1>5 DEF Misplaced, Follows
    <2>3. VerifyLine(v, line) = [v EXCEPT !.verdict = "verified"]
      BY <1>1, <1>5, <2>2 DEF VerifyLine, Follows
    <2> QED BY <1>5, <2>1, <2>3 DEF Verifies, IsReader
  <1>7. StatesOf(longer) = drv
    BY <1>1, <1>3, StatesExtended DEF WithState, Faithful
  <1> QED BY <1>4, <1>6, <1>7 DEF Faithful, f

\* The step that the lines of a tick tell of.
StepTold(veh, i, p, frame) ==
    IF Live THEN MeasuredStep(veh, i, p, frame) ELSE Stepped(veh, i, p, FirstWorld)

\* The verifier, having followed r, follows the lines to the vehicle next.
LeadsTo(r, lines, next) ==
    LET v == Reading(Live, r.lines \o lines)
    IN  /\ IsHistory(lines) /\ NoEnd(lines)
        /\ IsHistory(r.lines \o lines) /\ NoEnd(r.lines \o lines)
        /\ v.measured = Live
        /\ v.verdict = "reading" /\ v.expect = {"TICK", "EVENT", "END"}
        /\ v.frames = r.frames + 1 /\ v.events = r.events
        /\ v.vehicle = next
        /\ StatesOf(r.lines \o lines) = Append(StatesOf(r.lines), next)

\* The lines of a tick lead the verifier to the vehicle that they end with, if
\* that is where their step leads to.
LEMMA TickIsFollowed ==
    ASSUME NEW r, IsRecording(r), NEW veh, Follows(Reading(Live, r.lines), Live, r, veh),
           NEW i, NEW p, NEW frame, NoEnd(r.lines)
    PROVE  LeadsTo(r, TickLines(r, i, p, frame, StepTold(veh, i, p, frame)),
                   StepTold(veh, i, p, frame))
PROOF
  <1> DEFINE next == StepTold(veh, i, p, frame)
             tick == [ kind |-> "TICK", frame |-> r.frames, input |-> i,
                       proxies |-> p ]
             ground == [kind |-> "GROUND", ground |-> frame]
             state == [kind |-> "STATE", state |-> next]
             lines == TickLines(r, i, p, frame, next)
             v == Reading(Live, r.lines)
  <1>1. /\ tick.kind = "TICK" /\ tick.frame = r.frames /\ tick.input = i
        /\ tick.proxies = p
        /\ ground.kind = "GROUND" /\ ground.ground = frame
        /\ state.kind = "STATE" /\ state.state = next
    OBVIOUS
  <1>2. lines = <<tick>> \o (IF Live THEN <<ground>> ELSE <<>>) \o <<state>>
    BY DEF TickLines
  <1> HIDE DEF tick, ground, state, next, lines
  <1>3. IsReader(v) /\ Follows(v, Live, r, veh)
    BY ReaderOfFile DEF IsRecording
  <1> HIDE DEF v
  <1> DEFINE a == Append(r.lines, tick)
             va == VerifyTick(v, tick)
  <1>4. /\ IsHistory(r.lines) /\ IsHistory(a) /\ NoEnd(a)
        /\ StatesOf(a) = StatesOf(r.lines) /\ Reading(Live, a) = va
    <2>1. IsHistory(r.lines) /\ IsHistory(a)
      BY HistoryAppended DEF IsRecording
    <2>2. Reading(Live, a) = VerifyLine(v, tick)
      BY <2>1, ReadingExtended DEF v
    <2>3. ~Misplaced(v, tick)
      BY <1>1, <1>3 DEF Misplaced, Follows
    <2>4. VerifyLine(v, tick) = va
      BY <1>1, <1>3, <2>3 DEF VerifyLine, Follows
    <2> HIDE DEF va
    <2> QED BY <1>1, <2>1, <2>2, <2>4, NoEndExtended, StatesExtended
            DEF WithState
  <1>5. va = IF Live
               THEN [ v EXCEPT !.input = i, !.proxies = p, !.expect = {"GROUND"} ]
               ELSE [ v EXCEPT !.input = i, !.proxies = p, !.expect = {"STATE"},
                               !.vehicle = next ]
    <2>1. next = IF Live THEN MeasuredStep(veh, i, p, frame)
                         ELSE Stepped(veh, i, p, FirstWorld)
      BY DEF next, StepTold
    <2> DEFINE read == [v EXCEPT !.input = i, !.proxies = p]
    <2>2. va = IF Live
                 THEN [read EXCEPT !.expect = {"GROUND"}]
                 ELSE [ read EXCEPT !.expect = {"STATE"},
                          !.vehicle = Stepped(read.vehicle, i, p, FirstWorld) ]
      <3>1. read.measured = Live
        BY <1>3 DEF IsReader, Follows
      <3> HIDE DEF read
      <3>2. va = IF read.measured
                   THEN [read EXCEPT !.expect = {"GROUND"}]
                   ELSE [ read EXCEPT !.expect = {"STATE"},
                            !.vehicle = Stepped(read.vehicle, i, p, FirstWorld) ]
        BY <1>1 DEF VerifyTick, read
      <3> QED BY <3>1, <3>2
    <2>3. read.vehicle = veh
      BY <1>3 DEF IsReader, Follows
    <2> HIDE DEF va
    <2> QED BY <2>1, <2>2, <2>3
  <1> DEFINE b == IF Live THEN Append(a, ground) ELSE a
             vb == [ v EXCEPT !.input = i, !.proxies = p, !.expect = {"STATE"},
                              !.vehicle = next ]
  <1>6. /\ IsHistory(b) /\ NoEnd(b)
        /\ StatesOf(b) = StatesOf(r.lines) /\ Reading(Live, b) = vb
    <2>1. CASE ~Live
      BY <1>4, <1>5, <2>1
    <2>2. CASE Live
      <3>1. IsHistory(b) /\ NoEnd(b) /\ StatesOf(b) = StatesOf(r.lines)
        BY <1>1, <1>4, <2>2, HistoryAppended, NoEndExtended, StatesExtended
           DEF WithState
      <3>2. Reading(Live, b) = VerifyLine(va, ground)
        <4>1. b = Append(a, ground)
          BY <2>2
        <4> HIDE DEF a, b
        <4>2. Reading(Live, Append(a, ground)) = VerifyLine(Reading(Live, a), ground)
          BY <1>4, ReadingExtended
        <4> QED BY <1>4, <4>1, <4>2
      <3>3. /\ va.verdict = "reading" /\ va.expect = {"GROUND"}
            /\ va.vehicle = veh /\ va.input = i /\ va.proxies = p
            /\ [va EXCEPT !.expect = {"STATE"}, !.vehicle = next] = vb
        <4> HIDE DEF va
        <4> QED BY <1>3, <1>5, <2>2 DEF IsReader, Follows
      <3> HIDE DEF va, vb, b
      <3>4. VerifyLine(va, ground) = VerifyGround(va, ground)
        BY <1>1, <3>3 DEF VerifyLine, Misplaced
      <3>5. MeasuredStep(veh, i, p, frame) = next
        BY <2>2 DEF next, StepTold
      <3>6. VerifyGround(va, ground) = vb
        BY <1>1, <3>3, <3>5 DEF VerifyGround
      <3> QED BY <3>1, <3>2, <3>4, <3>6
    <2> QED BY <2>1, <2>2
  <1> HIDE DEF va, b
  <1> DEFINE c == Append(b, state)
             vc == [ v EXCEPT !.input = i, !.proxies = p, !.vehicle = next,
                              !.expect = {"TICK", "EVENT", "END"},
                              !.frames = r.frames + 1 ]
  <1>7. /\ IsHistory(c) /\ NoEnd(c)
        /\ StatesOf(c) = Append(StatesOf(r.lines), next) /\ Reading(Live, c) = vc
    <2>1. IsHistory(c) /\ NoEnd(c) /\ StatesOf(c) = Append(StatesOf(r.lines), next)
      BY <1>1, <1>6, HistoryAppended, NoEndExtended, StatesExtended DEF WithState
    <2>2. Reading(Live, c) = VerifyLine(vb, state)
      BY <1>6, ReadingExtended
    <2>3. /\ vb.verdict = "reading" /\ vb.expect = {"STATE"} /\ vb.vehicle = next
          /\ vc = [ Between(vb) EXCEPT !.frames = @ + 1 ]
      BY <1>3 DEF IsReader, Follows, Between
    <2> HIDE DEF vb, vc
    <2>4. VerifyLine(vb, state) = [Between(vb) EXCEPT !.frames = @ + 1]
      BY <1>1, <2>3 DEF VerifyLine, Misplaced
    <2> QED BY <2>1, <2>2, <2>3, <2>4
  <1>8. /\ vc.measured = Live
        /\ vc.verdict = "reading" /\ vc.expect = {"TICK", "EVENT", "END"}
        /\ vc.frames = r.frames + 1 /\ vc.events = r.events
        /\ vc.vehicle = next
    BY <1>3 DEF IsReader, Follows
  <1> HIDE DEF c, vc
  <1>9. r.lines \o lines = c /\ IsHistory(lines) /\ NoEnd(lines)
    <2> DEFINE T == Range(r.lines) \cup {tick, ground, state}
               x == <<tick>>
               y == IF Live THEN <<ground>> ELSE <<>>
               z == <<state>>
    <2>1. /\ r.lines \in Seq(T) /\ tick \in T /\ ground \in T /\ state \in T
          /\ x \in Seq(T) /\ y \in Seq(T) /\ z \in Seq(T)
      <3>1. r.lines \in Seq(T) /\ tick \in T /\ ground \in T /\ state \in T
        BY <1>4, SeqMonotonic DEF IsHistory
      <3> HIDE DEF T
      <3> QED BY <3>1
    <2>2. IsHistory(x) /\ NoEnd(x) /\ IsHistory(z) /\ NoEnd(z)
      BY <1>1, OneLine
    <2>3. IsHistory(y) /\ NoEnd(y)
      <3>1. CASE Live
        BY <1>1, <3>1, OneLine
      <3>2. CASE ~Live
        <4>1. <<>> \in Seq({}) /\ Len(<<>>) = 0
          OBVIOUS
        <4>2. IsHistory(<<>>)
          BY <4>1, HistoryOf
        <4>3. NoEnd(<<>>)
          BY <4>1 DEF NoEnd
        <4> QED BY <3>2, <4>2, <4>3
      <3> QED BY <3>1, <3>2
    <2> HIDE DEF T
    <2>4. a \in Seq(T) /\ a = r.lines \o x
      BY <2>1, AppendIsConcat, AppendProperties DEF a
    <2>5. b \in Seq(T) /\ b = a \o y
      <3>1. CASE Live
        BY <2>1, <2>4, <3>1, AppendIsConcat, AppendProperties DEF b
      <3>2. CASE ~Live
        BY <2>4, <3>2, ConcatEmptySeq DEF b
      <3> QED BY <3>1, <3>2
    <2>6. c = b \o z
      BY <2>1, <2>5, AppendIsConcat DEF c
    <2>7. lines = (x \o y) \o z
      BY <1>2
    <2> HIDE DEF x, y, z
    <2>8. /\ IsHistory(x \o y) /\ NoEnd(x \o y)
          /\ x \o y \in Seq(T)
      BY <2>1, <2>2, <2>3, HistoryConcatenated, NoEndConcatenated,
         ConcatProperties
    <2>9. IsHistory(lines) /\ NoEnd(lines)
      BY <2>2, <2>7, <2>8, HistoryConcatenated, NoEndConcatenated
    <2>a. \A s, t, u \in Seq(T) : (s \o t) \o u = s \o (t \o u)
      BY ConcatAssociative
    <2>10. r.lines \o lines = (r.lines \o (x \o y)) \o z
      BY <2>1, <2>7, <2>8, <2>a
    <2>11. r.lines \o (x \o y) = (r.lines \o x) \o y
      BY <2>1, <2>a
    <2> QED BY <2>4, <2>5, <2>6, <2>9, <2>10, <2>11
  <1> QED BY <1>7, <1>8, <1>9 DEF lines, next, LeadsTo

\* A tick is recorded as far as the recording goes.
LEMMA RecordedIsFaithful ==
    ASSUME NEW r, NEW veh, NEW drv, Faithful(Live, r, veh, drv),
           work.lines \in Nat, NEW i, NEW p, NEW frame
    PROVE  LET next == StepTold(veh, i, p, frame)
           IN  Faithful(Live, Recorded(r, TickLines(r, i, p, frame, next)), next,
                        IF r.status = "open" THEN Append(drv, next) ELSE drv)
PROOF
  <1> DEFINE next == StepTold(veh, i, p, frame)
             lines == TickLines(r, i, p, frame, next)
             w == Written(r, lines)
  <1>1. CASE r.status # "open"
    BY <1>1 DEF Recorded, Faithful
  <1>2. CASE r.status = "open"
    <2> DEFINE longer == r.lines \o lines
               v == Reading(Live, longer)
               drv2 == Append(drv, next)
    <2>1. IsRecording(r) /\ Follows(Reading(Live, r.lines), Live, r, veh) /\ NoEnd(r.lines)
      BY <1>2 DEF Faithful
    <2>2. /\ IsHistory(lines) /\ NoEnd(lines)
          /\ IsHistory(longer) /\ NoEnd(longer)
          /\ v.measured = Live
          /\ v.verdict = "reading" /\ v.expect = {"TICK", "EVENT", "END"}
          /\ v.frames = r.frames + 1 /\ v.events = r.events
          /\ v.vehicle = next /\ StatesOf(longer) = drv2
      <3>1. StatesOf(r.lines) = drv
        BY <1>2 DEF Faithful
      <3>2. LeadsTo(r, lines, next)
        BY <2>1, TickIsFollowed
      <3> HIDE DEF lines, next
      <3> QED BY <3>1, <3>2 DEF LeadsTo
    <2> HIDE DEF next, lines
    <2>3. CASE ~Fits(r, lines)
      <3>1. Faithful(Live, w, next, drv2) /\ w.status = "invalid"
        BY <1>2, <2>1, <2>2, <2>3, OverflowIsFaithful
      <3>2. Recorded(r, lines) = w
        BY <1>2, <3>1 DEF Recorded
      <3> QED BY <1>2, <3>1, <3>2 DEF lines, next
    <2>4. CASE Fits(r, lines)
      <3> DEFINE f == [w EXCEPT !.frames = @ + 1]
      <3>1. w = [r EXCEPT !.lines = longer]
        BY <2>4 DEF Written, IsRecording
      <3> HIDE DEF longer
      <3>2. w.status = "open" /\ f = [ r EXCEPT !.lines = longer,
                                               !.frames = r.frames + 1 ]
        BY <1>2, <2>1, <3>1 DEF IsRecording
      <3>3. Recorded(r, lines) = IF f.frames = work.frames THEN Finished(f) ELSE f
        BY <1>2, <3>2 DEF Recorded
      <3>4. /\ f.status = "open" /\ f.lines = longer /\ f.frames = r.frames + 1
            /\ f.events = r.events /\ f.frames > 0 /\ IsRecording(f)
        <4> HIDE DEF f, w
        <4>1. r.frames \in Nat /\ r.frames + 1 \in Nat /\ r.frames + 1 > 0
          BY <2>1 DEF IsRecording
        <4> QED BY <1>2, <2>1, <2>2, <3>2, <4>1 DEF IsRecording
      <3> HIDE DEF f
      <3>5. Faithful(Live, f, next, drv2)
        BY <2>2, <3>4 DEF Faithful, Follows
      <3>6. Faithful(Live, Finished(f), next, drv2)
        BY <3>4, <3>5, EndIsFaithful
      <3> QED BY <1>2, <3>3, <3>5, <3>6 DEF lines, next
    <2> QED BY <2>3, <2>4
  <1> QED BY <1>1, <1>2

\* A recording that is over does not depend on where the host goes on to.
LEMMA OverIsFaithful ==
    ASSUME NEW r, NEW veh, NEW drv, Faithful(Live, r, veh, drv), r.status # "open",
           NEW veh2, NEW drv2, r.status = "complete" => drv2 = drv
    PROVE  Faithful(Live, r, veh2, drv2)
  BY DEF Faithful

\* An event does not finish a recording, nor begin one again.
LEMMA NotedStatus ==
    ASSUME NEW r, IsRecording(r), NEW line
    PROVE  /\ Noted(r, line).status \in {r.status, "invalid"}
           /\ r.status # "open" => Noted(r, line) = r
PROOF
  <1> DEFINE w == Written(r, <<line>>)
  <1>1. CASE r.status # "open"
    BY <1>1 DEF Noted
  <1>2. CASE r.status = "open" /\ Fits(r, <<line>>)
    <2> DEFINE longer == r.lines \o <<line>>
    <2>1. w = [r EXCEPT !.lines = longer]
      BY <1>2 DEF Written, IsRecording
    <2>2. Noted(r, line) = IF w.status = "open" THEN [w EXCEPT !.events = @ + 1] ELSE w
      BY <1>2 DEF Noted
    <2> HIDE DEF longer, w
    <2> QED BY <1>2, <2>1, <2>2 DEF IsRecording
  <1>3. CASE r.status = "open" /\ ~Fits(r, <<line>>)
    <2> DEFINE cut == r.lines \o SubSeq(<<line>>, 1, work.lines - 1 - Len(r.lines))
               v == [r EXCEPT !.lines = cut]
    <2>1. w = Invalidated(v)
      BY <1>3 DEF Written, IsRecording
    <2> HIDE DEF cut
    <2>2. v.status = "open" /\ v \in [ status : {"open"}, lines : {cut},
                                       frames : Nat, events : Nat ]
      BY <1>3 DEF IsRecording
    <2> HIDE DEF v, w
    <2>3. w.status = "invalid"
      BY <2>1, <2>2 DEF Invalidated
    <2> QED BY <1>3, <2>3 DEF Noted, w
  <1> QED BY <1>1, <1>2, <1>3

\* The recording and its verifier, the vehicle and the world: as long as the
\* recording is open, the verifier is where the host is.
ReplayInv ==
    /\ work \in Workloads
    /\ Faithful(Live, replay, vehicle, driven)
    /\ replay.status = "open" /\ ~Live => mapWorld = FirstWorld

LEMMA ReplayInvInit ==
    ASSUME Init
    PROVE  ReplayInv
PROOF
  <1> DEFINE status == IF work.recorded THEN "open" ELSE "off"
  <1>1. replay = [ status |-> status, lines |-> <<>>, frames |-> 0, events |-> 0 ]
    BY DEF Init, NewRecording
  <1>2. <<>> \in Seq({}) /\ Len(<<>>) = 0
    OBVIOUS
  <1>3. IsHistory(<<>>)
    BY <1>2, HistoryOf
  <1>4. NoEnd(<<>>)
    BY <1>2 DEF NoEnd
  <1>5. status \in {"open", "off"}
    OBVIOUS
  <1> HIDE DEF status
  <1>6. IsRecording(replay)
    BY <1>1, <1>3, <1>5 DEF IsRecording
  <1>7. Follows(Reading(Live, replay.lines), Live, replay, vehicle)
    <2>1. Reading(Live, replay.lines) = Unread(Live)
      BY <1>1, ReadingNothing
    <2>2. ASSUME NEW live PROVE Follows(Unread(live), live, replay, vehicle)
      BY <1>1 DEF Follows, Unread, Init
    <2> QED BY <2>1, <2>2
  <1>8. StatesOf(replay.lines) = driven
    BY <1>1, StatesNothing DEF Init
  <1> QED BY <1>1, <1>4, <1>5, <1>6, <1>7, <1>8 DEF ReplayInv, Faithful, Init

LEMMA ReplayInvTick ==
    ASSUME ReplayInv, NEW m \in Met, RunTick(m)
    PROVE  ReplayInv'
PROOF
  <1> DEFINE found == IF m.network THEN Invalidated(replay) ELSE replay
             stopped == NotedIfLate(found, m.late, "SAFE_STOP")
             noted == NotedIfLate(stopped, m.late, "HARD_TIMEOUT")
             i == InputAfter(m.late)
             p == Proxy(DamageFound(m))
             next == StepTold(vehicle, i, p, Frame(m))
  <1>1. work.lines \in Nat
    BY TickAssumption DEF ReplayInv, Workload
  <1>2. /\ Faithful(Live, found, vehicle, driven)
        /\ found.status = "open" => replay.status = "open" /\ ~m.network
        /\ found.status = "complete" => replay.status = "complete"
    <2>1. CASE ~m.network
      BY <2>1 DEF ReplayInv, Live
    <2>2. CASE m.network /\ replay.status # "open"
      BY <2>2 DEF ReplayInv, Invalidated
    <2>3. CASE m.network /\ replay.status = "open"
      BY <2>3, InvalidIsFaithful DEF ReplayInv, Faithful
    <2> QED BY <2>1, <2>2, <2>3
  <1> HIDE DEF found
  <1>3. /\ Faithful(Live, stopped, vehicle, driven)
        /\ stopped.status \in {found.status, "invalid"}
    <2>1. CASE "SAFE_STOP" \in m.late
      <3>1. stopped = Noted(found, EventLine(found, "SAFE_STOP", ""))
        BY <2>1 DEF NotedIfLate
      <3>2. Faithful(Live, stopped, vehicle, driven)
        BY <1>1, <1>2, <3>1, EventIsFaithful
      <3>3. IsRecording(found)
        BY <1>2 DEF Faithful
      <3> QED BY <3>1, <3>2, <3>3, NotedStatus
    <2>2. CASE "SAFE_STOP" \notin m.late
      BY <1>2, <2>2 DEF NotedIfLate
    <2> QED BY <2>1, <2>2
  <1> HIDE DEF stopped
  <1>4. /\ Faithful(Live, noted, vehicle, driven)
        /\ noted.status \in {stopped.status, "invalid"}
    <2>1. CASE "HARD_TIMEOUT" \in m.late
      <3>1. noted = Noted(stopped, EventLine(stopped, "HARD_TIMEOUT", ""))
        BY <2>1 DEF NotedIfLate
      <3>2. Faithful(Live, noted, vehicle, driven)
        BY <1>1, <1>3, <3>1, EventIsFaithful
      <3>3. IsRecording(stopped)
        BY <1>3 DEF Faithful
      <3> QED BY <3>1, <3>2, <3>3, NotedStatus
    <2>2. CASE "HARD_TIMEOUT" \notin m.late
      BY <1>3, <2>2 DEF NotedIfLate
    <2> QED BY <2>1, <2>2
  <1> HIDE DEF noted
  <1>5. /\ noted.status = "open" => replay.status = "open" /\ ~m.network
        /\ noted.status = "complete" => replay.status = "complete"
    BY <1>2, <1>3, <1>4
  <1>6. RecordingFound(m) = noted
    BY DEF RecordingFound, found, stopped, noted
  <1>7. /\ replay' = Recorded(noted, TickLines(noted, i, p, Frame(m), VehicleLeft(m)))
        /\ vehicle' = VehicleLeft(m)
        /\ driven' = IF replay.status = "open" /\ ~m.network
                       THEN Append(driven, VehicleLeft(m)) ELSE driven
        /\ work' = work /\ mapWorld' = mapWorld
    BY <1>6 DEF RunTick, RecordingLeft
  <1>8. CASE noted.status # "open"
    <2>1. replay' = noted
      BY <1>7, <1>8 DEF Recorded
    <2>2. noted.status = "complete" => driven' = driven
      BY <1>5, <1>7
    <2>3. Faithful(Live, noted, vehicle', driven')
      BY <1>4, <1>8, <2>2, OverIsFaithful
    <2> QED BY <1>7, <1>8, <2>1, <2>3 DEF ReplayInv, Live
  <1>9. CASE noted.status = "open"
    <2>1. VehicleLeft(m) = next
      BY <1>5, <1>9 DEF VehicleLeft, StepTold, ReplayInv
    <2>2. driven' = Append(driven, next)
      BY <1>5, <1>7, <1>9, <2>1
    <2> HIDE DEF i, p
    <2>3. Faithful(Live, replay', next, Append(driven, next))
      BY <1>1, <1>4, <1>7, <1>9, <2>1, RecordedIsFaithful
    <2>4. Faithful(Live, replay', vehicle', driven')
      BY <1>7, <2>1, <2>2, <2>3
    <2>5. ~Live' => mapWorld' = FirstWorld
      BY <1>5, <1>7, <1>9 DEF ReplayInv, Live
    <2> QED BY <1>7, <2>4, <2>5 DEF ReplayInv, Live
  <1> QED BY <1>8, <1>9

LEMMA ReplayInvNext ==
    ASSUME ReplayInv, [Next]_vars
    PROVE  ReplayInv'
PROOF
  <1>1. work.lines \in Nat
    BY TickAssumption DEF ReplayInv, Workload
  <1>2. Faithful(Live, replay, vehicle, driven) /\ IsRecording(replay)
    BY DEF ReplayInv, Faithful
  <1>3. ASSUME NEW profile \in Profiles, NewPlay(profile)
        PROVE  ReplayInv'
    <2>1. /\ vehicle' = FreshVehicle(profile) /\ UNCHANGED <<work, mapWorld, driven>>
          /\ replay' = Noted(replay, EventLine(replay, "RESET", profile))
      BY <1>3 DEF NewPlay, Lapse, Record, ResetLine
    <2>2. Faithful(Live, replay', vehicle', driven')
      BY <1>1, <1>2, <2>1, EventIsFaithful
    <2>3. replay'.status \in {replay.status, "invalid"}
      BY <1>2, <2>1, NotedStatus
    <2> QED BY <2>1, <2>2, <2>3 DEF ReplayInv, Live
  <1>4. ASSUME UNCHANGED <<work, mapWorld, vehicle, driven>>,
               NEW event, event # "RESET", NEW profile,
               replay' = Noted(replay, EventLine(replay, event, profile))
        PROVE  ReplayInv'
    <2>1. Faithful(Live, replay', vehicle', driven')
      BY <1>1, <1>2, <1>4, EventIsFaithful
    <2>2. replay'.status \in {replay.status, "invalid"}
      BY <1>2, <1>4, NotedStatus
    <2> QED BY <1>4, <2>1, <2>2 DEF ReplayInv, Live
  <1>5. CASE Reconnect \/ EmergencyStop
    BY <1>4, <1>5 DEF Reconnect, EmergencyStop, Lapse, Remember, Record
  <1>6. ASSUME NEW i \in Inputs, Drive(i)
        PROVE  ReplayInv'
    BY <1>6 DEF Drive, Remember, ReplayInv, Live
  <1>7. ASSUME NEW lag \in work.lags, NEW world \in Worlds,
               InstallMap(clock.deadline + lag, world)
        PROVE  ReplayInv'
    <2>1. work' = work /\ driven' = driven /\ replay' = Invalidated(replay)
      BY <1>7 DEF InstallMap, Lapse
    <2>2. CASE replay.status = "open"
      <3>1. Faithful(Live, replay', vehicle', driven') /\ replay'.status = "invalid"
        BY <1>2, <2>1, <2>2, InvalidIsFaithful DEF Faithful
      <3> QED BY <2>1, <3>1 DEF ReplayInv, Live
    <2>3. CASE replay.status # "open"
      <3>1. replay' = replay
        BY <2>1, <2>3 DEF Invalidated
      <3> QED BY <1>2, <2>1, <2>3, <3>1, OverIsFaithful DEF ReplayInv, Live
    <2> QED BY <2>2, <2>3
  <1>8. ASSUME NEW m \in Met, RunTick(m)
        PROVE  ReplayInv'
    BY <1>8, ReplayInvTick
  <1>9. CASE Shutdown
    <2>1. /\ UNCHANGED <<work, mapWorld, vehicle, driven>>
          /\ replay' = IF Finishable(replay) THEN Finished(replay) ELSE replay
      BY <1>9 DEF Shutdown, Remember, hostVars
    <2>2. CASE replay.status = "open" /\ replay.frames > 0
      <3>1. replay' = Finished(replay)
        BY <2>1, <2>2 DEF Finishable
      <3>2. Faithful(Live, replay', vehicle', driven')
        BY <1>2, <2>1, <2>2, <3>1, EndIsFaithful
      <3> QED BY <2>1, <2>2, <3>2 DEF ReplayInv, Live
    <2>3. CASE ~(replay.status = "open" /\ replay.frames > 0)
      <3>1. replay' = replay
        BY <2>1, <2>3 DEF Finishable, Finished
      <3> QED BY <2>1, <3>1 DEF ReplayInv, Live
    <2> QED BY <2>2, <2>3
  <1>10. CASE Kill
    <2>1. UNCHANGED <<work, mapWorld, vehicle, driven>> /\ replay.status = "open"
      BY <1>10 DEF Kill, Remember, hostVars
    <2>2. PICK n \in 0..Len(replay.lines) : replay' = CutOff(replay, n)
      BY <1>10 DEF Kill
    <2> DEFINE cut == SubSeq(replay.lines, 1, n)
    <2>3. Len(replay.lines) \in Nat
      BY <1>2, LenProperties DEF IsRecording, IsHistory
    <2>4. IsHistory(cut) /\ NoEnd(cut)
      BY <1>2, <2>1, <2>3, HistoryCut, NoEndCut DEF Faithful, IsRecording
    <2>5. replay' = [replay EXCEPT !.status = "invalid", !.lines = cut]
      BY <1>2, <2>2 DEF CutOff, IsRecording
    <2> HIDE DEF cut
    <2>6. /\ replay'.status = "invalid" /\ replay'.lines = cut
          /\ replay' \in [ status : {"off", "open", "complete", "invalid"},
                           lines : {cut}, frames : Nat, events : Nat ]
      BY <1>2, <2>5 DEF IsRecording
    <2>7. Faithful(Live, replay', vehicle', driven')
      BY <2>4, <2>6 DEF Faithful, IsRecording
    <2> QED BY <2>1, <2>6, <2>7 DEF ReplayInv, Live
  <1>11. CASE UNCHANGED vars
    BY <1>11 DEF vars, hostVars, ReplayInv, Live
  <1> QED BY <1>3, <1>5, <1>6, <1>7, <1>8, <1>9, <1>10, <1>11 DEF Next

\* The verifier, which has nothing but the file, accepts exactly the complete
\* recordings, and reaches the vehicle that the host had after each of its
\* ticks, whatever was recorded in between, and however long the recording.
THEOREM ReplaysReproduce == Spec => []ReplayReproduces
PROOF
  <1>1. ReplayInv => ReplayReproduces
    BY ReaderOfFile DEF ReplayInv, Faithful, IsRecording, ReplayReproduces
  <1> QED BY <1>1, ReplayInvInit, ReplayInvNext, PTL DEF Spec


-----------------------------------------------------------------------------
(* The damage of a structure.  It knows a window of impulses and, of the   *)
(* episode that goes on, the peak and what it was charged for it; the      *)
(* reference knows all impulses x that were counted.  While the structure  *)
(* stands, what it knows is what x ends with (InStep); an impulse more     *)
(* either starts an episode or raises the last one (ImpulseCounted), no    *)
(* impulse may end it (QuietCounted), and both change the total of the     *)
(* reference by what the structure charges (TotalBegun, TotalRaised) and   *)
(* its reports by what it reports (AccountBegun, AccountRaised).  A fallen *)
(* pole collects nothing, and no impulse changes its account (FallenStays).*)

\* A window is the end of what there was to count.
WindowHolds(w, x) ==
    /\ Len(w) <= Window /\ Len(w) <= Len(x)
    /\ Len(w) < Window => Len(w) = Len(x)
    /\ \A i \in 1..Len(w) : w[i] = x[Len(x) - Len(w) + i]

SilentFor(x, ticks) ==
    \A k \in Greater(1, Len(x) - ticks + 1) .. Len(x) : x[k] = 0

\* No episode is going on.
Closed(d, x) ==
    /\ d.quiet = Window /\ d.peak = 0 /\ d.charged = 0 /\ ~d.shown
    /\ SilentFor(x, Window)

IsLastEpisode(x, s) ==
    s \in Episodes(x) /\ \A k \in Episodes(x) : k <= s

\* The last episode is going on.
Open(d, x) ==
    /\ d.quiet < Window
    /\ Len(x) - d.quiet >= 1 /\ x[Len(x) - d.quiet] > 0
    /\ SilentFor(x, d.quiet)
    /\ \E s \in Episodes(x) :
         /\ IsLastEpisode(x, s)
         /\ d.peak = Max(Peaks(x, s, Len(x)))
         /\ d.charged = Damages(x)[s]
    /\ d.shown <=> d.charged > 0

IsLedger(log) == log \in Seq([enabled : BOOLEAN, impulse : Nat])

-----------------------------------------------------------------------------
(* Sequences of impulses, and one impulse more.                            *)

LEMMA OneMore ==
    ASSUME NEW x \in Seq(Nat), NEW v \in Nat
    PROVE  /\ Append(x, v) \in Seq(Nat) /\ Len(x) \in Nat
           /\ Len(Append(x, v)) = Len(x) + 1
           /\ Append(x, v)[Len(x) + 1] = v
           /\ \A i \in 1..Len(x) : Append(x, v)[i] = x[i] /\ x[i] \in Nat
           /\ DOMAIN x = 1..Len(x) /\ DOMAIN Append(x, v) = 1 .. Len(x) + 1
  OBVIOUS

LEMMA WindowSumIsNatural ==
    ASSUME NEW x \in Seq(Nat), NEW k \in 1..Len(x)
    PROVE  WindowSum(x, k) \in Nat
PROOF
  <1> DEFINE S == Greater(1, k - Window + 1) .. k
  <1>1. S \subseteq 1..Len(x) /\ IsFiniteSet(S)
    <2>1. Greater(1, k - Window + 1) \in Int /\ Greater(1, k - Window + 1) >= 1
      BY DamageAssumption DEF Greater
    <2>2. IsFiniteSet(S)
      BY <2>1, FS_Interval
    <2> QED BY <2>1, <2>2
  <1>2. \A i \in S : x[i] \in Nat /\ x[i] = x[i]
    BY <1>1
  <1> HIDE DEF S
  <1>3. SumFunctionOnSet(x, S) \in Nat
    BY <1>1, <1>2, SumsAgree
  <1> QED BY <1>3 DEF WindowSum, S

LEMMA WindowSumStays ==
    ASSUME NEW x \in Seq(Nat), NEW v \in Nat, NEW k \in 1..Len(x)
    PROVE  WindowSum(Append(x, v), k) = WindowSum(x, k)
PROOF
  <1> DEFINE S == Greater(1, k - Window + 1) .. k
             y == Append(x, v)
  <1>1. S \subseteq 1..Len(x) /\ IsFiniteSet(S)
    <2>1. Greater(1, k - Window + 1) \in Int /\ Greater(1, k - Window + 1) >= 1
      BY DamageAssumption DEF Greater
    <2>2. IsFiniteSet(S)
      BY <2>1, FS_Interval
    <2> QED BY <2>1, <2>2
  <1>2. \A i \in S : x[i] \in Nat /\ x[i] = y[i]
    BY <1>1, OneMore
  <1> HIDE DEF S, y
  <1>3. SumFunctionOnSet(x, S) = SumFunctionOnSet(y, S)
    BY <1>1, <1>2, SumsAgree
  <1> QED BY <1>3 DEF WindowSum, S, y

LEMMA StartsStays ==
    ASSUME NEW x \in Seq(Nat), NEW v \in Nat, NEW k \in 1..Len(x)
    PROVE  StartsEpisode(Append(x, v), k) <=> StartsEpisode(x, k)
PROOF
  <1> DEFINE S == Greater(1, k - Window) .. k - 1
             y == Append(x, v)
  <1>1. S \subseteq 1..Len(x)
    BY DamageAssumption DEF Greater
  <1>2. \A i \in S \cup {k} : x[i] = y[i]
    BY <1>1, OneMore
  <1> HIDE DEF S, y
  <1>3. (x[k] > 0 /\ \A i \in S : x[i] = 0) <=> (y[k] > 0 /\ \A i \in S : y[i] = 0)
    BY <1>2
  <1> QED BY <1>3 DEF StartsEpisode, S, y

LEMMA IsMaximum ==
    ASSUME NEW S \in SUBSET Nat, NEW m \in S, \A n \in S : n <= m
    PROVE  Max(S) = m
PROOF
  <1>1. \A n \in S : m >= n
    OBVIOUS
  <1>2. \A n \in S : (\A y \in S : n >= y) => n = m
    BY <1>1
  <1> QED BY <1>1, <1>2 DEF Max

\* Something is the most that the window held.
LEMMA PeakExists ==
    ASSUME NEW x \in Seq(Nat), NEW e \in 1..Len(x), NEW s \in 1..e, x[s] > 0
    PROVE  /\ Peaks(x, s, e) \in SUBSET Nat
           /\ Max(Peaks(x, s, e)) \in Peaks(x, s, e)
           /\ Max(Peaks(x, s, e)) \in Nat
           /\ \A p \in Peaks(x, s, e) : p <= Max(Peaks(x, s, e))
PROOF
  <1> DEFINE sum(k) == WindowSum(x, k)
             S == {j \in s..e : \E m \in s..j : /\ x[m] > 0
                                 /\ \A k \in s..j : x[k] > 0 => sum(k) <= sum(m)}
  <1>0. \A k \in s..e : sum(k) \in Nat
    BY WindowSumIsNatural
  <1> HIDE DEF sum
  <1>1. s \in S
    BY <1>0
  <1>2. ASSUME NEW j \in s .. e - 1, j \in S PROVE j + 1 \in S
    <2>1. PICK m \in s..j : /\ x[m] > 0
                             /\ \A k \in s..j : x[k] > 0 => sum(k) <= sum(m)
      BY <1>2
    <2>2. /\ sum(m) \in Nat /\ sum(j + 1) \in Nat /\ m \in s .. j + 1
          /\ \A k \in s .. j + 1 : k \in s..j \/ k = j + 1
          /\ \A k \in s .. j : sum(k) \in Nat
      BY <1>0
    <2>3. CASE x[j + 1] > 0 /\ sum(j + 1) > sum(m)
      <3>1. ASSUME NEW k \in s .. j + 1, x[k] > 0 PROVE sum(k) <= sum(j + 1)
        <4>1. CASE k \in s..j
          <5>1. sum(k) <= sum(m) /\ sum(k) \in Nat
            BY <2>1, <2>2, <3>1, <4>1
          <5> QED BY <2>2, <2>3, <5>1
        <4>2. CASE k = j + 1
          BY <2>2, <4>2
        <4> QED BY <2>2, <4>1, <4>2
      <3>2. \E i \in s .. j + 1 : /\ x[i] > 0
                                 /\ \A k \in s .. j + 1 : x[k] > 0 => sum(k) <= sum(i)
        BY <2>2, <2>3, <3>1
      <3> QED BY <3>2
    <2>4. CASE ~(x[j + 1] > 0 /\ sum(j + 1) > sum(m))
      <3>1. ASSUME NEW k \in s .. j + 1, x[k] > 0 PROVE sum(k) <= sum(m)
        <4>1. CASE k \in s..j
          BY <2>1, <3>1, <4>1
        <4>2. CASE k = j + 1
          BY <2>2, <2>4, <3>1, <4>2
        <4> QED BY <2>2, <4>1, <4>2
      <3>2. \E i \in s .. j + 1 : /\ x[i] > 0
                                 /\ \A k \in s .. j + 1 : x[k] > 0 => sum(k) <= sum(i)
        BY <2>1, <2>2, <3>1
      <3> QED BY <3>2
    <2> QED BY <2>3, <2>4
  <1>3. e \in S => \E m \in s..e : /\ x[m] > 0
                       /\ \A k \in s..e : x[k] > 0 => sum(k) <= sum(m)
    OBVIOUS
  <1> HIDE DEF S
  <1>a. s \in Int /\ e \in Int
    OBVIOUS
  <1>4. \A j \in s..e : j \in S
    BY ONLY <1>a, <1>1, <1>2, IntervalInduction
  <1>5. PICK m \in s..e : /\ x[m] > 0
                          /\ \A k \in s..e : x[k] > 0 => sum(k) <= sum(m)
    BY <1>3, <1>4
  <1>6. /\ \A p : p \in Peaks(x, s, e) <=> \E k \in s..e : x[k] > 0 /\ p = sum(k)
        /\ sum(m) \in Peaks(x, s, e)
    BY <1>5 DEF Peaks, sum
  <1>7. Peaks(x, s, e) \in SUBSET Nat /\ \A p \in Peaks(x, s, e) : p <= sum(m)
    BY <1>0, <1>5, <1>6
  <1>8. Max(Peaks(x, s, e)) = sum(m)
    BY <1>6, <1>7, IsMaximum
  <1> QED BY <1>6, <1>7, <1>8

LEMMA PeaksStay ==
    ASSUME NEW x \in Seq(Nat), NEW v \in Nat, NEW e \in 0..Len(x), NEW s \in Nat \ {0}
    PROVE  Peaks(Append(x, v), s, e) = Peaks(x, s, e)
PROOF
  <1>1. \A k \in s..e : /\ WindowSum(Append(x, v), k) = WindowSum(x, k)
                         /\ Append(x, v)[k] = x[k]
    BY WindowSumStays, OneMore
  <1> QED BY <1>1 DEF Peaks

\* The most that the window held, after one impulse more.
LEMMA PeakExtended ==
    ASSUME NEW x \in Seq(Nat), NEW v \in Nat, NEW s \in 1..Len(x), x[s] > 0
    PROVE  LET y == Append(x, v) IN
           Max(Peaks(y, s, Len(y)))
             = IF v = 0 THEN Max(Peaks(x, s, Len(x)))
               ELSE Greater(Max(Peaks(x, s, Len(x))), WindowSum(y, Len(y)))
PROOF
  <1> DEFINE y == Append(x, v)
             n == Len(x)
             P == Peaks(x, s, n)
             w == WindowSum(y, n + 1)
             Q == Peaks(y, s, n + 1)
  <1>1. /\ n \in Nat /\ Len(y) = n + 1 /\ y[n + 1] = v /\ y \in Seq(Nat)
        /\ s \in 1..n
    BY OneMore
  <1>2. Peaks(y, s, n) = P
    BY <1>1, PeaksStay
  <1>3. /\ P \in SUBSET Nat /\ Max(P) \in P /\ Max(P) \in Nat
        /\ \A p \in P : p <= Max(P)
    BY <1>1, PeakExists
  <1> HIDE DEF y, n
  <1>4. w \in Nat
    <2>1. n + 1 \in 1..Len(y)
      BY <1>1
    <2> QED BY <1>1, <2>1, WindowSumIsNatural
  <1>5. Q = IF v = 0 THEN P ELSE P \cup {w}
    <2>1. /\ \A k \in s .. n + 1 : k \in s..n \/ k = n + 1
          /\ \A k \in s..n : k \in s .. n + 1
          /\ n + 1 \in s .. n + 1
      BY <1>1
    <2>2. /\ \A p : p \in P <=> \E k \in s..n : y[k] > 0 /\ p = WindowSum(y, k)
          /\ \A p : p \in Q <=> \E k \in s .. n + 1 : y[k] > 0 /\ p = WindowSum(y, k)
      BY <1>2 DEF Peaks
    <2> HIDE DEF P, Q
    <2>3. CASE v = 0
      <3>1. ~(y[n + 1] > 0)
        BY <1>1, <2>3
      <3>2. \A p : p \in Q <=> p \in P
        BY <2>1, <2>2, <3>1
      <3> QED BY <2>3, <3>2
    <2>4. CASE v # 0
      <3>1. y[n + 1] > 0
        BY <1>1, <2>4
      <3>2. \A p : p \in Q <=> p \in P \/ p = w
        BY <2>1, <2>2, <3>1
      <3> QED BY <2>4, <3>2
    <2> QED BY <2>3, <2>4
  <1> HIDE DEF P, w, Q
  <1>6. CASE v = 0
    BY <1>1, <1>5, <1>6 DEF y, n, P, Q
  <1>7. CASE v # 0
    <2>1. Q \in SUBSET Nat /\ Greater(Max(P), w) \in Q
          /\ \A p \in Q : p <= Greater(Max(P), w)
      BY <1>3, <1>4, <1>5, <1>7 DEF Greater
    <2>2. Max(Q) = Greater(Max(P), w)
      BY <2>1, IsMaximum
    <2> QED BY <1>1, <1>7, <2>2 DEF y, n, P, Q, w
  <1> QED BY <1>6, <1>7

-----------------------------------------------------------------------------
(* Episodes, and one impulse more.                                         *)

LEMMA EpisodesAre ==
    ASSUME NEW x \in Seq(Nat)
    PROVE  /\ Episodes(x) \in SUBSET (1..Len(x))
           /\ IsFiniteSet(Episodes(x))
           /\ \A s \in Episodes(x) : StartsEpisode(x, s) /\ x[s] > 0
           /\ \A s \in 1..Len(x) : StartsEpisode(x, s) <=> s \in Episodes(x)
           /\ DOMAIN Damages(x) = Episodes(x)
           /\ \A s \in Episodes(x) : Damages(x)[s] = EpisodeDamage(x, s)
PROOF
  <1>1. Episodes(x) \in SUBSET (1..Len(x))
    BY DEF Episodes
  <1>2. IsFiniteSet(1..Len(x))
    BY FS_Interval
  <1>3. IsFiniteSet(Episodes(x))
    BY <1>1, <1>2, FS_Subset
  <1> QED BY <1>1, <1>3 DEF Episodes, Damages, StartsEpisode

\* An episode ends with the impulses there are, or before the next one.
LEMMA EpisodeEnds ==
    ASSUME NEW x \in Seq(Nat), NEW s \in Episodes(x)
    PROVE  /\ EpisodeEnd(x, s) \in s..Len(x)
           /\ IsLastEpisode(x, s) => EpisodeEnd(x, s) = Len(x)
PROOF
  <1> DEFINE later == {k \in s + 1 .. Len(x) : StartsEpisode(x, k)}
  <1>1. s \in 1..Len(x) /\ Len(x) \in Nat
    BY EpisodesAre
  <1>2. EpisodeEnd(x, s) = IF later = {} THEN Len(x) ELSE Min(later) - 1
    BY DEF EpisodeEnd
  <1>3. CASE later = {}
    BY <1>1, <1>2, <1>3
  <1>4. CASE later # {}
    <2>1. later \in SUBSET Nat
      BY <1>1
    <2>2. PICK m \in later : \A k \in later : m <= k
      BY <1>4, <2>1, LeastOfNaturals
    <2>3. Min(later) \in later
      BY <2>2 DEF Min
    <2>4. Min(later) \in s + 1 .. Len(x) /\ Min(later) \in Episodes(x)
      BY <1>1, <2>3, EpisodesAre
    <2>5. ~IsLastEpisode(x, s)
      BY <1>1, <2>4 DEF IsLastEpisode
    <2>6. EpisodeEnd(x, s) = Min(later) - 1
      BY <1>2, <1>4
    <2>7. \A k \in s + 1 .. Len(x) : k - 1 \in s..Len(x)
      BY <1>1
    <2> HIDE DEF later
    <2> QED BY ONLY <2>4, <2>5, <2>6, <2>7
  <1> QED BY <1>3, <1>4

\* An impulse more ends no episode but the last one, if it starts another.
LEMMA EpisodeEndStays ==
    ASSUME NEW x \in Seq(Nat), NEW v \in Nat, NEW s \in Episodes(x),
           \/ ~IsLastEpisode(x, s)
           \/ StartsEpisode(Append(x, v), Len(x) + 1)
    PROVE  EpisodeEnd(Append(x, v), s) = EpisodeEnd(x, s)
PROOF
  <1> DEFINE y == Append(x, v)
             n == Len(x)
             L == {k \in s + 1 .. n : StartsEpisode(x, k)}
             M == {k \in s + 1 .. n + 1 : StartsEpisode(y, k)}
  <1>1. s \in 1..n /\ n \in Nat /\ Len(y) = n + 1
    BY EpisodesAre, OneMore
  <1>2. \A k \in 1..n : StartsEpisode(y, k) <=> StartsEpisode(x, k)
    BY StartsStays
  <1>3. EpisodeEnd(x, s) = IF L = {} THEN n ELSE Min(L) - 1
    BY DEF EpisodeEnd
  <1>4. EpisodeEnd(y, s) = IF M = {} THEN n + 1 ELSE Min(M) - 1
    BY <1>1 DEF EpisodeEnd
  <1>5. /\ \A k \in L : k \in M
        /\ \A k \in M : k \in L \/ k = n + 1
        /\ n + 1 \in M <=> StartsEpisode(y, n + 1)
    <2> HIDE DEF y, n
    <2> QED BY <1>1, <1>2
  <1>6. L \in SUBSET (1..n) /\ M \in SUBSET Nat
    BY <1>1
  <1>7. CASE L = {}
    <2>1. \A k \in Episodes(x) : k <= s
      <3>1. ASSUME NEW k \in Episodes(x), k > s PROVE FALSE
        <4>1. k \in s + 1 .. n /\ StartsEpisode(x, k)
          BY <1>1, <3>1, EpisodesAre
        <4> QED BY <1>7, <4>1
      <3>2. \A k \in Episodes(x) : k \in 1..n
        BY EpisodesAre
      <3> QED BY <1>1, <3>1, <3>2
    <2>2. StartsEpisode(y, n + 1)
      BY <2>1 DEF IsLastEpisode
    <2> HIDE DEF L, M
    <2>3. M = {n + 1}
      BY <1>5, <1>7, <2>2
    <2>4. Min(M) = n + 1
      BY <2>3 DEF Min
    <2> HIDE DEF y, n
    <2> QED BY <1>1, <1>3, <1>4, <1>7, <2>3, <2>4 DEF y
  <1>8. CASE L # {}
    <2>0. L \in SUBSET Nat
      BY <1>6
    <2>1. PICK m \in L : \A k \in L : m <= k
      BY <1>8, <2>0, LeastOfNaturals
    <2> HIDE DEF L, M, y, n
    <2>2. m \in M /\ \A k \in M : m <= k
      BY <1>1, <1>5, <1>6, <2>1
    <2>3. Min(L) = m
      <3>1. \A k \in L : (\A j \in L : k <= j) => k = m
        BY <2>0, <2>1
      <3> QED BY <2>1, <3>1 DEF Min
    <2>4. Min(M) = m
      <3>1. \A k \in M : (\A j \in M : k <= j) => k = m
        BY <1>6, <2>2
      <3> QED BY <2>2, <3>1 DEF Min
    <2>5. M # {}
      BY <2>2
    <2> QED BY <1>3, <1>4, <1>8, <2>3, <2>4, <2>5 DEF y
  <1> QED BY <1>7, <1>8

LEMMA EpisodeDamageStays ==
    ASSUME NEW x \in Seq(Nat), NEW v \in Nat, NEW s \in Episodes(x),
           \/ ~IsLastEpisode(x, s)
           \/ StartsEpisode(Append(x, v), Len(x) + 1)
    PROVE  EpisodeDamage(Append(x, v), s) = EpisodeDamage(x, s)
PROOF
  <1>1. EpisodeEnd(Append(x, v), s) = EpisodeEnd(x, s)
    BY EpisodeEndStays
  <1>2. EpisodeEnd(x, s) \in 0..Len(x) /\ s \in Nat \ {0}
    BY EpisodeEnds, EpisodesAre
  <1>3. Peaks(Append(x, v), s, EpisodeEnd(x, s)) = Peaks(x, s, EpisodeEnd(x, s))
    BY <1>2, PeaksStay
  <1> QED BY <1>1, <1>3 DEF EpisodeDamage

LEMMA DamagesAre ==
    ASSUME NEW x \in Seq(Nat), NEW s \in Episodes(x)
    PROVE  /\ Damages(x)[s] \in 0..Full
           /\ IsLastEpisode(x, s) =>
                /\ Damages(x)[s] = Clamped(0, Max(Peaks(x, s, Len(x))) - Onset, Full)
                /\ Max(Peaks(x, s, Len(x))) \in Nat
PROOF
  <1>1. /\ EpisodeEnd(x, s) \in s..Len(x) /\ s \in 1..Len(x) /\ x[s] > 0
        /\ IsLastEpisode(x, s) => EpisodeEnd(x, s) = Len(x)
    BY EpisodeEnds, EpisodesAre
  <1>2. EpisodeEnd(x, s) \in 1..Len(x) /\ s \in 1..EpisodeEnd(x, s)
    BY <1>1
  <1>3. Max(Peaks(x, s, EpisodeEnd(x, s))) \in Nat
    BY <1>1, <1>2, PeakExists
  <1>4. Damages(x)[s] = Clamped(0, Max(Peaks(x, s, EpisodeEnd(x, s))) - Onset, Full)
    BY EpisodesAre DEF EpisodeDamage
  <1>5. Clamped(0, Max(Peaks(x, s, EpisodeEnd(x, s))) - Onset, Full) \in 0..Full
    BY <1>3, DamageAssumption DEF Clamped
  <1> QED BY <1>1, <1>3, <1>4, <1>5

\* After a window without impulse, one starts an episode.
LEMMA EpisodeBegun ==
    ASSUME NEW x \in Seq(Nat), NEW v \in Nat, v > 0, SilentFor(x, Window)
    PROVE  LET y == Append(x, v)
               n == Len(x) + 1
           IN  /\ n \notin Episodes(x) /\ \A s \in Episodes(x) : s < n
               /\ Episodes(y) = Episodes(x) \cup {n}
               /\ IsLastEpisode(y, n)
               /\ \A s \in Episodes(x) : Damages(y)[s] = Damages(x)[s]
               /\ Max(Peaks(y, n, Len(y))) = Greater(0, WindowSum(y, n))
PROOF
  <1> DEFINE y == Append(x, v)
             n == Len(x) + 1
  <1>1. /\ y \in Seq(Nat) /\ Len(y) = n /\ y[n] = v /\ n \in Nat /\ n - 1 = Len(x)
        /\ \A i \in 1 .. n - 1 : y[i] = x[i]
    BY OneMore
  <1>2. StartsEpisode(y, n)
    <2>1. ASSUME NEW k \in Greater(1, n - Window) .. n - 1 PROVE y[k] = 0
      <3>1. k \in 1 .. n - 1 /\ k \in Greater(1, Len(x) - Window + 1) .. Len(x)
        BY <1>1, DamageAssumption DEF Greater
      <3> QED BY <1>1, <3>1 DEF SilentFor
    <2> HIDE DEF y, n
    <2> QED BY <1>1, <2>1 DEF StartsEpisode
  <1>3. \A s \in Episodes(x) : s \in 1 .. n - 1
    BY <1>1, EpisodesAre
  <1>4. \A s \in 1 .. n - 1 : s \in Episodes(y) <=> s \in Episodes(x)
    <2>1. /\ \A s \in 1..Len(y) : StartsEpisode(y, s) <=> s \in Episodes(y)
          /\ \A s \in 1..Len(x) : StartsEpisode(x, s) <=> s \in Episodes(x)
      BY <1>1, EpisodesAre
    <2>2. \A s \in 1..Len(x) : StartsEpisode(y, s) <=> StartsEpisode(x, s)
      BY StartsStays
    <2>3. \A s \in 1 .. n - 1 : s \in 1..Len(x) /\ s \in 1..Len(y)
      BY <1>1
    <2> HIDE DEF y, n
    <2> QED BY <2>1, <2>2, <2>3
  <1>5. \A s \in Episodes(x) : EpisodeDamage(y, s) = EpisodeDamage(x, s)
    BY <1>2, EpisodeDamageStays
  <1>6. /\ Episodes(y) \in SUBSET (1..n) /\ (StartsEpisode(y, n) <=> n \in Episodes(y))
        /\ \A s \in Episodes(y) : Damages(y)[s] = EpisodeDamage(y, s)
        /\ \A s \in Episodes(x) : Damages(x)[s] = EpisodeDamage(x, s)
    <2>1. n \in 1..Len(y)
      BY <1>1
    <2> QED BY <1>1, <2>1, EpisodesAre
  <1>7. Max(Peaks(y, n, n)) = Greater(0, WindowSum(y, n))
    <2>1. n \in 1..Len(y) /\ n..n = {n}
      BY <1>1
    <2>2. WindowSum(y, n) \in Nat
      BY <1>1, <2>1, WindowSumIsNatural
    <2>3. Peaks(y, n, n) = {WindowSum(y, n)}
      <3> HIDE DEF y, n
      <3> QED BY <1>1, <2>1 DEF Peaks
    <2>4. Max({WindowSum(y, n)}) = WindowSum(y, n)
      BY <2>2, IsMaximum
    <2> HIDE DEF y, n
    <2> QED BY <2>2, <2>3, <2>4 DEF Greater
  <1> HIDE DEF y, n
  <1>8. Episodes(y) = Episodes(x) \cup {n}
    <2>1. \A s \in 1..n : s \in 1 .. n - 1 \/ s = n
      BY <1>1
    <2> QED BY <1>2, <1>3, <1>4, <1>6, <2>1
  <1>9. n \notin Episodes(x) /\ \A s \in Episodes(x) : s < n
    BY <1>1, <1>3
  <1>10. IsLastEpisode(y, n)
    BY <1>1, <1>8, <1>9, <1>3 DEF IsLastEpisode
  <1>11. \A s \in Episodes(x) : Damages(y)[s] = Damages(x)[s]
    BY <1>5, <1>6, <1>8
  <1> QED BY <1>1, <1>7, <1>8, <1>9, <1>10, <1>11 DEF y, n

\* Otherwise the episodes are those there were, and only the last one, if it
\* goes on, may damage more.
LEMMA EpisodeContinued ==
    ASSUME NEW x \in Seq(Nat), NEW v \in Nat,
           ~StartsEpisode(Append(x, v), Len(x) + 1)
    PROVE  LET y == Append(x, v)
           IN  /\ Episodes(y) = Episodes(x)
               /\ \A s \in Episodes(x) :
                    /\ IsLastEpisode(y, s) <=> IsLastEpisode(x, s)
                    /\ ~IsLastEpisode(x, s) => Damages(y)[s] = Damages(x)[s]
                    /\ IsLastEpisode(x, s) =>
                         /\ Max(Peaks(y, s, Len(y)))
                              = IF v = 0 THEN Max(Peaks(x, s, Len(x)))
                                ELSE Greater(Max(Peaks(x, s, Len(x))),
                                             WindowSum(y, Len(y)))
                         /\ Damages(y)[s] >= Damages(x)[s]
                         /\ v = 0 => Damages(y)[s] = Damages(x)[s]
PROOF
  <1> DEFINE y == Append(x, v)
             n == Len(x)
  <1>1. /\ y \in Seq(Nat) /\ Len(y) = n + 1 /\ n \in Nat
        /\ \A i \in 1..n : y[i] = x[i]
    BY OneMore
  <1>2. /\ Episodes(x) \in SUBSET (1..n) /\ Episodes(y) \in SUBSET (1 .. n + 1)
        /\ \A s \in 1..n : StartsEpisode(x, s) <=> s \in Episodes(x)
        /\ \A s \in 1 .. n + 1 : StartsEpisode(y, s) <=> s \in Episodes(y)
        /\ \A s \in Episodes(y) : Damages(y)[s] = EpisodeDamage(y, s)
        /\ \A s \in Episodes(x) : Damages(x)[s] = EpisodeDamage(x, s) /\ x[s] > 0
    <2>1. /\ Episodes(y) \in SUBSET (1..Len(y))
          /\ \A s \in 1..Len(y) : StartsEpisode(y, s) <=> s \in Episodes(y)
          /\ \A s \in Episodes(y) : Damages(y)[s] = EpisodeDamage(y, s)
      BY <1>1, EpisodesAre
    <2> QED BY <1>1, <2>1, EpisodesAre
  <1>3. \A s \in 1..n : StartsEpisode(y, s) <=> StartsEpisode(x, s)
    BY StartsStays
  <1>4. Episodes(y) = Episodes(x)
    <2>1. \A s \in 1 .. n + 1 : s \in 1..n \/ s = n + 1
      BY <1>1
    <2>2. 1..n \subseteq 1 .. n + 1
      BY <1>1
    <2> HIDE DEF y, n
    <2> QED BY <1>2, <1>3, <2>1, <2>2 DEF y, n
  <1>5. ASSUME NEW s \in Episodes(x)
        PROVE  /\ IsLastEpisode(y, s) <=> IsLastEpisode(x, s)
               /\ ~IsLastEpisode(x, s) => Damages(y)[s] = Damages(x)[s]
    BY <1>2, <1>4, EpisodeDamageStays DEF IsLastEpisode
  <1>6. ASSUME NEW s \in Episodes(x), IsLastEpisode(x, s)
        PROVE  /\ Max(Peaks(y, s, n + 1))
                    = IF v = 0 THEN Max(Peaks(x, s, n))
                      ELSE Greater(Max(Peaks(x, s, n)), WindowSum(y, n + 1))
               /\ Damages(y)[s] >= Damages(x)[s]
               /\ v = 0 => Damages(y)[s] = Damages(x)[s]
    <2> DEFINE p == Max(Peaks(x, s, n))
               q == Max(Peaks(y, s, n + 1))
               w == WindowSum(y, n + 1)
    <2>1. s \in 1..Len(x) /\ x[s] > 0
      BY <1>2
    <2>2. q = IF v = 0 THEN p ELSE Greater(p, w)
      BY <2>1, <1>1, PeakExtended
    <2>3. s \in Episodes(y) /\ IsLastEpisode(y, s)
      BY <1>4, <1>5, <1>6
    <2>4. p \in Nat /\ Damages(x)[s] = Clamped(0, p - Onset, Full)
      BY <1>6, DamagesAre
    <2>5. q \in Nat /\ Damages(y)[s] = Clamped(0, q - Onset, Full)
      <3>1. /\ Damages(y)[s] = Clamped(0, Max(Peaks(y, s, Len(y))) - Onset, Full)
            /\ Max(Peaks(y, s, Len(y))) \in Nat
        BY <1>1, <2>3, DamagesAre
      <3> QED BY <1>1, <3>1
    <2>6. w \in Nat
      <3>1. n + 1 \in 1..Len(y)
        BY <1>1
      <3> QED BY <1>1, <3>1, WindowSumIsNatural
    <2> HIDE DEF p, q, w
    <2>7. q >= p
      BY <2>2, <2>4, <2>6 DEF Greater
    <2>8. Clamped(0, q - Onset, Full) >= Clamped(0, p - Onset, Full)
      BY <2>4, <2>5, <2>7, DamageAssumption DEF Clamped
    <2> QED BY <2>2, <2>4, <2>5, <2>8 DEF p, q, w
  <1> HIDE DEF y
  <1> QED BY <1>1, <1>4, <1>5, <1>6 DEF y

-----------------------------------------------------------------------------
(* What the episodes amount to, and one more of them or one that damages   *)
(* more.                                                                   *)

IsCharge(charge, E) ==
    /\ IsFiniteSet(E) /\ E \in SUBSET Nat
    /\ \A s \in E : charge[s] \in 0..Full

LEMMA SumOfCharges ==
    ASSUME NEW c, NEW E, IsCharge(c, E)
    PROVE  SumFunctionOnSet(c, E) \in Nat
PROOF
  <1>1. IsFiniteSet(E) /\ \A s \in E : c[s] \in Nat /\ c[s] = c[s]
    BY DamageAssumption DEF IsCharge
  <1> QED BY <1>1, SumsAgree

LEMMA TotalsAgree ==
    ASSUME NEW c, NEW e, NEW E, IsCharge(c, E), NEW F \in SUBSET E,
           \A s \in F : e[s] = c[s]
    PROVE  TotalDamage(e, F) = TotalDamage(c, F)
PROOF
  <1>1. IsFiniteSet(F)
    BY FS_Subset DEF IsCharge
  <1>2. \A s \in F : c[s] \in Nat /\ c[s] = e[s]
    BY DamageAssumption DEF IsCharge
  <1>3. SumFunctionOnSet(c, F) = SumFunctionOnSet(e, F)
    BY <1>1, <1>2, SumsAgree
  <1> QED BY <1>3 DEF TotalDamage

LEMMA TotalWithOneMore ==
    ASSUME NEW c, NEW e, NEW E, NEW s, s \notin E,
           IsCharge(c, E), IsCharge(e, E \cup {s}), \A m \in E : e[m] = c[m]
    PROVE  TotalDamage(e, E \cup {s}) = Clamped(0, TotalDamage(c, E) + e[s], Full)
PROOF
  <1>1. SumFunctionOnSet(c, E) \in Nat
    BY SumOfCharges
  <1>2. SumFunctionOnSet(e, E) = SumFunctionOnSet(c, E)
    <2>1. IsFiniteSet(E) /\ \A m \in E : c[m] \in Nat /\ c[m] = e[m]
      BY DamageAssumption DEF IsCharge
    <2> QED BY <2>1, SumsAgree
  <1>3. SumFunctionOnSet(e, E \cup {s}) = e[s] + SumFunctionOnSet(e, E)
    <2>1. IsFiniteSet(E) /\ \A m \in E \cup {s} : e[m] \in Nat
      BY DamageAssumption DEF IsCharge
    <2> QED BY <2>1, SumWithOneMore
  <1>4. e[s] \in Nat
    BY DamageAssumption DEF IsCharge
  <1> QED BY <1>1, <1>2, <1>3, <1>4, DamageAssumption DEF TotalDamage, Clamped

\* An episode that is not cut short by the fall of the pole.
Reportable(kind, charge, E, s) ==
    kind = "building" \/ TotalDamage(charge, { m \in E : m < s }) < Full

LEMMA ReportableAgrees ==
    ASSUME NEW kind, NEW c, NEW e, NEW E, IsCharge(c, E), NEW s \in E, NEW G,
           E \subseteq G, \A m \in G : m \in E \/ ~(m < s),
           \A m \in E : m < s => e[m] = c[m]
    PROVE  Reportable(kind, e, G, s) <=> Reportable(kind, c, E, s)
PROOF
  <1> DEFINE F == { m \in E : m < s }
  <1>1. F \in SUBSET E /\ \A m \in F : e[m] = c[m]
    OBVIOUS
  <1>2. { m \in G : m < s } = F
    OBVIOUS
  <1> HIDE DEF F
  <1>3. TotalDamage(e, F) = TotalDamage(c, F)
    BY <1>1, TotalsAgree
  <1> QED BY <1>2, <1>3 DEF Reportable, F

LEMMA ReportsOf ==
    ASSUME NEW kind, NEW c, NEW E, IsCharge(c, E)
    PROVE  /\ \A s : s \in ReportedEpisodes(kind, c, E)
                       <=> s \in E /\ c[s] > 0 /\ Reportable(kind, c, E, s)
           /\ IsFiniteSet(ReportedEpisodes(kind, c, E))
           /\ Cardinality(ReportedEpisodes(kind, c, E)) \in Nat
PROOF
  <1>1. ReportedEpisodes(kind, c, E) \in SUBSET E
    BY DEF ReportedEpisodes
  <1>2. IsFiniteSet(ReportedEpisodes(kind, c, E))
    BY <1>1, FS_Subset DEF IsCharge
  <1> QED BY <1>2, FS_CardinalityType DEF ReportedEpisodes, Reportable

AllReportable(kind, charge, E) == \A s \in E : Reportable(kind, charge, E, s)

\* Structures that stand, and those that have fallen, by what they are charged.
ChargesStand(kind, c, E) ==
    /\ AllReportable(kind, c, E)
    /\ kind = "building" \/ TotalDamage(c, E) < Full

ChargesFell(kind, c, E) == kind # "building" /\ TotalDamage(c, E) = Full

\* With the charges e of the episodes G, there are more reports than with the
\* charges c of the episodes E.
MoreReports(kind, c, E, e, G, more) ==
    /\ AllReportable(kind, e, G)
    /\ Cardinality(ReportedEpisodes(kind, e, G))
         = Cardinality(ReportedEpisodes(kind, c, E)) + more

SameReports(kind, c, E, e, G) ==
    ReportedEpisodes(kind, e, G) = ReportedEpisodes(kind, c, E)

\* The charges e are those of c, and that of a new episode s.
Begun(c, e, E, s) ==
    /\ s \in Nat /\ \A m \in E : m < s
    /\ IsCharge(c, E) /\ IsCharge(e, E \cup {s})
    /\ \A m \in E : e[m] = c[m]

LEMMA TotalBegun ==
    ASSUME NEW c, NEW e, NEW E, NEW s, Begun(c, e, E, s)
    PROVE  TotalDamage(e, E \cup {s}) = Clamped(0, TotalDamage(c, E) + e[s], Full)
PROOF
  <1>1. /\ s \in Nat /\ \A m \in E : m < s
        /\ IsCharge(c, E) /\ IsCharge(e, E \cup {s})
        /\ \A m \in E : e[m] = c[m]
    BY DEF Begun
  <1>2. s \notin E
    BY <1>1
  <1> QED BY ONLY <1>1, <1>2, TotalWithOneMore

\* A new episode is reported, unless the pole has fallen before.
LEMMA AccountBegun ==
    ASSUME NEW kind, NEW c, NEW e, NEW E, NEW s, Begun(c, e, E, s)
    PROVE  /\ ChargesStand(kind, c, E)
                => MoreReports(kind, c, E, e, E \cup {s}, IF e[s] > 0 THEN 1 ELSE 0)
           /\ ChargesFell(kind, c, E) => SameReports(kind, c, E, e, E \cup {s})
PROOF
  <1> DEFINE G == E \cup {s}
             before == ReportedEpisodes(kind, c, E)
             after == ReportedEpisodes(kind, e, G)
  <1>0. /\ s \in Nat /\ \A m \in E : m < s
        /\ IsCharge(c, E) /\ IsCharge(e, E \cup {s})
        /\ \A m \in E : e[m] = c[m]
    BY DEF Begun
  <1> USE <1>0
  <1>1. E \in SUBSET Nat /\ s \notin E
    BY <1>0 DEF IsCharge
  <1>3. ASSUME NEW r \in E
        PROVE  Reportable(kind, e, G, r) <=> Reportable(kind, c, E, r)
    <2>1. \A m \in G : m \in E \/ ~(m < r)
      BY <1>1
    <2>2. E \subseteq G /\ \A m \in E : m < r => e[m] = c[m]
      OBVIOUS
    <2> HIDE DEF G
    <2> QED BY <2>1, <2>2, ReportableAgrees
  <1>4. Reportable(kind, e, G, s) <=> kind = "building" \/ TotalDamage(c, E) < Full
    <2>1. { m \in G : m < s } = E
      <3>1. \A m \in E : m \in G /\ m < s
        OBVIOUS
      <3>2. \A m \in G : m \in E \/ ~(m < s)
        OBVIOUS
      <3> HIDE DEF G
      <3> QED BY <3>1, <3>2
    <2>2. TotalDamage(e, E) = TotalDamage(c, E)
      BY TotalsAgree
    <2> HIDE DEF G
    <2> QED BY <2>1, <2>2 DEF Reportable
  <1>5. /\ \A r : r \in before <=> r \in E /\ c[r] > 0 /\ Reportable(kind, c, E, r)
        /\ \A r : r \in after <=> r \in G /\ e[r] > 0 /\ Reportable(kind, e, G, r)
        /\ IsFiniteSet(before) /\ Cardinality(before) \in Nat
    BY ReportsOf
  <1>6. \A r : r \in G <=> r \in E \/ r = s
    OBVIOUS
  <1> HIDE DEF before, after, G
  <1>7. ASSUME AllReportable(kind, c, E), kind = "building" \/ TotalDamage(c, E) < Full
        PROVE  /\ AllReportable(kind, e, G)
               /\ Cardinality(after) = Cardinality(before) + (IF e[s] > 0 THEN 1 ELSE 0)
    <2>1. AllReportable(kind, e, G)
      BY <1>3, <1>4, <1>6, <1>7 DEF AllReportable
    <2>2. s \notin before
      BY <1>1, <1>5
    <2>3. CASE e[s] > 0
      <3>1. after = before \cup {s}
        BY <1>3, <1>4, <1>5, <1>6, <1>7, <2>3
      <3>2. Cardinality(before \cup {s}) = Cardinality(before) + 1
        BY <1>5, <2>2, FS_AddElement
      <3> QED BY <2>1, <2>3, <3>1, <3>2
    <2>4. CASE ~(e[s] > 0)
      <3>1. after = before
        BY <1>3, <1>5, <1>6, <2>4
      <3> QED BY <1>5, <2>1, <2>4, <3>1
    <2> QED BY <2>3, <2>4
  <1>8. ASSUME kind # "building", TotalDamage(c, E) = Full
        PROVE  after = before
    <2>1. ~Reportable(kind, e, G, s)
      BY <1>4, <1>8, DamageAssumption
    <2> QED BY <1>3, <1>5, <1>6, <2>1
  <1> QED BY <1>7, <1>8 DEF G, after, before, ChargesStand, MoreReports,
                            ChargesFell, SameReports

\* The charges e are those of c, but for the last episode, s, which damages
\* no less.
Raised(c, e, E, s) ==
    /\ s \in E /\ \A m \in E : m <= s
    /\ IsCharge(c, E) /\ IsCharge(e, E)
    /\ \A m \in E \ {s} : e[m] = c[m]
    /\ e[s] >= c[s]

LEMMA TotalRaised ==
    ASSUME NEW c, NEW e, NEW E, NEW s, Raised(c, e, E, s)
    PROVE  TotalDamage(e, E)
             = Clamped(0, TotalDamage(c, E) + (e[s] - c[s]), Full)
PROOF
  <1> DEFINE R == E \ {s}
  <1>0. /\ s \in E /\ IsCharge(c, E) /\ IsCharge(e, E)
        /\ \A m \in E \ {s} : e[m] = c[m]
        /\ e[s] >= c[s]
    BY DEF Raised
  <1>1. IsFiniteSet(R) /\ s \notin R /\ R \cup {s} = E
    BY <1>0, FS_RemoveElement DEF IsCharge
  <1>2. /\ \A m \in R \cup {s} : c[m] \in Nat /\ e[m] \in Nat
        /\ \A m \in R : c[m] \in Nat /\ c[m] = e[m]
    BY <1>0, DamageAssumption DEF IsCharge
  <1>3. SumFunctionOnSet(c, R) \in Nat /\ SumFunctionOnSet(c, R) = SumFunctionOnSet(e, R)
    BY <1>1, <1>2, SumsAgree
  <1>4. /\ SumFunctionOnSet(c, R \cup {s}) = c[s] + SumFunctionOnSet(c, R)
        /\ SumFunctionOnSet(e, R \cup {s}) = e[s] + SumFunctionOnSet(e, R)
    BY <1>1, <1>2, SumWithOneMore
  <1> HIDE DEF R
  <1>5. c[s] \in Nat /\ e[s] \in Nat
    BY <1>2
  <1> QED BY <1>0, <1>1, <1>3, <1>4, <1>5, DamageAssumption DEF TotalDamage, Clamped

\* An episode that damages more is reported, unless it was already or the
\* pole has fallen before it.
LEMMA AccountRaised ==
    ASSUME NEW kind, NEW c, NEW e, NEW E, NEW s, Raised(c, e, E, s)
    PROVE  /\ AllReportable(kind, c, E)
                => MoreReports(kind, c, E, e, E,
                               IF c[s] = 0 /\ e[s] > 0 THEN 1 ELSE 0)
           /\ ChargesFell(kind, c, E) => SameReports(kind, c, E, e, E)
PROOF
  <1> DEFINE before == ReportedEpisodes(kind, c, E)
             after == ReportedEpisodes(kind, e, E)
  <1>0. /\ s \in E /\ \A m \in E : m <= s
        /\ IsCharge(c, E) /\ IsCharge(e, E)
        /\ \A m \in E \ {s} : e[m] = c[m]
        /\ e[s] >= c[s]
    BY DEF Raised
  <1> USE <1>0
  <1>1. /\ E \in SUBSET Nat /\ c[s] \in 0..Full /\ e[s] \in 0..Full
        /\ c[s] \in Nat /\ e[s] \in Nat
    BY DamageAssumption DEF IsCharge
  <1>3. ASSUME NEW r \in E
        PROVE  Reportable(kind, e, E, r) <=> Reportable(kind, c, E, r)
    <2>1. \A m \in E : m < r => m # s
      BY <1>1
    <2>2. \A m \in E : m < r => e[m] = c[m]
      BY <2>1
    <2>3. E \subseteq E /\ \A m \in E : m \in E \/ ~(m < r)
      OBVIOUS
    <2> QED BY <2>2, <2>3, ReportableAgrees
  <1>4. /\ \A r : r \in before <=> r \in E /\ c[r] > 0 /\ Reportable(kind, c, E, r)
        /\ \A r : r \in after <=> r \in E /\ e[r] > 0 /\ Reportable(kind, e, E, r)
        /\ IsFiniteSet(before) /\ Cardinality(before) \in Nat
    BY ReportsOf
  <1>5. \A r \in E : r # s => e[r] = c[r]
    OBVIOUS
  <1> HIDE DEF before, after
  <1>6. ASSUME ~(c[s] = 0 /\ e[s] > 0 /\ Reportable(kind, c, E, s))
        PROVE  after = before
    <2>1. \A r \in E : e[r] > 0 /\ Reportable(kind, e, E, r)
                         <=> c[r] > 0 /\ Reportable(kind, c, E, r)
      <3>1. ASSUME NEW r \in E
            PROVE  e[r] > 0 /\ Reportable(kind, e, E, r)
                     <=> c[r] > 0 /\ Reportable(kind, c, E, r)
        <4>1. CASE r = s
          BY <1>1, <1>3, <1>6, <4>1
        <4>2. CASE r # s
          BY <1>3, <1>5, <4>2
        <4> QED BY <4>1, <4>2
      <3> QED BY <3>1
    <2> QED BY <1>4, <2>1
  <1>7. ASSUME AllReportable(kind, c, E)
        PROVE  /\ AllReportable(kind, e, E)
               /\ Cardinality(after)
                    = Cardinality(before) + (IF c[s] = 0 /\ e[s] > 0 THEN 1 ELSE 0)
    <2>1. AllReportable(kind, e, E)
      BY <1>3, <1>7 DEF AllReportable
    <2>2. CASE c[s] = 0 /\ e[s] > 0
      <3>1. s \notin before /\ Reportable(kind, c, E, s)
        BY <1>4, <1>7, <2>2 DEF AllReportable
      <3>2. after = before \cup {s}
        BY <1>3, <1>4, <1>5, <2>2, <3>1
      <3>3. Cardinality(before \cup {s}) = Cardinality(before) + 1
        BY <1>4, <3>1, FS_AddElement
      <3> QED BY <2>1, <2>2, <3>2, <3>3
    <2>3. CASE ~(c[s] = 0 /\ e[s] > 0)
      <3>1. after = before
        BY <1>6, <2>3
      <3> QED BY <1>4, <2>1, <2>3, <3>1
    <2> QED BY <2>2, <2>3
  <1>8. ASSUME kind # "building", TotalDamage(c, E) = Full
        PROVE  after = before
    <2> DEFINE F == E \ {s}
    <2>1. ASSUME c[s] = 0 PROVE ~Reportable(kind, c, E, s)
      <3>1. { m \in E : m < s } = F
        <4>1. \A m \in F : m \in E /\ m < s
          BY <1>1
        <4>2. \A m \in E : m \in F \/ ~(m < s)
          BY <1>1
        <4> HIDE DEF F
        <4> QED BY <4>1, <4>2
      <3>2. IsCharge(c, F) /\ s \notin F /\ F \cup {s} = E
        <4>1. IsFiniteSet(F)
          BY FS_RemoveElement DEF IsCharge
        <4> QED BY <4>1 DEF IsCharge
      <3> HIDE DEF F
      <3>3. IsCharge(c, F \cup {s})
        BY <3>2
      <3>4. TotalDamage(c, F \cup {s}) = Clamped(0, TotalDamage(c, F) + c[s], Full)
        BY <3>2, <3>3, TotalWithOneMore
      <3>5. TotalDamage(c, F) \in 0..Full
        BY <3>2, SumOfCharges, DamageAssumption DEF TotalDamage, Clamped
      <3>6. ~(TotalDamage(c, F) < Full)
        BY <1>8, <2>1, <3>2, <3>4, <3>5, DamageAssumption DEF Clamped
      <3> QED BY <1>8, <3>1, <3>6 DEF Reportable
    <2> QED BY <1>6, <2>1
  <1> QED BY <1>7, <1>8 DEF after, before, MoreReports, ChargesFell, SameReports

-----------------------------------------------------------------------------
(* What the ledger's impulses are, and those of one tick more.             *)

CountsUpTo(after, log) ==
    after = [ n \in 0..Len(log) |->
                IF n = 0 THEN <<>> ELSE Counting(after[n - 1], log, n) ]

LEMMA WaitingIsNatural ==
    ASSUME NEW log, IsLedger(log), NEW n \in 0..Len(log)
    PROVE  Waiting(log, n) \in Nat
PROOF
  <1>1. CASE n = 0
    BY <1>1 DEF Waiting
  <1>2. CASE n # 0
    <2>1. n \in 1..Len(log) /\ log \in Seq([enabled : BOOLEAN, impulse : Nat])
      BY <1>2 DEF IsLedger
    <2>2. log[n] \in [enabled : BOOLEAN, impulse : Nat]
      BY ONLY <2>1, ElementOfSeq
    <2> QED BY <1>2, <2>2 DEF Waiting
  <1> QED BY <1>1, <1>2

LEMMA ImpulsesAreDefined ==
    ASSUME NEW log, IsLedger(log)
    PROVE  \E after \in [0..Len(log) -> Seq(Nat)] :
             CountsUpTo(after, log) /\ Impulses(log) = after[Len(log)]
PROOF
  <1> DEFINE N == Len(log)
             V == Seq(Nat)
             step == [ p \in V \X (1..N) |-> Counting(p[1], log, p[2]) ]
  <1>1. N \in Nat
    BY DEF IsLedger
  <1>2. step \in [V \X (1..N) -> V]
    <2>1. ASSUME NEW x \in V, NEW n \in 1..N PROVE Counting(x, log, n) \in V
      <3>1. n - 1 \in 0..N
        BY <1>1
      <3>2. Waiting(log, n - 1) \in Nat
        BY <3>1, WaitingIsNatural
      <3> QED BY <3>2 DEF Counting
    <2>2. \A p \in V \X (1..N) : p[1] \in V /\ p[2] \in 1..N
      OBVIOUS
    <2> HIDE DEF V, N
    <2>3. \A p \in V \X (1..N) : Counting(p[1], log, p[2]) \in V
      BY <2>1, <2>2
    <2> QED BY <2>3
  <1>3. \A x \in V, n \in 1..N : step[<<x, n>>] = Counting(x, log, n)
    OBVIOUS
  <1>4. <<>> \in V
    OBVIOUS
  <1> HIDE DEF N, V, step
  <1>5. PICK f \in [0..N -> V] : Steps(f, <<>>, step, N)
    BY ONLY <1>1, <1>2, <1>4, StepsExist
  <1>6. ASSUME NEW n \in 0..N
        PROVE  f[n] = IF n = 0 THEN <<>> ELSE Counting(f[n - 1], log, n)
    <2>1. CASE n = 0
      BY <1>5, <2>1 DEF Steps
    <2>2. CASE n # 0
      <3>1. n \in 1..N /\ n - 1 \in 0..N
        BY <1>1, <2>2
      <3>2. f[n] = step[<<f[n - 1], n>>] /\ f[n - 1] \in V
        BY <1>5, <3>1 DEF Steps
      <3> QED BY <1>3, <2>2, <3>1, <3>2
    <2> QED BY <2>1, <2>2
  <1>7. f = [ n \in 0..N |-> IF n = 0 THEN <<>> ELSE Counting(f[n - 1], log, n) ]
    BY <1>5, <1>6
  <1> DEFINE g == CHOOSE after : after = [ n \in 0..Len(log) |->
                    IF n = 0 THEN <<>> ELSE Counting(after[n - 1], log, n) ]
  <1>8. CountsUpTo(f, log)
    BY <1>7 DEF CountsUpTo, N
  <1>9. CountsUpTo(g, log)
    BY <1>8 DEF CountsUpTo
  <1>10. Impulses(log) = g[Len(log)]
    BY DEF Impulses
  <1> HIDE DEF g
  <1>11. g[0] = <<>> /\ \A n \in 1..N : g[n] = Counting(g[n - 1], log, n)
    BY <1>1, <1>9 DEF CountsUpTo, N
  <1>12. g \in [0..N -> V]
    <2> DEFINE S == { n \in 0..N : g[n] = f[n] }
    <2>1. 0 \in S
      BY <1>1, <1>6, <1>11
    <2>2. ASSUME NEW n \in 0 .. N - 1, n \in S PROVE n + 1 \in S
      <3>1. n + 1 \in 1..N /\ (n + 1) - 1 = n /\ g[n] = f[n]
        BY <1>1, <2>2
      <3> QED BY <1>6, <1>11, <3>1
    <2>3. \A n \in S : g[n] = f[n]
      OBVIOUS
    <2> HIDE DEF S
    <2>4. \A n \in 0..N : n \in S
      BY <1>1, <2>1, <2>2, IntervalInduction
    <2>5. \A n \in 0..N : g[n] \in V
      BY <1>5, <2>3, <2>4
    <2>6. g = [ n \in 0..N |-> g[n] ]
      BY <1>9 DEF CountsUpTo, N
    <2> QED BY <2>5, <2>6
  <1> QED BY <1>9, <1>10, <1>12 DEF N, V

LEMMA LedgerAppended ==
    ASSUME NEW log, IsLedger(log), NEW entry \in [enabled : BOOLEAN, impulse : Nat]
    PROVE  /\ IsLedger(Append(log, entry))
           /\ Len(log) \in Nat /\ Len(Append(log, entry)) = Len(log) + 1
           /\ Append(log, entry)[Len(log) + 1] = entry
           /\ \A i \in 1..Len(log) : Append(log, entry)[i] = log[i]
  BY DEF IsLedger

\* A tick more counts what waits, if anybody drives in it.
LEMMA ImpulsesExtended ==
    ASSUME NEW log, IsLedger(log), NEW entry \in [enabled : BOOLEAN, impulse : Nat]
    PROVE  /\ Impulses(log) \in Seq(Nat)
           /\ Impulses(Append(log, entry))
                = IF entry.enabled THEN Append(Impulses(log), Waiting(log, Len(log)))
                                   ELSE Impulses(log)
           /\ Waiting(Append(log, entry), Len(log) + 1) = entry.impulse
PROOF
  <1> DEFINE longer == Append(log, entry)
             k == Len(log)
  <1>1. /\ k \in Nat /\ Len(longer) = k + 1 /\ longer[k + 1] = entry
        /\ \A i \in 1..k : longer[i] = log[i]
        /\ IsLedger(longer)
    BY LedgerAppended
  <1> HIDE DEF longer
  <1>2. PICK g \in [0..k -> Seq(Nat)] : CountsUpTo(g, log) /\ Impulses(log) = g[k]
    BY ImpulsesAreDefined
  <1>3. PICK h : CountsUpTo(h, longer) /\ Impulses(longer) = h[k + 1]
    BY <1>1, ImpulsesAreDefined
  <1>4. /\ g[0] = <<>> /\ \A n \in 1..k : g[n] = Counting(g[n - 1], log, n)
        /\ h[0] = <<>>
        /\ \A n \in 1 .. k + 1 : h[n] = Counting(h[n - 1], longer, n)
    <2>1. g = [ n \in 0..k |-> IF n = 0 THEN <<>> ELSE Counting(g[n - 1], log, n) ]
      BY <1>2 DEF CountsUpTo
    <2>2. h = [ n \in 0 .. k + 1 |->
                  IF n = 0 THEN <<>> ELSE Counting(h[n - 1], longer, n) ]
      BY <1>1, <1>3 DEF CountsUpTo
    <2>3. /\ 0 \in 0..k /\ 0 \in 0 .. k + 1
          /\ \A n \in 1..k : n \in 0..k /\ n # 0
          /\ \A n \in 1 .. k + 1 : n \in 0 .. k + 1 /\ n # 0
      BY <1>1
    <2> HIDE DEF k
    <2>4. g[0] = <<>> /\ \A n \in 1..k : g[n] = Counting(g[n - 1], log, n)
      BY ONLY <2>1, <2>3
    <2>5. h[0] = <<>> /\ \A n \in 1 .. k + 1 : h[n] = Counting(h[n - 1], longer, n)
      BY ONLY <2>2, <2>3
    <2> QED BY <2>4, <2>5
  <1>5. \A i \in 0..k : Waiting(longer, i) = Waiting(log, i)
    BY <1>1 DEF Waiting
  <1>6. \A x : \A n \in 1..k : Counting(x, longer, n) = Counting(x, log, n)
    <2>1. \A n \in 1..k : n - 1 \in 0..k
      BY <1>1
    <2> QED BY <1>1, <1>5, <2>1 DEF Counting
  <1> HIDE DEF k
  <1> DEFINE N == {n \in 0..k : h[n] = g[n]}
  <1>7. 0 \in N
    BY <1>1, <1>4
  <1>8. ASSUME NEW n \in 0 .. k - 1, n \in N PROVE n + 1 \in N
    <2>1. n + 1 \in 1..k /\ n + 1 \in 1 .. k + 1 /\ (n + 1) - 1 = n /\ h[n] = g[n]
      BY <1>1, <1>8
    <2> QED BY <1>1, <1>4, <1>6, <2>1
  <1>9. k \in N => h[k] = g[k]
    OBVIOUS
  <1> HIDE DEF N
  <1>10. \A n \in 0..k : n \in N
    <2>1. 0 \in Int /\ k \in Int
      BY <1>1
    <2> QED BY ONLY <2>1, <1>7, <1>8, IntervalInduction
  <1>11. h[k + 1] = Counting(g[k], longer, k + 1)
    BY <1>1, <1>4, <1>9, <1>10
  <1>12. Waiting(longer, k) = Waiting(log, k)
    BY <1>1, <1>5
  <1>13. Waiting(longer, k + 1) = entry.impulse
    BY <1>1 DEF Waiting
  <1>14. Impulses(longer) = IF entry.enabled THEN Append(Impulses(log), Waiting(log, k))
                                             ELSE Impulses(log)
    BY <1>1, <1>2, <1>3, <1>11, <1>12 DEF Counting
  <1>15. Impulses(log) \in Seq(Nat)
    BY <1>1, <1>2
  <1> QED BY <1>13, <1>14, <1>15 DEF longer, k

LEMMA NothingCounted ==
    IsLedger(<<>>) /\ Impulses(<<>>) = <<>> /\ Waiting(<<>>, 0) = 0
PROOF
  <1>1. IsLedger(<<>>) /\ Len(<<>>) = 0
    BY DEF IsLedger
  <1>2. PICK g \in [0..0 -> Seq(Nat)] : CountsUpTo(g, <<>>) /\ Impulses(<<>>) = g[0]
    BY <1>1, ImpulsesAreDefined
  <1>3. g[0] = <<>>
    BY <1>1, <1>2 DEF CountsUpTo
  <1> QED BY <1>1, <1>2, <1>3 DEF Waiting

-----------------------------------------------------------------------------
(* A structure and the impulses it has counted.                            *)

LEMMA WindowSumsUp ==
    ASSUME NEW w \in Seq(Nat), NEW x \in Seq(Nat), Len(x) >= 1, WindowHolds(w, x)
    PROVE  SumFunction(w) = WindowSum(x, Len(x))
PROOF
  <1> DEFINE l == Len(w)
             n == Len(x)
             d == n - l
  <1>1. /\ l \in Nat /\ n \in Nat /\ n >= 1 /\ l <= Window /\ l <= n
        /\ l < Window => l = n
        /\ \A i \in 1..l : w[i] \in Nat /\ x[i + d] = w[i]
        /\ DOMAIN w = 1..l
    <2>1. \A i \in 1..l : i + d = n - l + i
      OBVIOUS
    <2> QED BY <2>1 DEF WindowHolds
  <1> HIDE DEF l, n
  <1>2. 1 + d = Greater(1, n - Window + 1) /\ l + d = n
    BY <1>1, DamageAssumption DEF Greater
  <1>3. d \in Int /\ 1 \in Int /\ l \in Int /\ 1 - 1 <= l
    BY <1>1
  <1>4. \A i \in 1..l : w[i] \in Nat /\ x[i + d] = w[i]
    BY <1>1
  <1> HIDE DEF d
  <1>5. SumFunctionOnSet(w, 1..l) = SumFunctionOnSet(x, 1 + d .. l + d)
    <2>1. (1 + d) - 1 = d /\ (l + d) - (1 + d) = l - 1
      BY <1>3
    <2>2. Shifted(w, 1, l, x, 1 + d, l + d)
      BY <1>3, <1>4, <2>1 DEF Shifted
    <2> QED BY <2>2, SumShifted
  <1> QED BY <1>1, <1>2, <1>5 DEF SumFunction, WindowSum, n

LEMMA SlidIsWindow ==
    ASSUME NEW w \in Seq(Nat), NEW v \in Nat
    PROVE  Slid(w, v) \in Seq(Nat)
PROOF
  <1>1. Append(w, v) \in Seq(Nat) /\ Append(w, v) # <<>>
    BY AppendProperties
  <1>2. Tail(Append(w, v)) \in Seq(Nat)
    BY <1>1, HeadTailProperties
  <1> QED BY <1>1, <1>2 DEF Slid

LEMMA WindowSlides ==
    ASSUME NEW w \in Seq(Nat), NEW x \in Seq(Nat), NEW v \in Nat, WindowHolds(w, x)
    PROVE  /\ Slid(w, v) \in Seq(Nat)
           /\ WindowHolds(Slid(w, v), Append(x, v))
           /\ SumFunction(Slid(w, v)) = WindowSum(Append(x, v), Len(x) + 1)
           /\ SumFunction(Slid(w, v)) \in Nat
PROOF
  <1> DEFINE l == Len(w)
             n == Len(x)
             y == Append(x, v)
             u == Slid(w, v)
             k == Len(u)
  <1>1. /\ l \in Nat /\ n \in Nat /\ l <= Window /\ l <= n
        /\ l < Window => l = n
        /\ \A i \in 1..l : w[i] = x[n - l + i]
    BY DEF WindowHolds
  <1>2. /\ y \in Seq(Nat) /\ Len(y) = n + 1 /\ y[n + 1] = v
        /\ \A i \in 1..n : y[i] = x[i]
    BY OneMore
  <1> DEFINE z == Append(w, v)
  <1>3. /\ z \in Seq(Nat) /\ Len(z) = l + 1 /\ z[l + 1] = v
        /\ \A i \in 1..l : z[i] = w[i]
    OBVIOUS
  <1> HIDE DEF z, y, l, n
  <1>4. \A i \in 1 .. l + 1 : z[i] = y[(n + 1) - (l + 1) + i]
    <2>1. ASSUME NEW i \in 1 .. l + 1 PROVE z[i] = y[(n + 1) - (l + 1) + i]
      <3>1. CASE i = l + 1
        <4>1. (n + 1) - (l + 1) + i = n + 1
          BY <1>1, <3>1
        <4> QED BY <1>2, <1>3, <3>1, <4>1
      <3>2. CASE i \in 1..l
        <4>1. (n + 1) - (l + 1) + i = n - l + i /\ n - l + i \in 1..n
          BY <1>1, <3>2
        <4> QED BY <1>1, <1>2, <1>3, <3>2, <4>1
      <3> QED BY <1>1, <3>1, <3>2
    <2> QED BY <2>1
  <1>5. u = IF l + 1 > Window THEN Tail(z) ELSE z
    BY <1>3 DEF Slid, z, l
  <1>6. u \in Seq(Nat) /\ WindowHolds(u, y)
    <2>1. CASE l + 1 > Window
      <3>1. /\ u \in Seq(Nat) /\ Len(u) = l
            /\ \A i \in 1..l : u[i] = z[i + 1]
        BY <1>1, <1>3, <1>5, <2>1, HeadTailProperties
      <3>2. ASSUME NEW i \in 1..l PROVE u[i] = y[(n + 1) - l + i]
        <4>1. i + 1 \in 1 .. l + 1 /\ (n + 1) - (l + 1) + (i + 1) = (n + 1) - l + i
          BY <1>1
        <4> QED BY <1>4, <3>1, <4>1
      <3>3. l = Window
        BY <1>1, <2>1, DamageAssumption
      <3> QED BY <1>1, <1>2, <3>1, <3>2, <3>3 DEF WindowHolds
    <2>2. CASE ~(l + 1 > Window)
      <3>1. l = n /\ u = z /\ l + 1 <= Window
        BY <1>1, <1>5, <2>2, DamageAssumption
      <3>2. /\ Len(z) = l + 1 /\ Len(y) = n + 1 /\ l + 1 <= n + 1
            /\ \A i \in 1 .. l + 1 : z[i] = y[(n + 1) - (l + 1) + i]
        BY <1>1, <1>2, <1>3, <1>4
      <3>3. WindowHolds(z, y)
        BY ONLY <3>1, <3>2 DEF WindowHolds
      <3> HIDE DEF u
      <3> QED BY <1>3, <3>1, <3>3
    <2> QED BY <2>1, <2>2
  <1> HIDE DEF u
  <1>7. SumFunction(u) = WindowSum(y, n + 1)
    BY <1>1, <1>2, <1>6, WindowSumsUp
  <1>8. WindowSum(y, n + 1) \in Nat
    <2>1. n + 1 \in 1..Len(y)
      BY <1>1, <1>2
    <2> QED BY <1>2, <2>1, WindowSumIsNatural
  <1> QED BY <1>6, <1>7, <1>8 DEF u, y, n

LEMMA StaysSilent ==
    ASSUME NEW x \in Seq(Nat), NEW ticks \in Nat, SilentFor(x, ticks)
    PROVE  SilentFor(Append(x, 0), ticks + 1) /\ SilentFor(Append(x, 0), ticks)
PROOF
  <1> DEFINE n == Len(x)
             y == Append(x, 0)
  <1>1. /\ n \in Nat /\ Len(y) = n + 1 /\ y[n + 1] = 0
        /\ \A i \in 1..n : y[i] = x[i]
    BY OneMore
  <1>2. \A k \in Greater(1, n - ticks + 1) .. n : x[k] = 0
    BY DEF SilentFor
  <1> HIDE DEF n, y
  <1>3. ASSUME NEW k \in Greater(1, (n + 1) - (ticks + 1) + 1) .. n + 1 PROVE y[k] = 0
    <2>1. CASE k = n + 1
      BY <1>1, <2>1
    <2>2. CASE k # n + 1
      <3>1. k \in 1..n /\ k \in Greater(1, n - ticks + 1) .. n
        BY <1>1, <2>2 DEF Greater
      <3> QED BY <1>1, <1>2, <3>1
    <2> QED BY <2>1, <2>2
  <1>4. \A k \in Greater(1, (n + 1) - ticks + 1) .. n + 1 :
          k \in Greater(1, (n + 1) - (ticks + 1) + 1) .. n + 1
    BY <1>1 DEF Greater
  <1> QED BY <1>1, <1>3, <1>4 DEF SilentFor, y

LEMMA DamagesAreCharges ==
    ASSUME NEW x \in Seq(Nat)
    PROVE  IsCharge(Damages(x), Episodes(x))
PROOF
  <1>1. /\ IsFiniteSet(Episodes(x)) /\ Episodes(x) \in SUBSET (1..Len(x))
        /\ Len(x) \in Nat
    BY EpisodesAre
  <1>2. \A s \in Episodes(x) : Damages(x)[s] \in 0..Full
    BY DamagesAre
  <1>3. 1..Len(x) \subseteq Nat
    OBVIOUS
  <1> QED BY <1>1, <1>2, <1>3 DEF IsCharge

LEMMA AfterQuietIs ==
    ASSUME NEW d \in TargetRecord
    PROVE  LET e    == AfterQuiet(d)
               over == d.quiet + 1 >= Window
           IN  /\ e \in TargetRecord
               /\ e.kind = d.kind /\ e.damage = d.damage /\ e.events = d.events
               /\ e.disabled = d.disabled /\ e.pending = d.pending
               /\ e.window = Slid(d.window, 0)
               /\ e.quiet = IF over THEN Window ELSE d.quiet + 1
               /\ e.peak = IF over THEN 0 ELSE d.peak
               /\ e.charged = IF over THEN 0 ELSE d.charged
               /\ e.shown = (d.shown /\ ~over)
PROOF
  <1> DEFINE u == Slid(d.window, 0)
             q == Clamped(0, d.quiet + 1, Window)
             over == d.quiet + 1 >= Window
  <1>1. /\ d.window \in Seq(Nat) /\ d.quiet \in 0..Window /\ d.peak \in Nat
        /\ d.charged \in 0..Full /\ d.shown \in BOOLEAN
    BY DEF TargetRecord
  <1>2. u \in Seq(Nat)
    BY <1>1, SlidIsWindow
  <1>3. /\ q \in 0..Window /\ q = IF over THEN Window ELSE d.quiet + 1
        /\ over <=> q = Window
    BY <1>1, DamageAssumption DEF Clamped
  <1>4. AfterQuiet(d) = [ d EXCEPT !.window = u, !.quiet = q,
                            !.peak = IF q = Window THEN 0 ELSE d.peak,
                            !.charged = IF q = Window THEN 0 ELSE d.charged,
                            !.shown = d.shown /\ ~(q = Window) ]
    BY DEF AfterQuiet, TargetRecord
  <1> HIDE DEF u, q, over
  <1> DEFINE p == IF q = Window THEN 0 ELSE d.peak
             c == IF q = Window THEN 0 ELSE d.charged
             h == d.shown /\ ~(q = Window)
  <1>5. p \in Nat /\ c \in 0..Full /\ h \in BOOLEAN
    BY <1>1, DamageAssumption
  <1>6. AfterQuiet(d) = [ d EXCEPT !.window = u, !.quiet = q, !.peak = p,
                                   !.charged = c, !.shown = h ]
    BY <1>4
  <1> HIDE DEF p, c, h
  <1>7. AfterQuiet(d) \in TargetRecord
    BY <1>2, <1>3, <1>5, <1>6 DEF TargetRecord
  <1>8. LET e == AfterQuiet(d)
        IN  /\ e.kind = d.kind /\ e.damage = d.damage /\ e.events = d.events
            /\ e.disabled = d.disabled /\ e.pending = d.pending
            /\ e.window = u /\ e.quiet = q /\ e.peak = p /\ e.charged = c
            /\ e.shown = h
    BY <1>6 DEF TargetRecord
  <1> QED BY <1>3, <1>7, <1>8 DEF p, c, h, over, u

PeakAfter(d) == Greater(d.peak, SumFunction(Slid(d.window, d.pending)))

ChargeAfter(d) == Clamped(0, PeakAfter(d) - Onset, Full)

LEMMA AfterImpulseIs ==
    ASSUME NEW d \in TargetRecord, SumFunction(Slid(d.window, d.pending)) \in Nat
    PROVE  LET e       == AfterImpulse(d)
               added   == ChargeAfter(d) - d.charged
               damages == added > 0 /\ (d.kind = "pole" => d.damage < Full)
           IN  /\ e \in TargetRecord
               /\ PeakAfter(d) \in Nat /\ ChargeAfter(d) \in 0..Full
               /\ e.kind = d.kind /\ e.pending = 0
               /\ e.window = Slid(d.window, d.pending)
               /\ e.quiet = 0 /\ e.peak = PeakAfter(d)
               /\ e.charged = ChargeAfter(d)
               /\ e.damage = IF damages THEN Clamped(0, d.damage + added, Full)
                                        ELSE d.damage
               /\ e.events = IF damages /\ ~d.shown THEN d.events + 1 ELSE d.events
               /\ e.shown = (d.shown \/ damages)
               /\ e.disabled = (d.disabled \/ (damages /\ d.kind = "pole"
                                               /\ e.damage = Full))
PROOF
  <1> DEFINE u == Slid(d.window, d.pending)
             p == PeakAfter(d)
             c == ChargeAfter(d)
             added == c - d.charged
             damages == added > 0 /\ (d.kind = "pole" => d.damage < Full)
             g == IF damages THEN Clamped(0, d.damage + added, Full) ELSE d.damage
             v == IF damages /\ ~d.shown THEN d.events + 1 ELSE d.events
             h == d.shown \/ damages
             falls == damages /\ d.kind = "pole" /\ g = Full
             x == d.disabled \/ falls
             r == d.released \/ falls
  <1>1. /\ d.window \in Seq(Nat) /\ d.peak \in Nat /\ d.pending \in Nat
        /\ d.charged \in 0..Full /\ d.shown \in BOOLEAN /\ d.damage \in 0..Full
        /\ d.events \in Nat /\ d.disabled \in BOOLEAN /\ d.released \in BOOLEAN
    BY DEF TargetRecord
  <1>2. u \in Seq(Nat)
    BY <1>1, SlidIsWindow
  <1>3. p \in Nat
    BY <1>1 DEF PeakAfter, Greater
  <1>4. c \in 0..Full
    BY <1>3, DamageAssumption DEF ChargeAfter, Clamped
  <1>5. AfterImpulse(d) = [ d EXCEPT !.window = u, !.pending = 0, !.quiet = 0,
                              !.peak = p, !.charged = c, !.damage = g,
                              !.events = v, !.shown = h, !.disabled = x,
                              !.released = r ]
    BY DEF AfterImpulse, TargetRecord, PeakAfter, ChargeAfter
  <1> HIDE DEF p, c, u
  <1>6. /\ g \in 0..Full /\ v \in Nat /\ h \in BOOLEAN
        /\ x \in BOOLEAN /\ r \in BOOLEAN
    BY <1>1, <1>4, DamageAssumption DEF Clamped
  <1> HIDE DEF g, v, h, x, r
  <1>7. AfterImpulse(d) \in TargetRecord
    <2>1. AfterImpulse(d)
            = [ kind |-> d.kind, damage |-> g, events |-> v, disabled |-> x,
                released |-> r, pending |-> 0, window |-> u, quiet |-> 0,
                peak |-> p, charged |-> c, shown |-> h ]
      BY <1>5 DEF TargetRecord
    <2>2. d.kind \in {"pole", "building"} /\ 0 \in Nat /\ 0 \in 0..Window
      BY DamageAssumption DEF TargetRecord
    <2> QED BY ONLY <1>2, <1>3, <1>4, <1>6, <2>1, <2>2 DEF TargetRecord
  <1>8. LET e == AfterImpulse(d)
        IN  /\ e.kind = d.kind /\ e.pending = 0 /\ e.window = u /\ e.quiet = 0
            /\ e.peak = p /\ e.charged = c /\ e.damage = g /\ e.events = v
            /\ e.shown = h /\ e.disabled = x
    BY <1>5 DEF TargetRecord
  <1> QED BY <1>3, <1>4, <1>7, <1>8 DEF p, c, u, g, v, h, x

-----------------------------------------------------------------------------
(* A tick counts an impulse.                                               *)

\* Damage and events of the structure are those of the impulses x.
Accounted(d, x) ==
    /\ d.damage = TotalDamage(Damages(x), Episodes(x))
    /\ d.events = Cardinality(ReportedEpisodes(d.kind, Damages(x), Episodes(x)))

\* And so is what it knows of the window and of the episode that goes on.
InStep(d, x) ==
    /\ WindowHolds(d.window, x)
    /\ Closed(d, x) \/ Open(d, x)
    /\ AllReportable(d.kind, Damages(x), Episodes(x))

Fallen(d) == d.kind = "pole" /\ d.damage = Full

\* An episode that goes on keeps another one from being started.
LEMMA OpenContinues ==
    ASSUME NEW d \in TargetRecord, NEW x \in Seq(Nat), NEW v \in Nat, Open(d, x)
    PROVE  ~StartsEpisode(Append(x, v), Len(x) + 1)
PROOF
  <1> DEFINE n == Len(x)
             y == Append(x, v)
             k == n - d.quiet
  <1>1. /\ n \in Nat /\ \A i \in 1..n : y[i] = x[i]
    BY OneMore
  <1>2. d.quiet \in Nat /\ d.quiet < Window /\ k >= 1 /\ x[k] > 0
    BY DamageAssumption DEF Open, TargetRecord
  <1> HIDE DEF y, n
  <1>3. k \in 1..n /\ k \in Greater(1, (n + 1) - Window) .. (n + 1) - 1
    BY <1>1, <1>2, DamageAssumption DEF Greater
  <1>4. y[k] > 0 /\ ~(0 > 0)
    BY <1>1, <1>2, <1>3
  <1>5. y[k] # 0
    BY <1>4
  <1> QED BY <1>3, <1>5 DEF StartsEpisode, y, n

LEMMA QuietCounted ==
    ASSUME NEW d \in TargetRecord, NEW x \in Seq(Nat), InStep(d, x), Accounted(d, x)
    PROVE  InStep(AfterQuiet(d), Append(x, 0)) /\ Accounted(AfterQuiet(d), Append(x, 0))
PROOF
  <1> DEFINE n == Len(x)
             y == Append(x, 0)
             e == AfterQuiet(d)
             over == d.quiet + 1 >= Window
  <1>1. /\ n \in Nat /\ Len(y) = n + 1 /\ y[n + 1] = 0 /\ y \in Seq(Nat)
        /\ \A i \in 1..n : y[i] = x[i]
    BY OneMore
  <1>2. /\ e.kind = d.kind /\ e.damage = d.damage /\ e.events = d.events
        /\ e.window = Slid(d.window, 0)
        /\ e.quiet = IF over THEN Window ELSE d.quiet + 1
        /\ e.peak = IF over THEN 0 ELSE d.peak
        /\ e.charged = IF over THEN 0 ELSE d.charged
        /\ e.shown = (d.shown /\ ~over)
    BY AfterQuietIs
  <1>3. ~StartsEpisode(y, n + 1)
    <2>1. ~(y[n + 1] > 0)
      BY <1>1
    <2> QED BY <2>1 DEF StartsEpisode
  <1>4. /\ Episodes(y) = Episodes(x)
        /\ \A s \in Episodes(x) :
             /\ IsLastEpisode(y, s) <=> IsLastEpisode(x, s)
             /\ ~IsLastEpisode(x, s) => Damages(y)[s] = Damages(x)[s]
             /\ IsLastEpisode(x, s) =>
                  /\ Max(Peaks(y, s, Len(y))) = Max(Peaks(x, s, n))
                  /\ Damages(y)[s] = Damages(x)[s]
    BY <1>3, EpisodeContinued
  <1>5. Damages(y) = Damages(x)
    <2>1. \A s \in Episodes(x) : Damages(y)[s] = Damages(x)[s]
      BY <1>4
    <2>2. /\ \A s \in Episodes(y) : Damages(y)[s] = EpisodeDamage(y, s)
          /\ \A s \in Episodes(x) : Damages(x)[s] = EpisodeDamage(x, s)
      BY <1>1, EpisodesAre
    <2> HIDE DEF y
    <2>3. \A s \in Episodes(x) : EpisodeDamage(y, s) = EpisodeDamage(x, s)
      BY <1>4, <2>1, <2>2
    <2> QED BY <1>4, <2>3 DEF Damages
  <1>6. WindowHolds(e.window, y)
    <2>1. d.window \in Seq(Nat) /\ WindowHolds(d.window, x)
      BY DEF InStep, TargetRecord
    <2>2. WindowHolds(Slid(d.window, 0), y)
      BY <2>1, WindowSlides
    <2> QED BY <1>2, <2>2
  <1>7. d.quiet \in Nat /\ d.quiet <= Window
    BY DamageAssumption DEF TargetRecord
  <1> HIDE DEF n, y, e, over
  <1>8. Closed(e, y) \/ Open(e, y)
    <2>1. CASE Closed(d, x)
      <3>1. d.quiet = Window /\ SilentFor(x, Window)
        BY <2>1 DEF Closed
      <3>2. over
        BY <3>1, DamageAssumption DEF over
      <3>3. SilentFor(y, Window)
        BY <3>1, StaysSilent, DamageAssumption DEF y
      <3> QED BY <1>2, <3>2, <3>3 DEF Closed
    <2>2. CASE Open(d, x)
      <3>1. /\ d.quiet < Window /\ n - d.quiet >= 1 /\ x[n - d.quiet] > 0
            /\ SilentFor(x, d.quiet)
            /\ d.shown <=> d.charged > 0
        BY <2>2 DEF Open, n
      <3>2. PICK s \in Episodes(x) : /\ IsLastEpisode(x, s)
                                     /\ d.peak = Max(Peaks(x, s, n))
                                     /\ d.charged = Damages(x)[s]
        BY <2>2 DEF Open, n
      <3>3. SilentFor(y, d.quiet + 1)
        BY <1>7, <3>1, StaysSilent DEF y
      <3>4. CASE over
        <4>1. d.quiet + 1 = Window
          BY <1>7, <3>1, <3>4, DamageAssumption DEF over
        <4> QED BY <1>2, <3>3, <3>4, <4>1 DEF Closed
      <3>5. CASE ~over
        <4>1. /\ e.quiet = d.quiet + 1 /\ e.quiet < Window /\ e.peak = d.peak
              /\ e.charged = d.charged /\ (e.shown <=> d.shown)
          <5>1. d.quiet + 1 < Window
            BY <1>7, <3>5, DamageAssumption DEF over
          <5>2. e.quiet = d.quiet + 1 /\ e.peak = d.peak /\ e.charged = d.charged
            BY <1>2, <3>5
          <5>3. e.shown <=> d.shown
            BY <1>2, <3>5, Zenon
          <5> QED BY <5>1, <5>2, <5>3
        <4>2. (n + 1) - (d.quiet + 1) = n - d.quiet /\ n - d.quiet \in 1..n
          <5>1. n \in Nat /\ d.quiet \in Nat /\ n - d.quiet >= 1
            BY <1>1, <1>7, <3>1
          <5> QED BY ONLY <5>1
        <4>3. Len(y) - e.quiet >= 1 /\ y[Len(y) - e.quiet] > 0
          BY <1>1, <3>1, <4>1, <4>2
        <4>4. /\ s \in Episodes(y) /\ IsLastEpisode(y, s)
              /\ e.peak = Max(Peaks(y, s, Len(y))) /\ e.charged = Damages(y)[s]
          BY <1>4, <3>2, <4>1
        <4> QED BY <3>1, <3>3, <4>1, <4>3, <4>4 DEF Open
      <3> QED BY <3>4, <3>5
    <2> QED BY <2>1, <2>2 DEF InStep
  <1>9. AllReportable(e.kind, Damages(y), Episodes(y))
    BY <1>2, <1>4, <1>5 DEF InStep
  <1>10. Accounted(e, y)
    BY <1>2, <1>4, <1>5 DEF Accounted
  <1> QED BY <1>6, <1>8, <1>9, <1>10 DEF InStep, e, y

\* Whatever episode an impulse belongs to, the structure's peak and charge are
\* those of that episode, which is the last one; damage and events grow by
\* what it damages more.
LEMMA ImpulseCounted ==
    ASSUME NEW d \in TargetRecord, NEW x \in Seq(Nat), InStep(d, x), Accounted(d, x),
           d.pending > 0, ~Fallen(d), ~d.disabled
    PROVE  LET e == AfterImpulse(d)
               y == Append(x, d.pending)
           IN  /\ InStep(e, y) /\ Accounted(e, y)
               /\ e.disabled <=> Fallen(e)
PROOF
  <1> DEFINE n == Len(x)
             v == d.pending
             y == Append(x, v)
             e == AfterImpulse(d)
             p == PeakAfter(d)
             c == ChargeAfter(d)
             added == c - d.charged
             damages == added > 0 /\ (d.kind = "pole" => d.damage < Full)
  <1>0. /\ v \in Nat /\ d.window \in Seq(Nat) /\ d.kind \in {"pole", "building"}
        /\ d.damage \in 0..Full /\ d.charged \in 0..Full /\ d.shown \in BOOLEAN
        /\ d.events \in Nat /\ d.peak \in Nat
    BY DEF TargetRecord
  <1>1. /\ n \in Nat /\ Len(y) = n + 1 /\ y[n + 1] = v /\ y \in Seq(Nat)
        /\ \A i \in 1..n : y[i] = x[i]
    BY <1>0, OneMore
  <1>2. /\ WindowHolds(Slid(d.window, v), y)
        /\ SumFunction(Slid(d.window, v)) = WindowSum(y, n + 1)
        /\ SumFunction(Slid(d.window, v)) \in Nat
    BY <1>0, WindowSlides DEF InStep
  <1>3. /\ p \in Nat /\ c \in 0..Full
        /\ e.kind = d.kind /\ e.window = Slid(d.window, v)
        /\ e.quiet = 0 /\ e.peak = p /\ e.charged = c
        /\ e.damage = IF damages THEN Clamped(0, d.damage + added, Full)
                                 ELSE d.damage
        /\ e.events = IF damages /\ ~d.shown THEN d.events + 1 ELSE d.events
        /\ e.shown = (d.shown \/ damages)
        /\ e.disabled = (d.disabled \/ (damages /\ d.kind = "pole" /\ e.damage = Full))
    BY <1>2, AfterImpulseIs
  <1>4. p = Greater(d.peak, WindowSum(y, n + 1)) /\ c = Clamped(0, p - Onset, Full)
    BY <1>2 DEF PeakAfter, ChargeAfter
  <1>5. damages <=> added > 0
    <2>1. d.kind = "pole" => d.damage < Full
      BY <1>0, DamageAssumption DEF Fallen
    <2> QED BY <2>1
  <1> DEFINE E == Episodes(x)
             G == Episodes(y)
  <1>6. /\ IsCharge(Damages(x), E) /\ IsCharge(Damages(y), G)
        /\ AllReportable(d.kind, Damages(x), E)
        /\ d.damage = TotalDamage(Damages(x), E)
        /\ d.events = Cardinality(ReportedEpisodes(d.kind, Damages(x), E))
    BY <1>1, DamagesAreCharges DEF InStep, Accounted
  <1>7. d.kind = "building" \/ TotalDamage(Damages(x), E) < Full
    BY <1>0, <1>6, DamageAssumption DEF Fallen
  <1> HIDE DEF n, y, e, p, c, E, G
  \* The impulse counts in the last episode.
  <1>8. /\ \E s \in G : /\ IsLastEpisode(y, s)
                        /\ p = Max(Peaks(y, s, Len(y))) /\ c = Damages(y)[s]
        /\ added >= 0 /\ (d.shown <=> d.charged > 0)
        /\ AllReportable(d.kind, Damages(y), G)
        /\ TotalDamage(Damages(y), G) = Clamped(0, d.damage + added, Full)
        /\ Cardinality(ReportedEpisodes(d.kind, Damages(y), G))
             = d.events + (IF d.charged = 0 /\ c > 0 THEN 1 ELSE 0)
    <2>1. CASE Closed(d, x)
      <3>1. d.peak = 0 /\ d.charged = 0 /\ ~d.shown /\ SilentFor(x, Window)
        BY <2>1 DEF Closed
      <3>s. PICK s : s = n + 1
        OBVIOUS
      <3>2. /\ s \notin E /\ \A m \in E : m < s
            /\ G = E \cup {s}
            /\ IsLastEpisode(y, s)
            /\ \A m \in E : Damages(y)[m] = Damages(x)[m]
            /\ Max(Peaks(y, s, Len(y))) = Greater(0, WindowSum(y, s))
        BY <1>0, <3>1, <3>s, EpisodeBegun DEF n, y, E, G
      <3>3. p = Max(Peaks(y, s, Len(y)))
        BY <1>4, <3>s, <3>1, <3>2
      <3>4. s \in G
        BY <3>2
      <3>5. Damages(y)[s] = Clamped(0, Max(Peaks(y, s, Len(y))) - Onset, Full)
        BY <1>1, <3>2, <3>4, DamagesAre DEF G
      <3>6. c = Damages(y)[s]
        BY <1>4, <3>3, <3>5
      <3>8. /\ IsCharge(Damages(x), E) /\ IsCharge(Damages(y), E \cup {s})
            /\ \A m \in E : m < s /\ Damages(y)[m] = Damages(x)[m]
        BY <1>6, <3>2
      <3>b. Begun(Damages(x), Damages(y), E, s)
        BY <1>1, <3>s, <3>8 DEF Begun
      <3>t. TotalDamage(Damages(y), E \cup {s})
              = Clamped(0, TotalDamage(Damages(x), E) + Damages(y)[s], Full)
        BY ONLY <3>b, TotalBegun
      <3>9. MoreReports(d.kind, Damages(x), E, Damages(y), E \cup {s},
                        IF Damages(y)[s] > 0 THEN 1 ELSE 0)
        <4>1. ChargesStand(d.kind, Damages(x), E)
          BY <1>6, <1>7 DEF ChargesStand
        <4> QED BY ONLY <4>1, <3>b, AccountBegun
      <3>10. added = c /\ added >= 0
        BY <1>3, <3>1, DamageAssumption
      <3>11. ~(d.charged > 0)
        BY <3>1
      <3> QED BY <1>6, <1>7, <3>1, <3>2, <3>3, <3>4, <3>6, <3>9, <3>t, <3>10, <3>11
                  DEF MoreReports
    <2>2. CASE Open(d, x)
      <3>1. d.shown <=> d.charged > 0
        BY <2>2 DEF Open
      <3>2. PICK s \in E : /\ IsLastEpisode(x, s)
                           /\ d.peak = Max(Peaks(x, s, n))
                           /\ d.charged = Damages(x)[s]
        BY <2>2 DEF Open, n, E
      <3>3. ~StartsEpisode(y, n + 1)
        BY <1>0, <2>2, OpenContinues DEF y, n
      <3>4. /\ G = E
            /\ \A m \in E :
                 /\ IsLastEpisode(y, m) <=> IsLastEpisode(x, m)
                 /\ ~IsLastEpisode(x, m) => Damages(y)[m] = Damages(x)[m]
                 /\ IsLastEpisode(x, m) =>
                      /\ Max(Peaks(y, m, Len(y)))
                           = IF v = 0 THEN Max(Peaks(x, m, n))
                             ELSE Greater(Max(Peaks(x, m, n)), WindowSum(y, Len(y)))
                      /\ Damages(y)[m] >= Damages(x)[m]
        BY <1>0, <3>3, EpisodeContinued DEF y, n, E, G
      <3>5. p = Max(Peaks(y, s, Len(y)))
        BY <1>1, <1>4, <3>2, <3>4
      <3>6. s \in G /\ IsLastEpisode(y, s) /\ Damages(y)[s] >= Damages(x)[s]
        BY <3>2, <3>4
      <3>7. Damages(y)[s] = Clamped(0, Max(Peaks(y, s, Len(y))) - Onset, Full)
        BY <1>1, <3>6, DamagesAre DEF G
      <3>8. c = Damages(y)[s]
        BY <1>4, <3>5, <3>7
      <3>9. /\ \A m \in E : m <= s
            /\ \A m \in E \ {s} : ~IsLastEpisode(x, m)
        <4>1. \A m \in E : m <= s /\ m \in Nat
          BY <1>6, <3>2 DEF IsLastEpisode, E, IsCharge
        <4>2. s \in Nat
          BY <4>1
        <4> QED BY <3>2, <4>1, <4>2 DEF IsLastEpisode, E
      <3>10. /\ IsCharge(Damages(x), E) /\ IsCharge(Damages(y), E)
             /\ \A m \in E \ {s} : Damages(y)[m] = Damages(x)[m]
        BY <1>6, <3>4, <3>9
      <3>r. Raised(Damages(x), Damages(y), E, s)
        BY <3>2, <3>6, <3>9, <3>10 DEF Raised
      <3>t. TotalDamage(Damages(y), E)
              = Clamped(0, TotalDamage(Damages(x), E)
                             + (Damages(y)[s] - Damages(x)[s]), Full)
        BY ONLY <3>r, TotalRaised
      <3>11. MoreReports(d.kind, Damages(x), E, Damages(y), E,
                         IF Damages(x)[s] = 0 /\ Damages(y)[s] > 0 THEN 1 ELSE 0)
        BY ONLY <1>6, <3>r, AccountRaised
      <3>12. added = Damages(y)[s] - Damages(x)[s] /\ added >= 0
        BY <1>0, <1>3, <3>2, <3>6, <3>8, DamageAssumption
      <3> QED BY <1>6, <3>1, <3>2, <3>4, <3>5, <3>6, <3>8, <3>t, <3>11, <3>12
                  DEF MoreReports
    <2> QED BY <2>1, <2>2 DEF InStep
  <1>9. Accounted(e, y)
    <2>1. e.damage = Clamped(0, d.damage + added, Full)
      BY <1>0, <1>3, <1>5, <1>8, DamageAssumption DEF Clamped
    <2>2. d.charged = 0 /\ c > 0 <=> damages /\ ~d.shown
      BY <1>0, <1>3, <1>5, <1>8, DamageAssumption
    <2>3. e.events = d.events + (IF d.charged = 0 /\ c > 0 THEN 1 ELSE 0)
      BY <1>0, <1>3, <2>2
    <2> QED BY <1>3, <1>8, <2>1, <2>3 DEF Accounted, G
  <1>10. Open(e, y)
    <2>1. e.shown <=> e.charged > 0
      <3>1. d.shown \/ damages <=> c > 0
        BY <1>0, <1>3, <1>5, <1>8, DamageAssumption
      <3>2. e.charged = c /\ (e.shown <=> d.shown \/ damages)
        BY <1>3
      <3> QED BY <3>1, <3>2
    <2>2. /\ e.quiet < Window /\ Len(y) - e.quiet >= 1 /\ y[Len(y) - e.quiet] > 0
      BY <1>1, <1>3, DamageAssumption
    <2>3. SilentFor(y, e.quiet)
      <3>1. Greater(1, Len(y) - 0 + 1) > Len(y) /\ Len(y) \in Nat
        BY <1>1 DEF Greater
      <3> QED BY <1>3, <3>1 DEF SilentFor, Greater
    <2> QED BY <1>3, <1>8, <2>1, <2>2, <2>3 DEF Open, G
  <1>11. e.disabled <=> Fallen(e)
    <2>1. CASE damages
      BY <1>3, <2>1 DEF Fallen
    <2>2. CASE ~damages
      BY <1>3, <2>2 DEF Fallen
    <2> QED BY <2>1, <2>2
  <1>12. InStep(e, y)
    BY <1>2, <1>3, <1>8, <1>10 DEF InStep, G
  <1> QED BY <1>9, <1>11, <1>12 DEF e, y

\* A pole that fell has all the damage there is, and reports nothing more.
LEMMA FallenStays ==
    ASSUME NEW d \in TargetRecord, NEW e, NEW x \in Seq(Nat), NEW v \in Nat,
           Fallen(d), Accounted(d, x),
           e.kind = d.kind, e.damage = d.damage, e.events = d.events
    PROVE  Accounted(e, Append(x, v))
PROOF
  <1> DEFINE n == Len(x)
             y == Append(x, v)
             E == Episodes(x)
             G == Episodes(y)
  <1>1. /\ n \in Nat /\ y \in Seq(Nat) /\ Len(y) = n + 1 /\ y[n + 1] = v
        /\ \A i \in 1..n : y[i] = x[i]
    BY OneMore
  <1>2. /\ IsCharge(Damages(x), E) /\ IsCharge(Damages(y), G)
        /\ Full = TotalDamage(Damages(x), E)
        /\ d.events = Cardinality(ReportedEpisodes(d.kind, Damages(x), E))
    BY <1>1, DamagesAreCharges DEF Accounted, Fallen
  <1>3. ChargesFell(d.kind, Damages(x), E)
    BY <1>2 DEF ChargesFell, Fallen
  <1> HIDE DEF n, y, E, G
  <1>4. /\ TotalDamage(Damages(y), G) = Full
        /\ SameReports(d.kind, Damages(x), E, Damages(y), G)
    <2>1. CASE StartsEpisode(y, n + 1)
      <3>1. v > 0 /\ SilentFor(x, Window)
        <4>1. /\ y[n + 1] > 0
              /\ \A k \in Greater(1, (n + 1) - Window) .. (n + 1) - 1 : y[k] = 0
          BY <2>1 DEF StartsEpisode
        <4>2. ASSUME NEW k \in Greater(1, n - Window + 1) .. n PROVE x[k] = 0
          <5>1. k \in Greater(1, (n + 1) - Window) .. (n + 1) - 1 /\ k \in 1..n
            BY <1>1, DamageAssumption DEF Greater
          <5> QED BY <1>1, <4>1, <5>1
        <4> QED BY <1>1, <4>1, <4>2 DEF SilentFor, n
      <3>2. PICK s : s = n + 1
        OBVIOUS
      <3>3. /\ s \notin E /\ \A m \in E : m < s
            /\ G = E \cup {s}
            /\ \A m \in E : Damages(y)[m] = Damages(x)[m]
        BY <3>1, <3>2, EpisodeBegun DEF n, y, E, G
      <3>4. Begun(Damages(x), Damages(y), E, s)
        BY <1>1, <1>2, <3>2, <3>3 DEF Begun
      <3>5. TotalDamage(Damages(y), E \cup {s})
              = Clamped(0, TotalDamage(Damages(x), E) + Damages(y)[s], Full)
        BY ONLY <3>4, TotalBegun
      <3>6. SameReports(d.kind, Damages(x), E, Damages(y), E \cup {s})
        BY ONLY <1>3, <3>4, AccountBegun
      <3>7. Damages(y)[s] \in 0..Full
        BY <1>2, <3>3 DEF IsCharge
      <3>8. Clamped(0, Full + Damages(y)[s], Full) = Full
        BY <3>7, DamageAssumption DEF Clamped
      <3> QED BY <1>2, <3>3, <3>5, <3>6, <3>8
    <2>2. CASE ~StartsEpisode(y, n + 1)
      <3>1. E # {}
        <4>1. ASSUME E = {} PROVE FALSE
          <5>1. SumFunctionOnSet(Damages(x), {}) = 0
            BY SumTakesAny, FS_EmptySet
          <5>2. TotalDamage(Damages(x), {}) = 0
            BY <5>1, DamageAssumption DEF TotalDamage, Clamped
          <5> QED BY <1>2, <4>1, <5>2, DamageAssumption
        <4> QED BY <4>1
      <3>2. PICK s \in E : \A m \in E : m <= s
        <4>1. E \in SUBSET Nat
          BY <1>2 DEF IsCharge
        <4>2. \A m \in E : m <= n
          <5>1. E \in SUBSET (1..n)
            BY EpisodesAre DEF E, n
          <5> QED BY <1>1, <5>1
        <4> QED BY <1>1, <3>1, <4>1, <4>2, GreatestOfNaturals
      <3>3. /\ G = E
            /\ \A m \in E : /\ ~IsLastEpisode(x, m) => Damages(y)[m] = Damages(x)[m]
                            /\ IsLastEpisode(x, m) => Damages(y)[m] >= Damages(x)[m]
        BY <2>2, EpisodeContinued DEF y, n, E, G
      <3>4. IsLastEpisode(x, s) /\ \A m \in E \ {s} : ~IsLastEpisode(x, m)
        <4>1. E \in SUBSET Nat
          BY <1>2 DEF IsCharge
        <4> QED BY <3>2, <4>1 DEF IsLastEpisode, E
      <3>5. Raised(Damages(x), Damages(y), E, s)
        BY <1>2, <3>2, <3>3, <3>4 DEF Raised
      <3>6. TotalDamage(Damages(y), E)
              = Clamped(0, TotalDamage(Damages(x), E)
                             + (Damages(y)[s] - Damages(x)[s]), Full)
        BY ONLY <3>5, TotalRaised
      <3>7. SameReports(d.kind, Damages(x), E, Damages(y), E)
        BY ONLY <1>3, <3>5, AccountRaised
      <3>8. /\ Damages(y)[s] \in 0..Full /\ Damages(x)[s] \in 0..Full
            /\ Damages(y)[s] >= Damages(x)[s]
        BY <1>2, <3>2, <3>3, <3>4 DEF IsCharge
      <3>9. Clamped(0, Full + (Damages(y)[s] - Damages(x)[s]), Full) = Full
        BY <3>8, DamageAssumption DEF Clamped
      <3> QED BY <1>2, <3>3, <3>6, <3>7, <3>9
    <2> QED BY <2>1, <2>2
  <1>5. Full = d.damage
    BY DEF Fallen
  <1> QED BY <1>2, <1>4, <1>5 DEF Accounted, SameReports, y, G

-----------------------------------------------------------------------------
(* The structure and its ledger.                                           *)

StructureInv(d, log) ==
    /\ d \in TargetRecord /\ IsLedger(log)
    /\ Accounted(d, Impulses(log))
    /\ d.disabled <=> Fallen(d)
    /\ d.disabled => d.pending = 0
    /\ ~d.disabled => /\ d.pending = Waiting(log, Len(log))
                      /\ InStep(d, Impulses(log))

LEMMA IntactIsInStep ==
    ASSUME NEW kind \in {"pole", "building"}
    PROVE  StructureInv(Intact(kind), <<>>)
PROOF
  <1> DEFINE d == Intact(kind)
             x == <<>>
  <1>1. /\ d \in TargetRecord /\ d.kind = kind /\ d.damage = 0 /\ d.events = 0
        /\ d.disabled = FALSE /\ d.pending = 0 /\ d.window = <<>>
        /\ d.quiet = Window /\ d.peak = 0 /\ d.charged = 0 /\ d.shown = FALSE
    BY DamageAssumption DEF Intact, TargetRecord
  <1>2. IsLedger(<<>>) /\ Impulses(<<>>) = <<>> /\ Waiting(<<>>, 0) = 0
    BY NothingCounted
  <1>3. Episodes(<<>>) = {} /\ Len(<<>>) = 0
    BY DEF Episodes
  <1> HIDE DEF d
  <1>4. Accounted(d, <<>>)
    <2>1. SumFunctionOnSet(Damages(<<>>), {}) = 0
      BY SumTakesAny, FS_EmptySet
    <2>2. TotalDamage(Damages(<<>>), {}) = 0
      BY <2>1, DamageAssumption DEF TotalDamage, Clamped
    <2>3. ReportedEpisodes(kind, Damages(<<>>), {}) = {}
      BY DEF ReportedEpisodes
    <2>4. Cardinality({}) = 0
      BY FS_EmptySet
    <2> QED BY <1>1, <1>3, <2>2, <2>3, <2>4 DEF Accounted
  <1>5. InStep(d, <<>>)
    <2>1. SilentFor(<<>>, Window)
      BY <1>3, DamageAssumption DEF SilentFor, Greater
    <2>2. Closed(d, <<>>)
      BY <1>1, <2>1 DEF Closed
    <2>3. WindowHolds(<<>>, <<>>)
      BY <1>3, DamageAssumption DEF WindowHolds
    <2> QED BY <1>1, <1>3, <2>2, <2>3 DEF InStep, AllReportable
  <1>6. ~Fallen(d)
    BY <1>1, DamageAssumption DEF Fallen
  <1> QED BY <1>1, <1>2, <1>3, <1>4, <1>5, <1>6 DEF StructureInv, d

\* What waits to be counted, and whether the base of a pole gave way, does
\* not matter.
LEMMA InStepAgrees ==
    ASSUME NEW d, NEW e, NEW x, e.kind = d.kind, e.window = d.window,
           e.quiet = d.quiet, e.peak = d.peak, e.charged = d.charged,
           e.shown = d.shown, e.damage = d.damage, e.events = d.events
    PROVE  /\ InStep(d, x) => InStep(e, x)
           /\ Accounted(d, x) => Accounted(e, x)
           /\ Fallen(e) <=> Fallen(d)
  BY DEF InStep, Accounted, Closed, Open, Fallen

LEMMA AfterContactsIs ==
    ASSUME NEW d \in TargetRecord, NEW impulse \in Nat
    PROVE  LET e == AfterContacts(d, impulse)
           IN  /\ e \in TargetRecord
               /\ e.pending = IF d.disabled THEN d.pending ELSE d.pending + impulse
               /\ e.disabled = d.disabled
               /\ e.kind = d.kind /\ e.window = d.window /\ e.quiet = d.quiet
               /\ e.peak = d.peak /\ e.charged = d.charged /\ e.shown = d.shown
               /\ e.damage = d.damage /\ e.events = d.events
PROOF
  <1> DEFINE p == IF d.disabled THEN d.pending ELSE d.pending + impulse
             r == d.released \/ Breaks(d, impulse)
  <1>1. d.pending \in Nat /\ d.released \in BOOLEAN
    BY DEF TargetRecord
  <1>2. p \in Nat
    BY <1>1
  <1>3. r \in BOOLEAN
    BY DEF Breaks
  <1>4. AfterContacts(d, impulse) = [d EXCEPT !.pending = p, !.released = r]
    BY DEF AfterContacts, TargetRecord
  <1> HIDE DEF p, r
  <1> QED BY <1>2, <1>3, <1>4 DEF TargetRecord, p

\* A tick that is kept: what waits is counted if anybody drives, and its own
\* impulse waits for the next one.
LEMMA TickCounts ==
    ASSUME NEW d, NEW log, StructureInv(d, log), NEW impulse \in Nat,
           NEW enabled \in BOOLEAN, impulse > 0 => enabled
    PROVE  StructureInv(IF enabled THEN AfterContacts(Ticked(d, enabled), impulse)
                                   ELSE Ticked(d, enabled),
                        Append(log, [enabled |-> enabled, impulse |-> impulse]))
PROOF
  <1> DEFINE entry == [enabled |-> enabled, impulse |-> impulse]
             longer == Append(log, entry)
             x == Impulses(log)
             v == Waiting(log, Len(log))
  <1>1. /\ d \in TargetRecord /\ IsLedger(log) /\ Accounted(d, x)
        /\ d.disabled <=> Fallen(d)
        /\ d.disabled => d.pending = 0
        /\ ~d.disabled => d.pending = v /\ InStep(d, x)
    BY DEF StructureInv
  <1>2. entry \in [enabled : BOOLEAN, impulse : Nat]
    OBVIOUS
  <1>3. entry.enabled = enabled /\ entry.impulse = impulse
    OBVIOUS
  <1> HIDE DEF entry
  <1>4. /\ IsLedger(longer) /\ Len(longer) = Len(log) + 1
        /\ x \in Seq(Nat) /\ Len(log) \in Nat
        /\ Impulses(longer) = IF enabled THEN Append(x, v) ELSE x
        /\ Waiting(longer, Len(longer)) = impulse
    <2>1. /\ IsLedger(longer) /\ Len(longer) = Len(log) + 1 /\ Len(log) \in Nat
      BY <1>1, <1>2, LedgerAppended
    <2>2. /\ x \in Seq(Nat)
          /\ Impulses(longer) = IF entry.enabled THEN Append(x, v) ELSE x
          /\ Waiting(longer, Len(log) + 1) = entry.impulse
      BY <1>1, <1>2, ImpulsesExtended
    <2> HIDE DEF longer, x, v
    <2> QED BY <1>3, <2>1, <2>2
  <1>5. v \in Nat
    <2>1. Len(log) \in 0..Len(log)
      BY <1>4
    <2> QED BY <1>1, <2>1, WaitingIsNatural
  <1> HIDE DEF longer, x, v
  <1>6. CASE ~enabled
    <2> DEFINE e == [d EXCEPT !.pending = 0]
    <2>1. Ticked(d, enabled) = e
      BY <1>6 DEF Ticked
    <2>2. /\ e \in TargetRecord /\ e.pending = 0 /\ e.disabled = d.disabled
          /\ e.kind = d.kind /\ e.window = d.window /\ e.quiet = d.quiet
          /\ e.peak = d.peak /\ e.charged = d.charged /\ e.shown = d.shown
          /\ e.damage = d.damage /\ e.events = d.events
      BY <1>1 DEF TargetRecord
    <2> HIDE DEF e
    <2>3. /\ InStep(d, x) => InStep(e, x)
          /\ Accounted(d, x) => Accounted(e, x)
          /\ Fallen(e) <=> Fallen(d)
      BY <2>2, InStepAgrees
    <2>4. impulse = 0 /\ Impulses(longer) = x
      BY <1>4, <1>6
    <2>5. StructureInv(e, longer)
      BY <1>1, <1>4, <2>2, <2>3, <2>4 DEF StructureInv
    <2> QED BY <1>6, <2>1, <2>5 DEF longer, entry
  <1>7. CASE enabled
    <2> DEFINE g == Ticked(d, enabled)
               y == Append(x, v)
               e == AfterContacts(g, impulse)
    <2>1. Impulses(longer) = y
      BY <1>4, <1>7
    <2>2. /\ g \in TargetRecord /\ Accounted(g, y) /\ g.pending = 0
          /\ g.disabled <=> Fallen(g)
          /\ ~g.disabled => InStep(g, y)
      <3>1. CASE d.pending > 0
        <4>1. g = AfterImpulse(d)
          BY <1>7, <3>1 DEF Ticked
        <4>2. ~d.disabled /\ ~Fallen(d) /\ d.pending = v /\ InStep(d, x)
          BY <1>1, <3>1
        <4>3. SumFunction(Slid(d.window, d.pending)) \in Nat
          <5>1. d.window \in Seq(Nat) /\ WindowHolds(d.window, x)
            BY <1>1, <4>2 DEF InStep, TargetRecord
          <5> QED BY <1>4, <1>5, <4>2, <5>1, WindowSlides
        <4>4. AfterImpulse(d) \in TargetRecord /\ AfterImpulse(d).pending = 0
          BY <1>1, <4>3, AfterImpulseIs
        <4>5. /\ InStep(AfterImpulse(d), Append(x, d.pending))
              /\ Accounted(AfterImpulse(d), Append(x, d.pending))
              /\ AfterImpulse(d).disabled <=> Fallen(AfterImpulse(d))
          BY <1>1, <1>4, <3>1, <4>2, ImpulseCounted
        <4> HIDE DEF g
        <4> QED BY <4>1, <4>2, <4>4, <4>5
      <3>2. CASE ~(d.pending > 0)
        <4>1. g = AfterQuiet(d) /\ d.pending = 0
          <5>1. d.pending \in Nat
            BY <1>1 DEF TargetRecord
          <5> QED BY <1>7, <3>2, <5>1 DEF Ticked
        <4> HIDE DEF g
        <4>2. /\ g \in TargetRecord /\ g.kind = d.kind /\ g.damage = d.damage
              /\ g.events = d.events /\ g.disabled = d.disabled /\ g.pending = 0
          BY <1>1, <4>1, AfterQuietIs
        <4>3. Fallen(g) <=> Fallen(d)
          BY <4>2 DEF Fallen
        <4>4. CASE d.disabled
          <5>1. Fallen(d)
            BY <1>1, <4>4
          <5>2. Accounted(g, y)
            BY <1>1, <1>4, <1>5, <4>2, <5>1, FallenStays
          <5> QED BY <4>2, <4>3, <4>4, <5>1, <5>2
        <4>5. CASE ~d.disabled
          <5>1. v = 0 /\ InStep(d, x)
            BY <1>1, <4>1, <4>5
          <5>2. InStep(AfterQuiet(d), Append(x, 0)) /\ Accounted(AfterQuiet(d), Append(x, 0))
            BY <1>1, <1>4, <5>1, QuietCounted
          <5>3. ~Fallen(d) /\ ~g.disabled
            BY <1>1, <4>2, <4>5
          <5> QED BY <4>1, <4>2, <4>3, <5>1, <5>2, <5>3
        <4> QED BY <4>4, <4>5
      <3> QED BY <3>1, <3>2
    <2> HIDE DEF g, y
    <2>3. /\ e \in TargetRecord
          /\ e.pending = IF g.disabled THEN g.pending ELSE g.pending + impulse
          /\ e.disabled = g.disabled
          /\ e.kind = g.kind /\ e.window = g.window /\ e.quiet = g.quiet
          /\ e.peak = g.peak /\ e.charged = g.charged /\ e.shown = g.shown
          /\ e.damage = g.damage /\ e.events = g.events
      BY <2>2, AfterContactsIs
    <2> HIDE DEF e
    <2>4. /\ InStep(g, y) => InStep(e, y)
          /\ Accounted(g, y) => Accounted(e, y)
          /\ Fallen(e) <=> Fallen(g)
      BY <2>3, InStepAgrees
    <2>5. e.pending = IF g.disabled THEN 0 ELSE impulse
      BY <2>2, <2>3
    <2>6. StructureInv(e, longer)
      BY <1>4, <2>1, <2>2, <2>3, <2>4, <2>5 DEF StructureInv
    <2> QED BY <1>7, <2>6 DEF longer, entry, e, g
  <1> QED BY <1>6, <1>7

\* The damage of the tick's structure, with the ledger of its ticks.
DamageInv ==
    /\ work \in Workloads
    /\ StructureInv(damage, ledger)

LEMMA DamageInvInit == Init => DamageInv
PROOF
  <1> SUFFICES ASSUME Init PROVE DamageInv
    OBVIOUS
  <1>1. work \in Workloads /\ damage = Intact(work.kind) /\ ledger = <<>>
    BY DEF Init
  <1>2. work.kind \in {"pole", "building"}
    BY <1>1, TickAssumption DEF Workload
  <1> QED BY <1>1, <1>2, IntactIsInStep DEF DamageInv

LEMMA DamageInvTick ==
    ASSUME DamageInv, NEW m \in Met, RunTick(m)
    PROVE  DamageInv'
PROOF
  <1>1. /\ work \in Workloads /\ StructureInv(damage, ledger) /\ work' = work
        /\ work.kind \in {"pole", "building"} /\ work.impulses \in SUBSET Nat
    BY TickAssumption DEF DamageInv, RunTick, Workload
  <1>2. m.impulse \in Nat /\ (m.impulse > 0 => Driven(m)) /\ Driven(m) \in BOOLEAN
    BY <1>1 DEF Met, RunTick, Meets, Driven
  <1> DEFINE d == IF m.network THEN Intact(work.kind) ELSE damage
             entry == [enabled |-> Driven(m), impulse |-> m.impulse]
  <1>3. StructureInv(d, LedgerFound(m))
    BY <1>1, IntactIsInStep DEF LedgerFound
  <1>4. CASE ~Committed(m)
    <2>1. damage' = d /\ ledger' = LedgerFound(m)
      BY <1>4 DEF RunTick, DamageLeft
    <2> QED BY <1>1, <1>3, <2>1 DEF DamageInv
  <1>5. CASE Committed(m)
    <2>1. /\ ledger' = Append(LedgerFound(m), entry)
          /\ damage' = IF Driven(m) THEN AfterContacts(Ticked(d, Driven(m)), m.impulse)
                                    ELSE Ticked(d, Driven(m))
      BY <1>5 DEF RunTick, DamageLeft, DamageFound
    <2> HIDE DEF d
    <2>2. StructureInv(IF Driven(m) THEN AfterContacts(Ticked(d, Driven(m)), m.impulse)
                                    ELSE Ticked(d, Driven(m)),
                       Append(LedgerFound(m), entry))
      BY <1>2, <1>3, TickCounts
    <2> QED BY <1>1, <2>1, <2>2 DEF DamageInv
  <1> QED BY <1>4, <1>5

LEMMA DamageInvNext == DamageInv /\ [Next]_vars => DamageInv'
PROOF
  <1> SUFFICES ASSUME DamageInv, [Next]_vars PROVE DamageInv'
    OBVIOUS
  <1>1. work \in Workloads /\ work.kind \in {"pole", "building"}
    BY TickAssumption DEF DamageInv, Workload
  <1>2. ASSUME UNCHANGED <<work, damage, ledger>> PROVE DamageInv'
    BY <1>2 DEF DamageInv
  <1>3. ASSUME work' = work, damage' = Intact(work.kind), ledger' = <<>>
        PROVE  DamageInv'
    BY <1>1, <1>3, IntactIsInStep DEF DamageInv
  <1>4. ASSUME NEW profile \in Profiles, NewPlay(profile) PROVE DamageInv'
    BY <1>3, <1>4 DEF NewPlay, Lapse
  <1>5. CASE Reconnect
    BY <1>2, <1>5 DEF Reconnect, Lapse, Remember
  <1>6. ASSUME NEW i \in Inputs, Drive(i) PROVE DamageInv'
    BY <1>2, <1>6 DEF Drive, Remember
  <1>7. CASE EmergencyStop
    BY <1>2, <1>7 DEF EmergencyStop, Lapse, Remember
  <1>8. ASSUME NEW lag \in work.lags, NEW world \in Worlds,
               InstallMap(clock.deadline + lag, world)
        PROVE  DamageInv'
    BY <1>3, <1>8 DEF InstallMap, Lapse
  <1>9. ASSUME NEW m \in Met, RunTick(m) PROVE DamageInv'
    BY <1>9, DamageInvTick
  <1>10. CASE Shutdown
    BY <1>2, <1>10 DEF Shutdown, Remember, hostVars
  <1>11. CASE Kill
    BY <1>2, <1>11 DEF Kill, Remember, hostVars
  <1>12. CASE UNCHANGED vars
    BY <1>2, <1>12 DEF vars, hostVars
  <1> QED BY <1>4, <1>5, <1>6, <1>7, <1>8, <1>9, <1>10, <1>11, <1>12 DEF Next

\* Whatever contacts there are in whatever ticks, held, undone or kept, and
\* whatever the length of the window, a structure shows the damage and the
\* events that the impulses amount to.  (StructureDamageRuntime::tick,
\* record_contacts, and run_tick's rollback)
THEOREM DamageIsWhatImpulsesAmountTo == Spec => []DamageMatchesImpulses
PROOF
  <1>1. DamageInv => DamageMatchesImpulses
    <2> SUFFICES ASSUME DamageInv PROVE DamageMatchesImpulses
      OBVIOUS
    <2>1. IsLedger(ledger) /\ Accounted(damage, Impulses(ledger))
      BY DEF DamageInv, StructureInv
    <2>2. DOMAIN Damages(Impulses(ledger)) = Episodes(Impulses(ledger))
      BY DEF Damages
    <2> QED BY <2>1, <2>2 DEF DamageMatchesImpulses, Accounted
  <1> QED BY <1>1, DamageInvInit, DamageInvNext, PTL DEF Spec
=============================================================================
