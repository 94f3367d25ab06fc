------------------------ MODULE SimulationHostProofs ------------------------
(***************************************************************************)
(* Who may drive, for every number of connections, sessions, plays, maps   *)
(* and vehicles, and for every deadline: the invariants of SimulationHost, *)
(* and that the host implements MotionAuthority.                           *)
(*                                                                         *)
(* The argument rests on one fact, that lease and lifecycle name the same  *)
(* controller (LeaseMatchesLifecycle), and on what keeps it inductive: the *)
(* lease belongs to somebody who has sent a command, the owner is retired  *)
(* exactly when the hard deadline has taken the lease from it, and a       *)
(* lifecycle that is not active has forgotten everything.                  *)
(***************************************************************************)
EXTENDS SimulationHost, TLAPS

Lifecycles ==
    [ active : BOOLEAN, key : Keys \cup {NoKey}, gen : Generations \cup {0},
      play : PlayKeys \cup {NoPlay}, seq : Nat, clientTime : Nat ]

Runs == [play : PlayKeys \cup {NoPlay}, vehicle : Classes \X Loadouts]

\* The types that the argument needs.
HostTypes ==
    /\ work \in Workload
    /\ now \in Nat
    /\ socket \in [Generations -> SocketStates]
    /\ lease \in LeaseRecord
    /\ lifecycle \in Lifecycles
    /\ seenPlays \subseteq PlayKeys
    /\ topGen \in Nat
    /\ runs \in Seq(Runs)

\* What makes LeaseMatchesLifecycle inductive.
Ownership ==
    /\ lease.active # NoKey => lease.receivedAt # Never
    /\ ~lease.safeStop => lease.active # NoKey
    /\ lifecycle.active /\ RequiresReconnect(lease)
          => lifecycle.key \in lease.retired
    /\ lifecycle.active => lifecycle.gen = topGen /\ topGen # 0
    /\ ~lifecycle.active => lifecycle = NoLifecycle

\* What makes FencedConnectionsCannotReturn inductive: connections are made in
\* order, and every owner was one.
SocketsInOrder ==
    /\ topGen <= MaxGeneration
    /\ \A g \in 1..topGen : socket[g] # "none"
    /\ \A g, h \in Generations :
          g < h /\ socket[h] # "none" => socket[g] # "none"

\* What makes EachPlayStartsOnce inductive: the history knows every start.
StartsAreSeen ==
    \A i \in 1..Len(runs) : runs[i] # Reload => runs[i].play \in seenPlays

\* What makes NoCommandReplay inductive: whoever drove is retired, or drives
\* and is not to repeat itself.
UsedKeysAreSpent ==
    /\ used \in [pairs : SUBSET (Keys \X Nat), replayed : BOOLEAN]
    /\ \A p \in used.pairs :
          p[1] \in lease.retired \/ (p[1] = lease.active /\ p[2] <= lease.seq)

HostInv ==
    /\ HostTypes
    /\ Ownership
    /\ LeaseMatchesLifecycle
    /\ DrivenOnlyWhenActive
    /\ SocketsInOrder
    /\ FencedConnectionsCannotReturn
    /\ StartsAreSeen
    /\ EachPlayStartsOnce
    /\ UsedKeysAreSpent
    /\ NoCommandReplay

-----------------------------------------------------------------------------
(* The lease and the frames.                                               *)

\* What a frame carries.
LEMMA FrameTypes ==
    /\ \A m \in Controls :
          /\ m.key \in Keys /\ m.seq \in Nat /\ m.clientTime \in Nat
          /\ m.input \in Inputs
    /\ \A m \in Resets :
          /\ m.key \in Keys /\ m.seq \in Nat /\ m.clientTime \in Nat
          /\ PlayKey(m) \in PlayKeys /\ PlayKey(m) # NoPlay
          /\ Selected(m) \in Classes \X Loadouts
PROOF
  <1>1. MaxSeq \in Nat /\ ClientTimes \subseteq Nat
    BY HostAssumption
  <1>2. ASSUME NEW m \in Controls
        PROVE  /\ m.key \in Keys /\ m.seq \in Nat /\ m.clientTime \in Nat
               /\ m.input \in Inputs
    <2>1. m.key \in Keys /\ m.input \in Inputs
      BY DEF Controls
    <2>2. m.seq \in Nat
      BY <1>1 DEF Controls
    <2>3. m.clientTime \in Nat
      BY <1>1 DEF Controls
    <2> QED BY <2>1, <2>2, <2>3
  <1>3. ASSUME NEW m \in Resets
        PROVE  /\ m.key \in Keys /\ m.seq \in Nat /\ m.clientTime \in Nat
               /\ PlayKey(m) \in PlayKeys /\ PlayKey(m) # NoPlay
               /\ Selected(m) \in Classes \X Loadouts
    <2>1. /\ m.key \in Keys /\ m.play \in Plays
          /\ m.class \in Classes /\ m.loadout \in Loadouts
      BY DEF Resets
    <2>2. m.seq \in Nat
      BY <1>1 DEF Resets
    <2>3. m.clientTime \in Nat
      BY <1>1 DEF Resets
    <2>4. m.key[1] \in Sources
      BY <2>1 DEF Keys
    <2>5. PlayKey(m) \in PlayKeys /\ PlayKey(m) # NoPlay
      BY <2>1, <2>4, HostAssumption DEF PlayKey, PlayKeys
    <2>6. Selected(m) \in Classes \X Loadouts
      BY <2>1, HostAssumption DEF Selected
    <2> QED BY <2>1, <2>2, <2>3, <2>5, <2>6
  <1> QED BY <1>2, <1>3

\* What an accepted command leaves of the lease.
LEMMA AcceptEffects ==
    ASSUME NEW l \in LeaseRecord, NEW m \in Controls, NEW t \in Nat
    PROVE  /\ AfterAccept(l, m, t) \in LeaseRecord
           /\ AfterAccept(l, m, t).active = m.key
           /\ AfterAccept(l, m, t).resetKey = l.resetKey
           /\ AfterAccept(l, m, t).retired = l.retired
           /\ AfterAccept(l, m, t).seq = m.seq
           /\ AfterAccept(l, m, t).receivedAt = t
           /\ AfterAccept(l, m, t).safeStop = FALSE
PROOF
  <1> USE DEF LeaseRecord
  <1>1. /\ m.key \in Keys /\ m.seq \in Nat /\ m.clientTime \in Nat
    BY FrameTypes
  <1>2. EstimatedAge(l, m, t) \in Nat
    <2>1. l.receivedAt # Never => l.receivedAt \in Nat
      OBVIOUS
    <2>2. \A n \in Int : NonNegative(n) \in Nat
      BY DEF NonNegative
    <2>3. l.queueAge \in Nat /\ l.clientTime \in Nat
      OBVIOUS
    <2>4. CASE m.key = l.active /\ l.receivedAt # Never
      <3>1. l.queueAge + (t - l.receivedAt)
              - (m.clientTime - l.clientTime) \in Int
        BY <1>1, <2>1, <2>3, <2>4
      <3> QED BY <2>2, <2>4, <3>1 DEF EstimatedAge
    <2>5. CASE ~(m.key = l.active /\ l.receivedAt # Never)
      BY <2>5 DEF EstimatedAge
    <2> QED BY <2>4, <2>5
  <1> QED BY <1>1, <1>2 DEF AfterAccept

\* What the deadlines and the transitions leave of it.
LEMMA LeaseEffects ==
    ASSUME NEW l \in LeaseRecord
    PROVE  /\ AfterSoftTimeout(l) \in LeaseRecord
           /\ AfterSoftTimeout(l) = [l EXCEPT !.safeStop = TRUE]
           /\ l.active # NoKey => AfterHardTimeout(l) \in LeaseRecord
           /\ AfterHardTimeout(l).active = NoKey
           /\ AfterHardTimeout(l).resetKey = l.resetKey
           /\ AfterHardTimeout(l).retired = l.retired \cup {l.active}
           /\ AfterHardTimeout(l).receivedAt = l.receivedAt
           /\ AfterHardTimeout(l).safeStop = TRUE
           /\ l.retired \in SUBSET Keys
           /\ HeldKeys(l) \in SUBSET Keys
PROOF
  <1> USE DEF LeaseRecord
  <1>1. /\ AfterSoftTimeout(l) \in LeaseRecord
        /\ AfterSoftTimeout(l) = [l EXCEPT !.safeStop = TRUE]
    BY DEF AfterSoftTimeout
  <1>2. /\ l.active # NoKey => AfterHardTimeout(l) \in LeaseRecord
        /\ AfterHardTimeout(l).active = NoKey
        /\ AfterHardTimeout(l).resetKey = l.resetKey
        /\ AfterHardTimeout(l).retired = l.retired \cup {l.active}
        /\ AfterHardTimeout(l).receivedAt = l.receivedAt
        /\ AfterHardTimeout(l).safeStop = TRUE
    BY DEF AfterHardTimeout
  <1>3. l.retired \in SUBSET Keys /\ HeldKeys(l) \in SUBSET Keys
    BY DEF HeldKeys
  <1> QED BY <1>1, <1>2, <1>3

\* A lifecycle of a reset is one.
LEMMA LifecycleType ==
    ASSUME NEW g \in Generations, NEW m \in Resets
    PROVE  LifecycleOf(g, m) \in Lifecycles
  BY FrameTypes DEF LifecycleOf, Lifecycles

\* Connections only open in Connect; a frame opens none.
LEMMA SocketTypes ==
    ASSUME HostTypes, NEW g \in Generations
    PROVE  /\ \A a \in BOOLEAN :
                 /\ AfterFrame(g, a) \in [Generations -> SocketStates]
                 /\ \A h \in Generations :
                       /\ AfterFrame(g, a)[h] = "none" <=> socket[h] = "none"
                       /\ AfterFrame(g, a)[h] \in {"open", "ready"}
                             => socket[h] \in {"open", "ready"}
                       /\ AfterFrame(g, a)[h] \in {"open", "ready", "dying"}
                             => socket[h] \in {"open", "ready", "dying"}
                       /\ h # g => AfterFrame(g, a)[h] = socket[h]
                 /\ AfterFrame(g, a)[g] # "dying"
           /\ AllClosed \in [Generations -> SocketStates]
           /\ \A h \in Generations :
                 /\ AllClosed[h] = "none" <=> socket[h] = "none"
                 /\ AllClosed[h] \notin {"open", "ready"}
PROOF
  <1> USE DEF HostTypes, SocketStates
  <1>1. ASSUME NEW a \in BOOLEAN
        PROVE  /\ AfterFrame(g, a) \in [Generations -> SocketStates]
               /\ \A h \in Generations :
                     /\ AfterFrame(g, a)[h] = "none" <=> socket[h] = "none"
                     /\ AfterFrame(g, a)[h] \in {"open", "ready"}
                           => socket[h] \in {"open", "ready"}
                     /\ AfterFrame(g, a)[h] \in {"open", "ready", "dying"}
                           => socket[h] \in {"open", "ready", "dying"}
                     /\ h # g => AfterFrame(g, a)[h] = socket[h]
               /\ AfterFrame(g, a)[g] # "dying"
    BY DEF AfterFrame
  <1>2. /\ AllClosed \in [Generations -> SocketStates]
        /\ \A h \in Generations :
              /\ AllClosed[h] = "none" <=> socket[h] = "none"
              /\ AllClosed[h] \notin {"open", "ready"}
    BY DEF AllClosed, Live
  <1> QED BY <1>1, <1>2

-----------------------------------------------------------------------------
(* Types.                                                                  *)

\* A reset that takes over meets a lease that its own identity does not hold,
\* and leaves one that holds nobody.
LEMMA TakeoverLease ==
    ASSUME HostInv, NEW g \in Generations, NEW m \in Resets,
           Reconnect(g, m) \/ NewSimulation(g, m)
    PROVE  /\ \E R \in SUBSET Keys :
                 /\ lease' = Cleared(lease, m.key, R)
                 /\ lease.retired \subseteq R
                 /\ lifecycle.key \in R \cup {NoKey}
                 /\ m.key \notin R
           /\ input' = SafeInput
           /\ lifecycle' = LifecycleOf(g, m)
           /\ topGen' = g
           /\ ~estop /\ g \in DOMAIN hello /\ Delivering(g)
PROOF
  <1> USE DEF HostInv
  <1>1. HeldKeys(lease) \in SUBSET Keys /\ lease.retired \in SUBSET Keys
    BY LeaseEffects DEF HostTypes
  <1>2. m.key \in Keys /\ m.key # NoKey
    BY FrameTypes, HostAssumption
  <1>3. /\ HeldKeys(lease) \subseteq {lifecycle.key}
        /\ lifecycle.key # NoKey => lifecycle.key \in HeldKeys(lease)
    BY DEF LeaseMatchesLifecycle, HeldKeys
  <1>4. m.key # lifecycle.key
    <2>1. CASE lifecycle.active
      BY <2>1 DEF Reconnect, NewSimulation, MayTakeOver
    <2>2. CASE ~lifecycle.active
      BY <1>2, <2>2 DEF Ownership, NoLifecycle
    <2> QED BY <2>1, <2>2
  <1>5. ValidReset(g, m) /\ lifecycle' = LifecycleOf(g, m) /\ topGen' = g
    BY DEF Reconnect, NewSimulation
  <1>6. ~estop /\ g \in DOMAIN hello /\ Delivering(g)
    BY <1>5 DEF ValidReset, Negotiated
  <1>7. CASE Reconnect(g, m)
    <2>1. m.key # lease.resetKey
      BY <1>4 DEF LeaseMatchesLifecycle
    <2>2. /\ lease' = AfterReconnect(lease, m.key)
          /\ input' = SafeInput /\ m.key \notin lease.retired
      BY <1>7, <2>1 DEF Reconnect, IsSameSession
    <2>3. lease' = Cleared(lease, m.key, lease.retired \cup HeldKeys(lease))
      BY <2>2 DEF AfterReconnect
    <2> QED BY <1>1, <1>3, <1>4, <1>5, <1>6, <2>2, <2>3
  <1>8. CASE NewSimulation(g, m)
    <2>1. /\ lease' = AfterBegin(lease, m.key)
          /\ input' = SafeInput /\ m.key \notin lease.retired
      BY <1>8 DEF NewSimulation, CanBegin
    <2>2. lease' = Cleared(lease, m.key, lease.retired \cup (HeldKeys(lease) \ {m.key}))
      BY <2>1 DEF AfterBegin
    <2>3. HeldKeys(lease) \ {m.key} = HeldKeys(lease)
      BY <1>3, <1>4
    <2> QED BY <1>1, <1>3, <1>4, <1>5, <1>6, <2>1, <2>2, <2>3
  <1> QED BY <1>7, <1>8

\* What the deadlines leave of the lease.
LEMMA TickLease ==
    ASSUME HostInv, Tick
    PROVE  /\ lease' \in LeaseRecord
           /\ lease'.resetKey = lease.resetKey
           /\ lease'.receivedAt = lease.receivedAt
           /\ lease'.seq = lease.seq
           /\ HardFires =>
                 /\ lease.active # NoKey /\ lease.receivedAt # Never
                 /\ lease'.active = NoKey /\ lease'.safeStop
                 /\ lease'.retired = lease.retired \cup {lease.active}
                 /\ SoftFires \/ lease.safeStop
           /\ ~HardFires =>
                 /\ lease'.active = lease.active
                 /\ lease'.retired = lease.retired
                 /\ lease'.safeStop <=> (lease.safeStop \/ SoftFires)
           /\ input' = IF SoftFires THEN SafeInput ELSE input
PROOF
  <1>1. lease \in LeaseRecord /\ now \in Nat
    BY DEF HostInv, HostTypes
  <1>2. /\ SoftStopped \in LeaseRecord
        /\ SoftStopped.active = lease.active
        /\ SoftStopped.resetKey = lease.resetKey
        /\ SoftStopped.retired = lease.retired
        /\ SoftStopped.receivedAt = lease.receivedAt
        /\ SoftStopped.seq = lease.seq
        /\ SoftStopped.safeStop <=> (lease.safeStop \/ SoftFires)
    <2>1. CASE SoftFires
      <3>1. SoftStopped = [lease EXCEPT !.safeStop = TRUE]
        BY <2>1 DEF SoftStopped, AfterSoftTimeout
      <3> QED BY <1>1, <2>1, <3>1 DEF LeaseRecord
    <2>2. CASE ~SoftFires
      BY <1>1, <2>2 DEF SoftStopped
    <2> QED BY <2>1, <2>2
  <1>3. /\ lease' = IF HardFires THEN AfterHardTimeout(SoftStopped)
                                 ELSE SoftStopped
        /\ input' = IF SoftFires THEN SafeInput ELSE input
    BY DEF Tick
  <1>4. CASE HardFires
    <2>1. /\ lease.receivedAt # Never /\ lease.active # NoKey
          /\ now - lease.receivedAt > HardTimeout
      BY <1>2, <1>4 DEF HardFires, HardTimeoutDue
    <2>2. lease.receivedAt \in Nat
      BY <1>1, <2>1 DEF LeaseRecord
    <2>3. now - lease.receivedAt > Timeout
      BY <1>1, <2>1, <2>2, HostAssumption
    <2>4. SoftFires \/ lease.safeStop
      BY <2>1, <2>3 DEF SoftFires, SoftTimeoutDue
    <2>5. lease' = [ SoftStopped EXCEPT !.safeStop = TRUE,
                        !.retired = SoftStopped.retired \cup {SoftStopped.active},
                        !.active = NoKey ]
      BY <1>3, <1>4 DEF AfterHardTimeout
    <2> QED BY ZenonT(60), <1>2, <1>3, <1>4, <2>1, <2>4, <2>5 DEF LeaseRecord
  <1>5. CASE ~HardFires
    BY <1>2, <1>3, <1>5
  <1> QED BY <1>4, <1>5

\* A command that is accepted comes from the owner of the lifecycle, which the
\* hard deadline has not retired, and from nobody else.
LEMMA ControlLease ==
    ASSUME HostInv, NEW g \in Generations, NEW m \in Controls,
           HandleControl(g, m)
    PROVE  /\ lease' \in LeaseRecord
           /\ lease'.active = m.key /\ lease'.resetKey = lease.resetKey
           /\ lease'.retired = lease.retired /\ lease'.seq = m.seq
           /\ lease'.receivedAt = now /\ lease'.safeStop = FALSE
           /\ now # Never /\ m.key # NoKey
           /\ m.key = lifecycle.key /\ lifecycle.active /\ ~estop
           /\ m.key \notin lease.retired
           /\ ~RequiresReconnect(lease)
           /\ (m.key = lease.active /\ m.seq > lease.seq) \/ lease.active = NoKey
           /\ input' = m.input /\ m.input \in Inputs
           /\ UNCHANGED <<lifecycle, seenPlays, vehicle, estop, runs, topGen>>
PROOF
  <1> USE DEF HostInv
  <1>1. lease \in LeaseRecord /\ now \in Nat /\ CanAccept(lease, m, now)
    BY DEF HostTypes, HandleControl
  <1>2. m.key \in Keys /\ m.key # NoKey /\ m.input \in Inputs
    BY FrameTypes, HostAssumption
  <1>3. lease' = AfterAccept(lease, m, now)
    BY DEF HandleControl
  <1>4. m.key = lifecycle.key /\ lifecycle.active /\ ~estop
    BY DEF HandleControl, OwnsLifecycle
  <1>5. \/ m.key = lease.active /\ m.seq > lease.seq
        \/ lease.active = NoKey /\ m.key \notin lease.retired
    BY <1>1 DEF CanAccept
  <1>6. m.key \notin lease.retired
    BY <1>2, <1>4, <1>5 DEF LeaseMatchesLifecycle, RequiresReconnect
  <1>7. ~RequiresReconnect(lease)
    BY <1>4, <1>6 DEF Ownership
  <1>8. now # Never
    BY <1>1 DEF Never
  <1>9. /\ input' = m.input
        /\ UNCHANGED <<lifecycle, seenPlays, vehicle, estop, runs, topGen>>
    BY DEF HandleControl
  <1>10. /\ lease' \in LeaseRecord
         /\ lease'.active = m.key /\ lease'.resetKey = lease.resetKey
         /\ lease'.retired = lease.retired /\ lease'.seq = m.seq
         /\ lease'.receivedAt = now /\ lease'.safeStop = FALSE
    <2> DEFINE l == AfterAccept(lease, m, now)
    <2>1. /\ l \in LeaseRecord
          /\ l.active = m.key /\ l.resetKey = lease.resetKey
          /\ l.retired = lease.retired /\ l.seq = m.seq
          /\ l.receivedAt = now /\ l.safeStop = FALSE
      BY <1>1, AcceptEffects
    <2>2. lease' = l
      BY <1>3
    <2> HIDE DEF l
    <2> QED BY <2>1, <2>2
  <1> QED BY <1>2, <1>4, <1>5, <1>6, <1>7, <1>8, <1>9, <1>10

-----------------------------------------------------------------------------
(* The steps of the host.                                                  *)

\* The step leaves lease, lifecycle and vehicle as they are.
Apart ==
    UNCHANGED <<lease, lifecycle, seenPlays, vehicle, runs, topGen, used>>

\* What a step means to the lease, the lifecycle and the vehicle: most steps
\* mean nothing to them.
LEMMA StepKinds ==
    ASSUME HostTypes, [Next]_vars
    PROVE  \/ Apart /\ UNCHANGED <<estop, input>>
           \/ Apart /\ estop' = TRUE /\ input' = SafeInput
           \/ \E g \in Generations, m \in Controls : HandleControl(g, m)
           \/ \E g \in Generations, m \in Resets : RepeatReset(g, m)
           \/ \E g \in Generations, m \in Resets :
                  Reconnect(g, m) \/ NewSimulation(g, m)
           \/ ReloadTick
           \/ Tick
PROOF
  <1> DEFINE Quiet == Apart /\ UNCHANGED <<estop, input>>
             Stopped == Apart /\ estop' = TRUE /\ input' = SafeInput
  <1>1. 1..work.connections \subseteq Generations
    <2>1. work.connections \in 0..MaxGeneration
      BY DEF HostTypes, Workload
    <2>2. MaxGeneration \in Nat
      BY HostAssumption
    <2> QED BY <2>1, <2>2 DEF Generations
  <1>2. ASSUME NEW g \in Generations, Connect(g) \/ Disconnect(g)
        PROVE  Quiet
    BY <1>2 DEF Connect, Disconnect, hostVars, history, Apart
  <1>3. ASSUME NEW g \in Generations, NEW m \in Hellos, HandleHello(g, m)
        PROVE  Quiet
    BY <1>3 DEF HandleHello, history, Apart
  <1>4. ASSUME NEW g \in Generations, NEW m \in EStops, EmergencyStop(g, m)
        PROVE  Stopped
    BY <1>4 DEF EmergencyStop, history, Apart
  <1>5. ASSUME NEW m, QueueMapReload(m) PROVE Quiet
    BY <1>5 DEF QueueMapReload, hostVars, history, Apart
  <1>6. ASSUME Advance PROVE Quiet
    BY <1>6 DEF Advance, hostVars, history, Apart
  <1>7. ASSUME UNCHANGED vars PROVE Quiet
    BY <1>7 DEF vars, hostVars, history, Apart
  <1> DEFINE Kinds ==
               \/ Quiet \/ Stopped
               \/ \E g \in Generations, m \in Controls : HandleControl(g, m)
               \/ \E g \in Generations, m \in Resets : RepeatReset(g, m)
               \/ \E g \in Generations, m \in Resets :
                      Reconnect(g, m) \/ NewSimulation(g, m)
               \/ ReloadTick \/ Tick
  <1>8. ASSUME Next PROVE Kinds
    <2> HIDE DEF Quiet, Stopped
    <2>1. ASSUME NEW g \in 1..work.connections,
                 \/ Connect(g) \/ Disconnect(g)
                 \/ \E m \in Hellos : HandleHello(g, m)
                 \/ \E m \in EStops : EmergencyStop(g, m)
          PROVE  Quiet \/ Stopped
      BY <1>1, <1>2, <1>3, <1>4, <2>1
    <2>2. ASSUME NEW g \in 1..work.connections,
                 \/ \E m \in Controls : HandleControl(g, m)
                 \/ \E m \in Resets : \/ RepeatReset(g, m)
                                      \/ Reconnect(g, m) \/ NewSimulation(g, m)
          PROVE  Kinds
      BY <1>1, <2>2
    <2> QED BY <1>5, <1>6, <1>8, <2>1, <2>2 DEF Next, RunTick
  <1> HIDE DEF Quiet, Stopped
  <1>9. Kinds
    BY <1>7, <1>8 DEF Kinds
  <1> QED BY <1>9 DEF Quiet, Stopped

-----------------------------------------------------------------------------
(* Each part of the invariant is kept.                                     *)

\* Lease, lifecycle and applied input.
LEMMA AuthorityKept ==
    ASSUME HostInv, [Next]_vars
    PROVE  /\ lease' \in LeaseRecord
           /\ Ownership' /\ LeaseMatchesLifecycle' /\ DrivenOnlyWhenActive'
PROOF
  <1> DEFINE Preserved == /\ lease' \in LeaseRecord
                     /\ Ownership' /\ LeaseMatchesLifecycle'
                     /\ DrivenOnlyWhenActive'
  <1> USE DEF HostInv
  <1>1. /\ lease \in LeaseRecord
        /\ lease.active \in {NoKey, lifecycle.key}
        /\ lease.resetKey = lifecycle.key
        /\ lifecycle.active = (lifecycle.key # NoKey)
        /\ lease.retired \in SUBSET Keys
    BY LeaseEffects DEF HostTypes, LeaseMatchesLifecycle
  <1>2. ASSUME Apart,
               \/ UNCHANGED <<estop, input>>
               \/ estop' = TRUE /\ input' = SafeInput
        PROVE  Preserved
    BY <1>1, <1>2 DEF Apart, Ownership, LeaseMatchesLifecycle, HasControlCommand,
                 DrivenOnlyWhenActive, Health, RequiresReconnect, NoLifecycle
  <1>3. ASSUME NEW g \in Generations, NEW m \in Controls, HandleControl(g, m)
        PROVE  Preserved
    <2>1. /\ lease' \in LeaseRecord
          /\ lease'.active = m.key /\ lease'.resetKey = lease.resetKey
          /\ lease'.retired = lease.retired
          /\ lease'.receivedAt = now /\ lease'.safeStop = FALSE
          /\ now # Never /\ m.key # NoKey
          /\ m.key = lifecycle.key /\ lifecycle.active /\ ~estop
          /\ m.key \notin lease.retired
          /\ UNCHANGED <<lifecycle, estop, topGen>>
      BY <1>3, ControlLease
    <2>2. Ownership' /\ LeaseMatchesLifecycle'
      BY <1>1, <2>1 DEF Ownership, LeaseMatchesLifecycle, RequiresReconnect
    <2>3. DrivenOnlyWhenActive'
      BY <2>1 DEF DrivenOnlyWhenActive, Health, RequiresReconnect,
                  HasControlCommand
    <2> QED BY <2>1, <2>2, <2>3
  <1>4. ASSUME NEW g \in Generations, NEW m \in Resets, RepeatReset(g, m)
        PROVE  Preserved
    <2>1. /\ UNCHANGED <<lease, estop, input, topGen>>
          /\ lifecycle.active
          /\ lifecycle' = lifecycle \/ lifecycle' = LifecycleOf(g, m)
          /\ m.key = lifecycle.key /\ g = lifecycle.gen
      BY <1>4 DEF RepeatReset, history
    <2>2. /\ lifecycle'.active = lifecycle.active
          /\ lifecycle'.key = lifecycle.key /\ lifecycle'.gen = lifecycle.gen
      <3>1. lifecycle.active = TRUE
        BY <2>1 DEF HostTypes, Lifecycles
      <3>2. CASE lifecycle' = lifecycle
        BY <3>2
      <3>3. CASE lifecycle' = LifecycleOf(g, m)
        BY <2>1, <3>1, <3>3 DEF LifecycleOf
      <3> QED BY <2>1, <3>2, <3>3
    <2> QED BY <1>1, <2>1, <2>2
            DEF Ownership, LeaseMatchesLifecycle, HasControlCommand,
                DrivenOnlyWhenActive, Health, RequiresReconnect
  <1>5. ASSUME NEW g \in Generations, NEW m \in Resets,
               Reconnect(g, m) \/ NewSimulation(g, m)
        PROVE  Preserved
    <2>1. PICK R \in SUBSET Keys :
             lease' = Cleared(lease, m.key, R) /\ m.key \notin R
      BY <1>5, TakeoverLease
    <2>2. m.key \in Keys /\ m.key # NoKey
      BY FrameTypes, HostAssumption
    <2>3. /\ lease' \in LeaseRecord
          /\ lease'.active = NoKey /\ lease'.resetKey = m.key
          /\ lease'.retired = R /\ lease'.receivedAt = Never
          /\ lease'.safeStop = TRUE
      BY <2>1, <2>2 DEF Cleared, FreshLease, Never, LeaseRecord
    <2>4. /\ lifecycle'.active /\ lifecycle'.key = m.key /\ lifecycle'.gen = g
          /\ lifecycle'.active \in BOOLEAN
          /\ topGen' = g /\ input' = SafeInput
      <3>1. /\ lifecycle' = LifecycleOf(g, m)
            /\ topGen' = g /\ input' = SafeInput
        BY <1>5, TakeoverLease
      <3> QED BY <3>1 DEF LifecycleOf
    <2>5. g # 0
      BY DEF Generations
    <2>6. Ownership' /\ DrivenOnlyWhenActive'
      BY <2>3, <2>4, <2>5 DEF Ownership, RequiresReconnect, HasControlCommand,
                             DrivenOnlyWhenActive
    <2>7. LeaseMatchesLifecycle'
      BY <2>1, <2>2, <2>3, <2>4 DEF LeaseMatchesLifecycle
    <2> QED BY <2>3, <2>6, <2>7
  <1>6. ASSUME ReloadTick PROVE Preserved
    <2>1. /\ lease' = Cleared(lease, NoKey, lease.retired \cup HeldKeys(lease))
          /\ lifecycle' = NoLifecycle /\ input' = SafeInput
          /\ UNCHANGED topGen
      BY <1>6 DEF ReloadTick, AfterMapReset
    <2>2. lease.retired \cup HeldKeys(lease) \in SUBSET Keys
      BY <1>1, LeaseEffects
    <2>3. /\ lease' \in LeaseRecord
          /\ lease'.active = NoKey /\ lease'.resetKey = NoKey
          /\ lease'.retired \in SUBSET Keys
          /\ lease'.receivedAt = Never /\ lease'.safeStop = TRUE
      BY <2>1, <2>2 DEF Cleared, FreshLease, Never, LeaseRecord
    <2> QED BY <2>1, <2>3, HostAssumption
            DEF Ownership, NoLifecycle, LeaseMatchesLifecycle,
                DrivenOnlyWhenActive
  <1>7. ASSUME Tick PROVE Preserved
    <2>1. UNCHANGED <<lifecycle, estop, topGen>>
      BY <1>7 DEF Tick, history
    <2>2. CASE HardFires
      <3>1. /\ lease' \in LeaseRecord
            /\ lease'.active = NoKey /\ lease'.resetKey = lease.resetKey
            /\ lease'.retired = lease.retired \cup {lease.active}
            /\ lease'.receivedAt = lease.receivedAt /\ lease'.safeStop
            /\ lease.active # NoKey /\ lease.receivedAt # Never
            /\ SoftFires \/ lease.safeStop
            /\ input' = IF SoftFires THEN SafeInput ELSE input
        BY <1>7, <2>2, TickLease
      <3>2. Ownership' /\ LeaseMatchesLifecycle'
        BY <1>1, <2>1, <3>1
        DEF Ownership, LeaseMatchesLifecycle, RequiresReconnect,
            HasControlCommand
      <3>3. input' = SafeInput
        BY <3>1 DEF DrivenOnlyWhenActive, Health
      <3> QED BY <3>1, <3>2, <3>3 DEF DrivenOnlyWhenActive
    <2>3. CASE ~HardFires
      <3>1. /\ lease' \in LeaseRecord
            /\ lease'.active = lease.active /\ lease'.resetKey = lease.resetKey
            /\ lease'.retired = lease.retired
            /\ lease'.receivedAt = lease.receivedAt
            /\ lease'.safeStop <=> (lease.safeStop \/ SoftFires)
            /\ input' = IF SoftFires THEN SafeInput ELSE input
        BY <1>7, <2>3, TickLease
      <3>2. Ownership' /\ LeaseMatchesLifecycle'
        <4>1. ~lease'.safeStop => lease.active # NoKey
          BY <3>1 DEF Ownership
        <4> QED BY <1>1, <2>1, <3>1, <4>1
                DEF Ownership, LeaseMatchesLifecycle, RequiresReconnect,
                    HasControlCommand
      <3>3. DrivenOnlyWhenActive'
        BY <2>1, <3>1 DEF DrivenOnlyWhenActive, Health, RequiresReconnect,
                          HasControlCommand
      <3> QED BY <3>1, <3>2, <3>3
    <2> QED BY <2>2, <2>3
  <1> HIDE DEF Preserved
  <1>8. Preserved
    BY <1>2, <1>3, <1>4, <1>5, <1>6, <1>7, StepKinds
  <1> QED BY <1>8 DEF Preserved

\* Who has driven.
LEMMA UseKept ==
    ASSUME HostInv, [Next]_vars
    PROVE  UsedKeysAreSpent' /\ NoCommandReplay'
PROOF
  <1> DEFINE Preserved == UsedKeysAreSpent' /\ NoCommandReplay'
  <1> USE DEF HostInv
  <1>1. /\ lease \in LeaseRecord /\ lease.retired \in SUBSET Keys
        /\ HeldKeys(lease) \in SUBSET Keys
        /\ lease.active \in {NoKey, lifecycle.key}
    BY LeaseEffects DEF HostTypes, LeaseMatchesLifecycle
  <1>2. ASSUME UNCHANGED used, lease.retired \subseteq lease'.retired,
               \/ lease'.active = lease.active /\ lease'.seq = lease.seq
               \/ lease.active \in lease'.retired \cup {NoKey}
        PROVE  Preserved
    <2>1. \A p \in used.pairs : p[1] # NoKey
      BY HostAssumption DEF UsedKeysAreSpent
    <2> QED BY <1>2, <2>1 DEF UsedKeysAreSpent, NoCommandReplay
  <1>3. ASSUME NEW g \in Generations, NEW m \in Controls, HandleControl(g, m)
        PROVE  Preserved
    <2>1. /\ lease'.active = m.key /\ lease'.retired = lease.retired
          /\ lease'.seq = m.seq
          /\ m.key \notin lease.retired
      BY <1>3, ControlLease
    <2>2. (m.key = lease.active /\ m.seq > lease.seq) \/ lease.active = NoKey
      BY <1>3, ControlLease
    <2>3. m.key \in Keys /\ m.key # NoKey
      BY FrameTypes, HostAssumption
    <2>4. m.seq \in Nat /\ lease.seq \in Nat
      BY <1>1, FrameTypes DEF LeaseRecord
    <2>5. \A p \in used.pairs : p \in Keys \X Nat
      BY DEF UsedKeysAreSpent
    <2>6. \A p \in used.pairs :
             p[1] \in lease.retired \/ (p[1] = m.key /\ p[2] < m.seq)
      <3> SUFFICES ASSUME NEW p \in used.pairs, p[1] \notin lease.retired
                   PROVE  p[1] = m.key /\ p[2] < m.seq
        OBVIOUS
      <3>1. p[1] = lease.active /\ p[2] <= lease.seq
        BY DEF UsedKeysAreSpent
      <3>2. p[1] # NoKey
        BY <2>5, HostAssumption
      <3>3. p[2] \in Nat
        BY <2>5
      <3>4. m.key = lease.active /\ m.seq > lease.seq
        BY <2>2, <3>1, <3>2
      <3> QED BY <2>4, <3>1, <3>3, <3>4
    <2> DEFINE new == <<m.key, m.seq>>
    <2>7. new \notin used.pairs
      <3> SUFFICES ASSUME new \in used.pairs PROVE FALSE
        OBVIOUS
      <3>1. m.key \in lease.retired \/ m.seq < m.seq
        BY <2>6
      <3> QED BY <2>1, <2>4, <3>1
    <2>8. used' = [ pairs |-> used.pairs \cup {new},
                    replayed |-> used.replayed \/ new \in used.pairs ]
      BY <1>3 DEF HandleControl
    <2>9. new \in Keys \X Nat /\ new[1] = m.key /\ new[2] = m.seq
      BY <2>3, <2>4
    <2> HIDE DEF new
    <2>10. used'.pairs = used.pairs \cup {new} /\ used'.replayed = FALSE
      BY <2>7, <2>8 DEF NoCommandReplay, UsedKeysAreSpent
    <2>11. used' \in [pairs : SUBSET (Keys \X Nat), replayed : BOOLEAN]
      BY <2>5, <2>8, <2>9, <2>10
    <2>12. ASSUME NEW p \in used'.pairs
           PROVE  \/ p[1] \in lease'.retired
                  \/ p[1] = lease'.active /\ p[2] <= lease'.seq
      <3>1. CASE p = new
        BY <2>1, <2>4, <2>9, <3>1
      <3>2. CASE p \in used.pairs
        <4>1. p[2] \in Nat
          BY <2>5, <3>2
        <4>2. p[1] \in lease.retired \/ (p[1] = m.key /\ p[2] < m.seq)
          BY <2>6, <3>2
        <4> QED BY <2>1, <2>4, <4>1, <4>2
      <3> QED BY <2>10, <3>1, <3>2
    <2> QED BY <2>10, <2>11, <2>12 DEF UsedKeysAreSpent, NoCommandReplay
  <1>4. ASSUME NEW g \in Generations, NEW m \in Resets,
               Reconnect(g, m) \/ NewSimulation(g, m)
        PROVE  Preserved
    <2>1. PICK R \in SUBSET Keys :
             /\ lease' = Cleared(lease, m.key, R)
             /\ lease.retired \subseteq R
             /\ lifecycle.key \in R \cup {NoKey}
      BY <1>4, TakeoverLease
    <2>2. lease'.retired = R
      BY <2>1 DEF Cleared, FreshLease
    <2>3. lease.active \in R \cup {NoKey}
      BY <1>1, <2>1
    <2>4. UNCHANGED used
      BY <1>4 DEF Reconnect, NewSimulation
    <2> QED BY <1>2, <2>1, <2>2, <2>3, <2>4
  <1>5. ASSUME ReloadTick PROVE Preserved
    <2>1. lease' = Cleared(lease, NoKey, lease.retired \cup HeldKeys(lease))
      BY <1>5 DEF ReloadTick, AfterMapReset
    <2>2. lease'.retired = lease.retired \cup HeldKeys(lease)
      BY <2>1 DEF Cleared, FreshLease
    <2>3. lease.active \in HeldKeys(lease) \cup {NoKey}
      BY DEF HeldKeys
    <2>4. UNCHANGED used
      BY <1>5 DEF ReloadTick
    <2> QED BY <1>2, <2>2, <2>3, <2>4
  <1>6. ASSUME Tick PROVE Preserved
    <2>1. UNCHANGED used
      BY <1>6 DEF Tick, history
    <2>2. CASE HardFires
      <3>1. lease'.retired = lease.retired \cup {lease.active}
        BY <1>6, <2>2, TickLease
      <3> QED BY <1>2, <2>1, <3>1
    <2>3. CASE ~HardFires
      <3>1. /\ lease'.retired = lease.retired /\ lease'.active = lease.active
            /\ lease'.seq = lease.seq
        BY <1>6, <2>3, TickLease
      <3> QED BY <1>2, <2>1, <3>1
    <2> QED BY <2>2, <2>3
  <1>7. ASSUME Apart PROVE Preserved
    BY <1>2, <1>7 DEF Apart
  <1>8. ASSUME NEW g, NEW m, RepeatReset(g, m) PROVE Preserved
    BY <1>2, <1>8 DEF RepeatReset, history
  <1> HIDE DEF Preserved
  <1>9. Preserved
    BY <1>3, <1>4, <1>5, <1>6, <1>7, <1>8, StepKinds
  <1> QED BY <1>9 DEF Preserved

\* The connections.
LEMMA SocketsKept ==
    ASSUME HostInv, [Next]_vars
    PROVE  /\ socket' \in [Generations -> SocketStates]
           /\ SocketsInOrder' /\ FencedConnectionsCannotReturn'
PROOF
  <1> DEFINE Preserved == /\ socket' \in [Generations -> SocketStates]
                     /\ SocketsInOrder' /\ FencedConnectionsCannotReturn'
  <1> USE DEF HostInv
  <1>1. /\ socket \in [Generations -> SocketStates]
        /\ topGen \in Nat /\ topGen <= MaxGeneration /\ MaxGeneration \in Nat
        /\ 1..topGen \subseteq Generations
    BY HostAssumption DEF HostTypes, SocketsInOrder, Generations
  \* A step that opens no connection, and enters none of the owners so far
  \* that could still speak into the table.
  <1>2. ASSUME socket' \in [Generations -> SocketStates],
               UNCHANGED <<lifecycle, lease, topGen>>,
               \A h \in Generations :
                  /\ socket'[h] = "none" <=> socket[h] = "none"
                  /\ Live(h)' => Live(h)
                  /\ Delivering(h)' => Delivering(h),
               \A h \in 1..topGen : ~lifecycle.active /\ Delivering(h)'
                  => h \in DOMAIN hello \/ h \notin DOMAIN hello'
        PROVE  Preserved
    <2>1. SocketsInOrder'
      BY <1>1, <1>2 DEF SocketsInOrder
    <2>2. FencedConnectionsCannotReturn'
      BY <1>1, <1>2 DEF FencedConnectionsCannotReturn
    <2> QED BY <1>2, <2>1, <2>2
  <1>3. ASSUME NEW g \in Generations, Connect(g) PROVE Preserved
    <2>1. /\ socket[g] = "none" /\ socket' = [socket EXCEPT ![g] = "open"]
          /\ \A h \in Generations : h < g => socket[h] # "none"
          /\ UNCHANGED <<lifecycle, lease, topGen, hello>>
      BY <1>3 DEF Connect, hostVars, history
    <2>2. /\ socket' \in [Generations -> SocketStates] /\ socket'[g] # "none"
          /\ \A h \in Generations \ {g} : socket'[h] = socket[h]
      BY <1>1, <2>1 DEF SocketStates
    <2>3. g \notin 1..topGen
      BY <2>1 DEF SocketsInOrder
    <2>4. \A h \in Generations : socket[h] # "none" => socket'[h] # "none"
      BY <2>2
    <2>5. ASSUME NEW h \in Generations, NEW k \in Generations,
                 h < k, socket'[k] # "none"
          PROVE  socket'[h] # "none"
      <3>1. CASE k = g
        BY <2>1, <2>4, <2>5, <3>1
      <3>2. CASE k # g
        BY <2>2, <2>4, <2>5, <3>2 DEF SocketsInOrder
      <3> QED BY <3>1, <3>2
    <2>6. SocketsInOrder'
      BY <1>1, <2>1, <2>4, <2>5 DEF SocketsInOrder
    <2>7. \A h \in 1..topGen : socket'[h] = socket[h]
      BY <1>1, <2>2, <2>3
    <2>8. FencedConnectionsCannotReturn'
      BY <2>1, <2>7 DEF FencedConnectionsCannotReturn, Live, Delivering
    <2> QED BY <2>2, <2>6, <2>8
  <1>4. ASSUME NEW g \in Generations, Disconnect(g) PROVE Preserved
    <2>1. PICK s \in {"dying", "closed"} :
             /\ socket' = [socket EXCEPT ![g] = s] /\ Delivering(g)
             /\ UNCHANGED <<lifecycle, lease, topGen, hello>>
      BY <1>4 DEF Disconnect, hostVars, history
    <2>2. /\ socket' \in [Generations -> SocketStates] /\ socket'[g] = s
          /\ \A h \in Generations \ {g} : socket'[h] = socket[h]
      BY <1>1, <2>1 DEF SocketStates
    <2>3. \A h \in Generations :
             /\ socket'[h] = "none" <=> socket[h] = "none"
             /\ Live(h)' => Live(h)
             /\ Delivering(h)' => Delivering(h)
      BY <2>1, <2>2 DEF Live, Delivering
    <2> QED BY <1>2, <2>1, <2>2, <2>3
  <1>5. ASSUME NEW g \in Generations, NEW a \in BOOLEAN,
               socket' = AfterFrame(g, a)
        PROVE  /\ socket' \in [Generations -> SocketStates]
               /\ \A h \in Generations :
                     /\ socket'[h] = "none" <=> socket[h] = "none"
                     /\ Live(h)' => Live(h)
                     /\ Delivering(h)' => Delivering(h)
               /\ \A h \in Generations :
                     h # g => socket'[h] = socket[h]
               /\ Delivering(g)' => Live(g)
    <2>1. /\ AfterFrame(g, a) \in [Generations -> SocketStates]
          /\ \A h \in Generations :
                /\ AfterFrame(g, a)[h] = "none" <=> socket[h] = "none"
                /\ AfterFrame(g, a)[h] \in {"open", "ready"}
                      => socket[h] \in {"open", "ready"}
                /\ AfterFrame(g, a)[h] \in {"open", "ready", "dying"}
                      => socket[h] \in {"open", "ready", "dying"}
                /\ h # g => AfterFrame(g, a)[h] = socket[h]
          /\ AfterFrame(g, a)[g] # "dying"
      BY SocketTypes
    <2>2. /\ \A h \in Generations : Live(h)' => Live(h)
          /\ \A h \in Generations : Delivering(h)' => Delivering(h)
      BY <1>5, <2>1 DEF Live, Delivering
    <2>3. Delivering(g)' => Live(g)
      BY <1>5, <2>1 DEF Live, Delivering
    <2> QED BY <1>5, <2>1, <2>2, <2>3
  <1>6. ASSUME NEW g \in Generations, NEW m \in Hellos, HandleHello(g, m)
        PROVE  Preserved
    <2>1. /\ socket' = AfterFrame(g, TRUE)
          /\ UNCHANGED <<lifecycle, lease, topGen>>
          /\ DOMAIN hello' \subseteq DOMAIN hello \cup {g}
      BY <1>6 DEF HandleHello, Remember, Kept, history
    <2>2. \A h \in 1..topGen :
             ~lifecycle.active /\ Delivering(h)'
                => h \in DOMAIN hello \/ h \notin DOMAIN hello'
      BY <1>5, <2>1 DEF FencedConnectionsCannotReturn
    <2> QED BY <1>2, <1>5, <2>1, <2>2
  <1>7. ASSUME NEW g \in Generations, NEW m \in EStops, EmergencyStop(g, m)
        PROVE  Preserved
    <2>1. /\ socket' = AfterFrame(g, FALSE)
          /\ UNCHANGED <<lifecycle, lease, topGen>>
          /\ DOMAIN hello' = DOMAIN hello
      BY <1>7 DEF EmergencyStop, Remember, history
    <2> QED BY <1>2, <1>5, <2>1
  <1>8. ASSUME NEW g \in Generations, socket' = AfterFrame(g, TRUE),
               UNCHANGED topGen,
               lifecycle'.active, ~RequiresReconnect(lease)'
        PROVE  Preserved
    <2>1. SocketsInOrder'
      BY <1>1, <1>5, <1>8 DEF SocketsInOrder
    <2> QED BY <1>5, <1>8, <2>1 DEF FencedConnectionsCannotReturn
  <1>9. ASSUME NEW g \in Generations, NEW m \in Controls, HandleControl(g, m)
        PROVE  Preserved
    <2>1. /\ lease'.active = m.key /\ m.key # NoKey
          /\ lifecycle.active /\ UNCHANGED <<lifecycle, topGen>>
      BY <1>9, ControlLease
    <2>2. socket' = AfterFrame(g, TRUE)
      BY <1>9 DEF HandleControl
    <2> QED BY <1>8, <2>1, <2>2 DEF RequiresReconnect
  <1>10. ASSUME NEW g \in Generations, NEW m \in Resets, RepeatReset(g, m)
         PROVE  Preserved
    <2>1. /\ socket' = AfterFrame(g, TRUE)
          /\ UNCHANGED <<lease, topGen>>
          /\ lifecycle.active
          /\ lifecycle' = lifecycle \/ lifecycle' = LifecycleOf(g, m)
      BY <1>10 DEF RepeatReset, history
    <2>2. lifecycle'.active = TRUE /\ lifecycle.active = TRUE
      BY <2>1 DEF LifecycleOf, HostTypes, Lifecycles
    <2>3. SocketsInOrder'
      BY <1>1, <1>5, <2>1 DEF SocketsInOrder
    <2>4. RequiresReconnect(lease)' <=> RequiresReconnect(lease)
      BY <2>1
    <2>5. FencedConnectionsCannotReturn'
      BY <1>1, <1>5, <2>1, <2>2, <2>4 DEF FencedConnectionsCannotReturn
    <2> QED BY <1>5, <2>1, <2>3, <2>5
  <1>11. ASSUME NEW g \in Generations, NEW m \in Resets,
                Reconnect(g, m) \/ NewSimulation(g, m)
         PROVE  Preserved
    <2>1. /\ \E R \in SUBSET Keys : lease' = Cleared(lease, m.key, R)
          /\ lifecycle' = LifecycleOf(g, m) /\ topGen' = g /\ Delivering(g)
      BY <1>11, TakeoverLease
    <2>2. socket' = AfterFrame(g, TRUE)
      BY <1>11 DEF Reconnect, NewSimulation
    <2>3. lifecycle'.active /\ ~RequiresReconnect(lease)'
      BY <2>1 DEF LifecycleOf, Cleared, FreshLease, RequiresReconnect,
                  HasControlCommand
    <2>4. g \in Nat /\ g <= MaxGeneration /\ 1..g \subseteq Generations
      BY <1>1 DEF Generations
    <2>5. socket[g] # "none"
      BY <2>1 DEF Delivering, Live
    <2>6. \A h \in 1..g : socket[h] # "none"
      BY <2>4, <2>5 DEF SocketsInOrder
    <2>7. SocketsInOrder'
      BY <1>5, <2>1, <2>2, <2>4, <2>6 DEF SocketsInOrder
    <2> QED BY <1>5, <2>2, <2>3, <2>7 DEF FencedConnectionsCannotReturn
  <1>12. ASSUME socket' = AllClosed, UNCHANGED topGen,
                \/ hello' = <<>>
                \/ UNCHANGED <<lifecycle, hello>>
         PROVE  Preserved
    <2>2. AllClosed \in [Generations -> SocketStates]
      BY <1>1 DEF AllClosed, SocketStates
    <2>3. \A h \in Generations :
             /\ socket'[h] = "none" <=> socket[h] = "none"
             /\ ~Live(h)' /\ (Delivering(h)' => Delivering(h))
      BY <1>12, <2>2 DEF AllClosed, Live, Delivering
    <2>4. SocketsInOrder'
      BY <1>1, <1>12, <2>3 DEF SocketsInOrder
    <2>5. DOMAIN <<>> = {}
      OBVIOUS
    <2>6. FencedConnectionsCannotReturn'
      BY <1>1, <1>12, <2>3, <2>5 DEF FencedConnectionsCannotReturn
    <2> QED BY <1>12, <2>2, <2>4, <2>6
  <1>13. ASSUME ReloadTick PROVE Preserved
    BY <1>12, <1>13 DEF ReloadTick
  <1>14. ASSUME Tick PROVE Preserved
    <2>1. UNCHANGED <<lifecycle, hello, topGen>>
      BY <1>14 DEF Tick, history
    <2>2. CASE HardFires
      BY <1>12, <1>14, <2>1, <2>2 DEF Tick
    <2>3. CASE ~HardFires
      <3>1. UNCHANGED socket
        BY <1>14, <2>3 DEF Tick
      <3>2. RequiresReconnect(lease)' <=> RequiresReconnect(lease)
        BY <1>14, <2>3, TickLease DEF RequiresReconnect, HasControlCommand
      <3>3. SocketsInOrder'
        BY <2>1, <3>1 DEF SocketsInOrder
      <3>4. FencedConnectionsCannotReturn'
        BY <2>1, <3>1, <3>2 DEF FencedConnectionsCannotReturn, Live, Delivering
      <3> QED BY <1>1, <3>1, <3>3, <3>4
    <2> QED BY <2>2, <2>3
  <1>15. ASSUME UNCHANGED <<socket, hello, lifecycle, lease, topGen>>
         PROVE  Preserved
    BY <1>1, <1>15 DEF SocketsInOrder, FencedConnectionsCannotReturn, Live,
                       Delivering
  <1>16. ASSUME \/ \E m : QueueMapReload(m)
                \/ Advance
                \/ UNCHANGED vars
         PROVE  Preserved
    BY <1>15, <1>16 DEF QueueMapReload, Advance, vars, serverVars, hostVars,
                        history
  <1> HIDE DEF Preserved
  <1>17. 1..work.connections \subseteq Generations
    <2>1. work.connections \in 0..MaxGeneration
      BY DEF HostTypes, Workload
    <2> QED BY <1>1, <2>1 DEF Generations
  <1>18. ASSUME NEW g \in 1..work.connections,
                \/ Connect(g) \/ Disconnect(g)
                \/ \E m \in Hellos : HandleHello(g, m)
                \/ \E m \in EStops : EmergencyStop(g, m)
         PROVE  Preserved
    BY <1>3, <1>4, <1>6, <1>7, <1>17, <1>18
  <1>19. ASSUME NEW g \in 1..work.connections,
                \/ \E m \in Controls : HandleControl(g, m)
                \/ \E m \in Resets : \/ RepeatReset(g, m)
                                     \/ Reconnect(g, m)
                                     \/ NewSimulation(g, m)
         PROVE  Preserved
    BY <1>9, <1>10, <1>11, <1>17, <1>19
  <1>20. ASSUME Next PROVE Preserved
    BY <1>13, <1>14, <1>16, <1>18, <1>19, <1>20 DEF Next, RunTick
  <1>21. ASSUME UNCHANGED vars PROVE Preserved
    BY <1>16, <1>21
  <1>22. Preserved
    BY <1>20, <1>21
  <1> QED BY <1>22 DEF Preserved

\* The types, but for the lease.
LEMMA TypesKept ==
    ASSUME HostInv, [Next]_vars
    PROVE  HostTypes'
PROOF
  <1> USE DEF HostInv, HostTypes
  <1>1. lease' \in LeaseRecord
    BY AuthorityKept
  <1>2. work' \in Workload /\ now' \in Nat
    <2>1. UNCHANGED work /\ (now' = now \/ now' = now + 1)
      BY ZenonT(60) DEF Next, vars, serverVars, Connect, Disconnect, HandleHello,
             EmergencyStop, HandleControl, RepeatReset, Reconnect,
             NewSimulation, QueueMapReload, RunTick, ReloadTick, Tick, Advance
    <2> QED BY <2>1
  <1> DEFINE Preserved == /\ lifecycle' \in Lifecycles /\ seenPlays' \subseteq PlayKeys
                     /\ topGen' \in Nat /\ runs' \in Seq(Runs)
  <1>3. ASSUME Apart PROVE Preserved
    BY <1>3 DEF Apart
  <1>4. ASSUME NEW g \in Generations, NEW m \in Controls, HandleControl(g, m)
        PROVE  Preserved
    BY <1>4, ControlLease
  <1>5. ASSUME NEW g \in Generations, NEW m \in Resets, RepeatReset(g, m)
        PROVE  Preserved
    BY <1>5, LifecycleType DEF RepeatReset, history
  <1>6. ASSUME NEW g \in Generations, NEW m \in Resets,
               Reconnect(g, m) \/ NewSimulation(g, m)
        PROVE  Preserved
    <2>1. lifecycle' \in Lifecycles /\ topGen' \in Nat
      BY <1>6, TakeoverLease, LifecycleType DEF Generations
    <2>2. CASE Reconnect(g, m)
      BY <2>1, <2>2 DEF Reconnect
    <2>3. CASE NewSimulation(g, m)
      <3>1. PlayKey(m) \in PlayKeys /\ Selected(m) \in Classes \X Loadouts
        BY FrameTypes
      <3>2. [play |-> PlayKey(m), vehicle |-> Selected(m)] \in Runs
        BY <3>1 DEF Runs
      <3> QED BY <2>1, <2>3, <3>1, <3>2 DEF NewSimulation
    <2> QED BY <1>6, <2>2, <2>3
  <1>7. ASSUME ReloadTick PROVE Preserved
    <2>1. Reload \in Runs
      BY HostAssumption DEF Reload, Runs
    <2>2. NoLifecycle \in Lifecycles
      BY DEF NoLifecycle, Lifecycles
    <2> QED BY <1>7, <2>1, <2>2 DEF ReloadTick
  <1>8. ASSUME Tick PROVE Preserved
    BY <1>8 DEF Tick, history
  <1> HIDE DEF Preserved
  <1>9. Preserved
    BY <1>3, <1>4, <1>5, <1>6, <1>7, <1>8, StepKinds
  <1>10. socket' \in [Generations -> SocketStates]
    BY SocketsKept
  <1> QED BY <1>1, <1>2, <1>9, <1>10 DEF Preserved

\* The plays that were started.
LEMMA StartsKept ==
    ASSUME HostInv, [Next]_vars
    PROVE  StartsAreSeen' /\ EachPlayStartsOnce'
PROOF
  <1> DEFINE Preserved == StartsAreSeen' /\ EachPlayStartsOnce'
  <1> USE DEF HostInv
  <1>1. runs \in Seq(Runs)
    BY DEF HostTypes
  <1>2. ASSUME UNCHANGED <<runs, seenPlays, vehicle>>,
               lifecycle'.active = lifecycle.active,
               lifecycle'.play = lifecycle.play
        PROVE  Preserved
    BY <1>2 DEF StartsAreSeen, EachPlayStartsOnce
  <1>3. ASSUME NEW g \in Generations, NEW m \in Controls, HandleControl(g, m)
        PROVE  Preserved
    BY <1>2, <1>3, ControlLease
  <1>4. ASSUME NEW g \in Generations, NEW m \in Resets, RepeatReset(g, m)
        PROVE  Preserved
    <2>1. /\ UNCHANGED <<runs, seenPlays, vehicle>>
          /\ lifecycle.active
          /\ lifecycle' = lifecycle \/ lifecycle' = LifecycleOf(g, m)
          /\ PlayKey(m) = lifecycle.play
      BY <1>4 DEF RepeatReset, history
    <2>2. lifecycle.active = TRUE
      BY <2>1 DEF HostTypes, Lifecycles
    <2>3. CASE lifecycle' = lifecycle
      BY <1>2, <2>1, <2>3
    <2>4. CASE lifecycle' = LifecycleOf(g, m)
      BY <1>2, <2>1, <2>2, <2>4 DEF LifecycleOf
    <2> QED BY <2>1, <2>3, <2>4
  <1>5. ASSUME NEW g \in Generations, NEW m \in Resets, Reconnect(g, m)
        PROVE  Preserved
    <2>1. /\ UNCHANGED <<runs, seenPlays, vehicle>>
          /\ PlayKey(m) = lifecycle.play
          /\ lifecycle' = LifecycleOf(g, m)
      BY <1>5 DEF Reconnect
    <2>2. lifecycle.active
      <3>1. PlayKey(m) # NoPlay
        BY FrameTypes
      <3> QED BY <2>1, <3>1 DEF Ownership, NoLifecycle
    <2>3. lifecycle.active = TRUE
      BY <2>2 DEF HostTypes, Lifecycles
    <2> QED BY <1>2, <2>1, <2>3 DEF LifecycleOf
  <1>6. ASSUME NEW g \in Generations, NEW m \in Resets, NewSimulation(g, m)
        PROVE  Preserved
    <2> DEFINE new == [play |-> PlayKey(m), vehicle |-> Selected(m)]
    <2>1. /\ runs' = Append(runs, new)
          /\ seenPlays' = seenPlays \cup {PlayKey(m)}
          /\ vehicle' = Selected(m)
          /\ lifecycle' = LifecycleOf(g, m)
          /\ PlayKey(m) \notin seenPlays
      BY <1>6 DEF NewSimulation, AlreadySeen
    <2>2. PlayKey(m) # NoPlay
      BY FrameTypes
    <2>3. new.play = PlayKey(m) /\ new.vehicle = Selected(m) /\ new # Reload
      BY <2>2 DEF Reload
    <2>4. lifecycle'.active /\ lifecycle'.play = PlayKey(m)
      BY <2>1 DEF LifecycleOf
    <2>5. new = [play |-> lifecycle'.play, vehicle |-> vehicle']
      BY <2>1, <2>4
    <2> HIDE DEF new
    <2>6. /\ Len(runs') = Len(runs) + 1 /\ Len(runs) \in Nat
          /\ runs'[Len(runs')] = new
          /\ \A i \in 1..Len(runs) : runs'[i] = runs[i]
          /\ runs' # <<>>
      BY <1>1, <2>1
    <2>7. StartsAreSeen'
      BY <2>1, <2>3, <2>6 DEF StartsAreSeen
    <2>8. \A i \in 1..Len(runs) : runs[i].play # PlayKey(m)
      BY <2>1, <2>2 DEF StartsAreSeen, Reload
    <2>9. ASSUME NEW i \in 1..Len(runs'), NEW j \in 1..Len(runs'),
                 runs'[i].play = runs'[j].play, runs'[i] # Reload
          PROVE  i = j
      <3>1. CASE i \in 1..Len(runs) /\ j \in 1..Len(runs)
        BY <2>6, <2>9, <3>1 DEF EachPlayStartsOnce
      <3>2. CASE i = Len(runs') /\ j \in 1..Len(runs)
        BY <2>3, <2>6, <2>8, <2>9, <3>2
      <3>3. CASE j = Len(runs') /\ i \in 1..Len(runs)
        BY <2>3, <2>6, <2>8, <2>9, <3>3
      <3> QED BY <2>6, <3>1, <3>2, <3>3
    <2> QED BY <2>4, <2>5, <2>6, <2>7, <2>9 DEF EachPlayStartsOnce
  <1>7. ASSUME ReloadTick PROVE Preserved
    <2>1. /\ lifecycle' = NoLifecycle /\ UNCHANGED seenPlays
          /\ runs' = IF runs # <<>> /\ runs[Len(runs)] # Reload
                       THEN Append(runs, Reload) ELSE runs
      BY <1>7 DEF ReloadTick
    <2>2. ~lifecycle'.active
      BY <2>1 DEF NoLifecycle
    <2>3. CASE runs' = runs
      <3>1. runs # <<>> => runs[Len(runs)] = Reload
        <4>1. SUFFICES ASSUME runs # <<>>, runs[Len(runs)] # Reload
                       PROVE  FALSE
          OBVIOUS
        <4>2. runs' = Append(runs, Reload)
          BY <2>1, <4>1
        <4>3. Len(runs') = Len(runs) + 1 /\ Len(runs) \in Nat
          BY <1>1, <4>2
        <4> QED BY <2>3, <4>3
      <3> QED BY <2>1, <2>2, <2>3, <3>1 DEF StartsAreSeen, EachPlayStartsOnce
    <2>4. CASE runs' = Append(runs, Reload)
      <3>1. /\ Len(runs') = Len(runs) + 1 /\ Len(runs) \in Nat
            /\ runs'[Len(runs')] = Reload
            /\ \A i \in 1..Len(runs) : runs'[i] = runs[i]
        BY <1>1, <2>4
      <3>2. StartsAreSeen'
        BY <2>1, <3>1 DEF StartsAreSeen
      <3>3. \A i \in 1..Len(runs) : runs[i] # Reload => runs[i].play # NoPlay
        BY HostAssumption DEF StartsAreSeen, HostTypes
      <3>4. ASSUME NEW i \in 1..Len(runs'), NEW j \in 1..Len(runs'),
                   runs'[i].play = runs'[j].play, runs'[i] # Reload
            PROVE  i = j
        <4>1. i \in 1..Len(runs)
          BY <3>1, <3>4
        <4>2. j \in 1..Len(runs)
          <5>1. runs'[i].play # NoPlay
            BY <3>1, <3>3, <3>4, <4>1
          <5>2. Reload.play = NoPlay
            BY DEF Reload
          <5> QED BY <3>1, <3>4, <5>1, <5>2
        <4> QED BY <3>1, <3>4, <4>1, <4>2 DEF EachPlayStartsOnce
      <3> QED BY <2>2, <3>1, <3>2, <3>4 DEF EachPlayStartsOnce
    <2> QED BY <2>1, <2>3, <2>4
  <1>8. ASSUME Tick PROVE Preserved
    BY <1>2, <1>8 DEF Tick, history
  <1>9. ASSUME Apart PROVE Preserved
    BY <1>2, <1>9 DEF Apart
  <1> HIDE DEF Preserved
  <1>10. Preserved
    BY <1>3, <1>4, <1>5, <1>6, <1>7, <1>8, <1>9, StepKinds
  <1> QED BY <1>10 DEF Preserved

-----------------------------------------------------------------------------
(* The invariant.                                                          *)

\* A server that has just started has promised nothing yet.
LEMMA HostInvInit == Init => HostInv
PROOF
  <1> SUFFICES ASSUME Init PROVE HostInv
    OBVIOUS
  <1>1. /\ lease = FreshLease /\ lifecycle = NoLifecycle /\ runs = <<>>
        /\ topGen = 0 /\ input = SafeInput /\ hello = <<>> /\ seenPlays = {}
        /\ used = [pairs |-> {}, replayed |-> FALSE]
        /\ socket = [g \in Generations |-> "none"]
        /\ work \in Workloads /\ now = 0
    BY DEF Init
  <1>2. lease \in LeaseRecord /\ lifecycle \in Lifecycles
    BY <1>1 DEF FreshLease, LeaseRecord, NoLifecycle, Lifecycles
  <1>3. HostTypes
    BY <1>1, <1>2, HostAssumption DEF HostTypes, SocketStates
  <1>4. /\ Ownership /\ LeaseMatchesLifecycle /\ DrivenOnlyWhenActive
        /\ StartsAreSeen /\ EachPlayStartsOnce
    <2>1. Len(runs) = 0
      BY <1>1
    <2>2. /\ lifecycle.active = FALSE /\ lifecycle.key = NoKey
          /\ lease.active = NoKey /\ lease.resetKey = NoKey
          /\ lease.retired = {} /\ lease.safeStop = TRUE
      BY <1>1 DEF FreshLease, NoLifecycle
    <2>3. Ownership /\ LeaseMatchesLifecycle
      BY <1>1, <2>2 DEF Ownership, LeaseMatchesLifecycle
    <2>4. DrivenOnlyWhenActive
      BY <1>1 DEF DrivenOnlyWhenActive
    <2>5. StartsAreSeen /\ EachPlayStartsOnce
      BY <1>1, <2>1, <2>2 DEF StartsAreSeen, EachPlayStartsOnce
    <2> QED BY <2>3, <2>4, <2>5
  <1>5. SocketsInOrder /\ FencedConnectionsCannotReturn
    BY <1>1, HostAssumption
    DEF SocketsInOrder, FencedConnectionsCannotReturn, Generations
  <1>6. UsedKeysAreSpent /\ NoCommandReplay
    BY <1>1 DEF UsedKeysAreSpent, NoCommandReplay
  <1> QED BY <1>3, <1>4, <1>5, <1>6 DEF HostInv

\* Every step of the host keeps every part.
LEMMA HostInvNext == HostInv /\ [Next]_vars => HostInv'
  BY AuthorityKept, UseKept, SocketsKept, TypesKept, StartsKept DEF HostInv

\* The host keeps its invariant, whatever the frames, deadlines and reloads.
THEOREM HostInvariant == Spec => []HostInv
PROOF
  <1>1. Init => HostInv
    BY HostInvInit
  <1>2. HostInv /\ [Next]_vars => HostInv'
    BY HostInvNext
  <1> QED BY <1>1, <1>2, PTL DEF Spec

\* The vehicle is driven only while the published health is active, by the
\* controller of the lifecycle: every way to lose authority, be it a soft or
\* hard deadline, an emergency stop, a reconnect, a new play or a reload, puts
\* the safe input in place of the last driving input in the same step.
THEOREM HostDrivenOnlyWhenActive == Spec => []DrivenOnlyWhenActive
  BY HostInvariant, PTL DEF HostInv

\* The lease of control_lease.hpp and the lifecycle of
\* simulation_host_session.cpp, two records nobody compares, never disagree
\* about the controller.
THEOREM HostLeaseMatchesLifecycle == Spec => []LeaseMatchesLifecycle
  BY HostInvariant, PTL DEF HostInv

\* Whoever drives next is newer than everybody who drove before: close_all()
\* and the cleared table of greetings leave no former owner a way back.
THEOREM HostFencesConnections == Spec => []FencedConnectionsCannotReturn
  BY HostInvariant, PTL DEF HostInv

\* No reconnect, repeated or delayed reset, later play or reload starts a
\* simulation that was started before, and the running play keeps its vehicle.
THEOREM HostStartsPlaysOnce == Spec => []EachPlayStartsOnce
  BY HostInvariant, PTL DEF HostInv

\* No accepted command is accepted again, across all sessions and connections.
THEOREM HostNeverReplays == Spec => []NoCommandReplay
  BY HostInvariant, PTL DEF HostInv

-----------------------------------------------------------------------------
(* The host implements MotionAuthority.                                    *)

\* At the start nobody owns motion.
LEMMA AuthorityInit == Init => Authority!Init
  BY HostAssumption DEF Init, Authority!Init, NoLifecycle

\* Every step of the host is one of the abstract authority or a stutter.
LEMMA AuthorityStep ==
    HostInv /\ [Next]_vars => [Authority!Next]_(Authority!vars)
PROOF
  <1> SUFFICES ASSUME HostInv, [Next]_vars
               PROVE  [Authority!Next]_(Authority!vars)
    OBVIOUS
  <1> DEFINE Owner == IF lifecycle.active /\ ~RequiresReconnect(lease)
                        THEN lifecycle.gen ELSE 0
             Goal == [Authority!Next]_(Authority!vars)
  <1> USE DEF HostInv
  <1>1. ASSUME UNCHANGED <<topGen, estop>>, Owner' = Owner,
               input' = input \/ input' = SafeInput
        PROVE  Goal
    BY <1>1 DEF Authority!Next, Authority!vars, Authority!SafeStop
  <1>2. ASSUME Apart, estop' = TRUE, input' = SafeInput PROVE Goal
    BY <1>2 DEF Apart, Authority!Next, Authority!Latch
  <1>3. ASSUME NEW g \in Generations, NEW m \in Controls, HandleControl(g, m)
        PROVE  Goal
    <2>1. /\ lifecycle.active /\ ~estop /\ ~RequiresReconnect(lease)
          /\ lease'.active = m.key /\ m.key # NoKey
          /\ input' = m.input /\ m.input \in Inputs
          /\ UNCHANGED <<lifecycle, estop, topGen>>
      BY <1>3, ControlLease
    <2>2. ~RequiresReconnect(lease')
      BY <2>1 DEF RequiresReconnect
    <2>3. lifecycle.gen # 0
      BY <2>1 DEF Ownership
    <2>4. Authority!Drive(m.input)
      BY <2>1, <2>2, <2>3 DEF Authority!Drive
    <2> QED BY <2>1, <2>4 DEF Authority!Next
  <1>4. ASSUME NEW g \in Generations, NEW m \in Resets, RepeatReset(g, m)
        PROVE  Goal
    <2>1. /\ UNCHANGED <<lease, estop, input, topGen>>
          /\ lifecycle.active /\ g = lifecycle.gen
          /\ lifecycle' = lifecycle \/ lifecycle' = LifecycleOf(g, m)
      BY <1>4 DEF RepeatReset, history
    <2>2. lifecycle.active = TRUE
      BY <2>1 DEF HostTypes, Lifecycles
    <2>3. lifecycle'.active = lifecycle.active /\ lifecycle'.gen = lifecycle.gen
      <3>1. CASE lifecycle' = lifecycle
        BY <3>1
      <3>2. CASE lifecycle' = LifecycleOf(g, m)
        BY <2>1, <2>2, <3>2 DEF LifecycleOf
      <3> QED BY <2>1, <3>1, <3>2
    <2> QED BY <1>1, <2>1, <2>3
  <1>5. ASSUME NEW g \in Generations, NEW m \in Resets,
               Reconnect(g, m) \/ NewSimulation(g, m)
        PROVE  Goal
    <2>1. /\ \E R \in SUBSET Keys : lease' = Cleared(lease, m.key, R)
          /\ lifecycle' = LifecycleOf(g, m) /\ topGen' = g
          /\ input' = SafeInput /\ ~estop
          /\ g \in DOMAIN hello /\ Delivering(g)
      BY <1>5, TakeoverLease
    <2>2. UNCHANGED estop /\ MayTakeOver(g, m)
      BY <1>5 DEF Reconnect, NewSimulation
    <2>3. /\ lifecycle'.active /\ lifecycle'.gen = g
          /\ ~RequiresReconnect(lease')
      BY <2>1 DEF LifecycleOf, Cleared, FreshLease, RequiresReconnect,
                  HasControlCommand
    <2>4. g > topGen
      <3>1. CASE lifecycle.active
        BY <2>2, <3>1 DEF MayTakeOver, Ownership
      <3>2. CASE ~lifecycle.active
        <4>1. g \notin 1..topGen
          BY <2>1, <3>2 DEF FencedConnectionsCannotReturn
        <4> QED BY <4>1 DEF Generations, HostTypes
      <3> QED BY <3>1, <3>2
    <2>5. Authority!Establish(g)
      BY <2>1, <2>2, <2>3, <2>4 DEF Authority!Establish
    <2> QED BY <2>5 DEF Authority!Next
  <1>6. ASSUME ReloadTick PROVE Goal
    <2>1. /\ UNCHANGED <<topGen, estop>> /\ input' = SafeInput
          /\ ~lifecycle'.active
      BY <1>6 DEF ReloadTick, NoLifecycle
    <2> QED BY <2>1 DEF Authority!Next, Authority!Revoke
  <1>7. ASSUME Tick PROVE Goal
    <2>1. /\ UNCHANGED <<lifecycle, topGen, estop>>
          /\ input' = input \/ input' = SafeInput
      BY <1>7 DEF Tick, history
    <2>2. CASE HardFires
      <3>1. /\ RequiresReconnect(lease')
            /\ SoftFires \/ lease.safeStop
            /\ input' = IF SoftFires THEN SafeInput ELSE input
        BY <1>7, <2>2, TickLease DEF RequiresReconnect, HasControlCommand
      <3>2. input' = SafeInput
        BY <3>1 DEF DrivenOnlyWhenActive, Health
      <3> QED BY <2>1, <3>1, <3>2 DEF Authority!Next, Authority!Revoke
    <2>3. CASE ~HardFires
      <3>1. RequiresReconnect(lease') <=> RequiresReconnect(lease)
        BY <1>7, <2>3, TickLease DEF RequiresReconnect, HasControlCommand
      <3> QED BY <1>1, <2>1, <3>1
    <2> QED BY <2>2, <2>3
  <1>8. ASSUME Apart, UNCHANGED <<estop, input>> PROVE Goal
    BY <1>1, <1>8 DEF Apart
  <1> HIDE DEF Goal
  <1>9. Goal
    BY <1>2, <1>3, <1>4, <1>5, <1>6, <1>7, <1>8, StepKinds
  <1> QED BY <1>9 DEF Goal

\* However frames, deadlines, reconnects and reloads interleave, what the
\* vehicle does is what MotionAuthority allows: one owner, each newer than all
\* before it, driven by nobody else, and nobody after an emergency stop.
THEOREM HostImplementsAuthority == Spec => ImplementsAuthority
PROOF
  <1>1. Init => Authority!Init
    BY AuthorityInit
  <1>2. HostInv /\ [Next]_vars => [Authority!Next]_(Authority!vars)
    BY AuthorityStep
  <1> QED BY <1>1, <1>2, HostInvariant, PTL
          DEF Spec, ImplementsAuthority, Authority!Spec
=============================================================================
