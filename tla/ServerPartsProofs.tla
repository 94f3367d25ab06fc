-------------------------- MODULE ServerPartsProofs --------------------------
(***************************************************************************)
(* Theorems about what the host rests on: the classes of ControlLease and  *)
(* WsSession, and the threads of HotReload that bring it maps and traffic  *)
(* networks.                                                               *)
(*                                                                         *)
(* The lease, for every set of controllers, every timeout and every bound: *)
(* type correctness, the fence, the exactness of the age estimate, and no  *)
(* preemption.  None of the invariants is inductive alone.  The fence      *)
(* needs to know that a deadline only fires for an owner, the age that an  *)
(* owner has sent a command (else the first command of a session would     *)
(* continue an estimate that belongs to nobody), and SafeStop both.        *)
(* LeaseInv is their conjunction.                                          *)
(*                                                                         *)
(* The session, for every queue bound and every number of broadcasts:      *)
(* which operations may run together, whose message is at the front of the *)
(* queue, in which order messages are written, and how many frames reach   *)
(* the host after the end of the session.  What is written stays in order  *)
(* because the queue is in order and the running write is newer than       *)
(* everything written; that in turn needs to know that an idle session has *)
(* an empty queue, that a closing one keeps only the running write, and    *)
(* that a ready one has written its Hello.                                 *)
(*                                                                         *)
(* The reload, for every set of contents and every number of bakes: no     *)
(* interleaving of the exporter with the loader mixes two packages.  The   *)
(* loader compares each file with the manifest before and after it loads   *)
(* it.  If it loads other bytes than the manifest declares, the declared   *)
(* bytes were replaced between the first check and the load, and so they   *)
(* cannot be back at the second: that is what PollMakesProgress carries    *)
(* from step to step.  It rests on the assumption that no file returns     *)
(* within one poll to a value it had (Overwrite).                          *)
(***************************************************************************)
EXTENDS ControlLease, WsSession, HotReload, SequenceTheorems, TLAPS

-----------------------------------------------------------------------------
(* The lease.                                                              *)

\* An owner has sent a command, and no command came from the future.
OwnerHasCommanded ==
    /\ lease.active # NoKey => lease.receivedAt # Never
    /\ lease.receivedAt # Never => lease.receivedAt <= now

LeaseInv ==
    /\ TypeOK
    /\ OwnerHasCommanded
    /\ DisplacedOwnersAreFenced
    /\ QueueAgeIsBacklog
    /\ ArmedOnlyForOwner

-----------------------------------------------------------------------------
(* What the operators of LeaseOps return.                                  *)

\* The estimate of a command's age is a natural number.
LEMMA EstimatedAgeType ==
    ASSUME NEW l \in LeaseRecord, NEW cmd \in Commands, NEW t \in Nat
    PROVE  EstimatedAge(l, cmd, t) \in Nat
PROOF
  <1> SUFFICES ASSUME l.receivedAt # Never
               PROVE  NonNegative(l.queueAge + (t - l.receivedAt)
                                    - (cmd.clientTime - l.clientTime)) \in Nat
    BY DEF EstimatedAge
  <1>1. /\ l.receivedAt \in Nat /\ l.queueAge \in Nat /\ l.clientTime \in Nat
        /\ cmd.clientTime \in Nat
    BY BoundsAssumption DEF LeaseRecord, Never, Commands
  <1> QED BY <1>1 DEF NonNegative

\* Every operation returns a lease.
LEMMA OperationsType ==
    ASSUME NEW l \in LeaseRecord
    PROVE  /\ \A cmd \in Commands, t \in Nat :
                 AfterAccept(l, cmd, t) \in LeaseRecord
           /\ AfterSoftTimeout(l) \in LeaseRecord
           /\ l.active # NoKey => AfterHardTimeout(l) \in LeaseRecord
           /\ \A key \in Keys : AfterBegin(l, key) \in LeaseRecord
           /\ AfterMapReset(l) \in LeaseRecord
           /\ \A key \in Keys : AfterReconnect(l, key) \in LeaseRecord
PROOF
  <1>1. ASSUME NEW cmd \in Commands, NEW t \in Nat
        PROVE  AfterAccept(l, cmd, t) \in LeaseRecord
    <2>1. EstimatedAge(l, cmd, t) \in Nat
      BY EstimatedAgeType
    <2>2. cmd.key \in Keys /\ cmd.seq \in Nat /\ cmd.clientTime \in Nat
      BY BoundsAssumption DEF Commands
    <2> QED BY <2>1, <2>2 DEF AfterAccept, LeaseRecord
  <1>2. AfterSoftTimeout(l) \in LeaseRecord
    BY DEF AfterSoftTimeout, LeaseRecord
  <1>3. l.active # NoKey => AfterHardTimeout(l) \in LeaseRecord
    BY DEF AfterHardTimeout, LeaseRecord
  <1>4. HeldKeys(l) \subseteq Keys
    BY DEF HeldKeys, LeaseRecord
  <1>5. ASSUME NEW key \in Keys \cup {NoKey}, NEW R \in SUBSET Keys
        PROVE  Cleared(l, key, R) \in LeaseRecord
    BY DEF Cleared, FreshLease, LeaseRecord
  <1>6. l.retired \in SUBSET Keys
    BY DEF LeaseRecord
  <1>7. \A key \in Keys : AfterBegin(l, key) \in LeaseRecord
    BY <1>4, <1>5, <1>6 DEF AfterBegin
  <1>8. AfterMapReset(l) \in LeaseRecord
    BY <1>4, <1>5, <1>6 DEF AfterMapReset
  <1>9. \A key \in Keys : AfterReconnect(l, key) \in LeaseRecord
    BY <1>4, <1>5, <1>6 DEF AfterReconnect
  <1> QED BY <1>1, <1>2, <1>3, <1>7, <1>8, <1>9

-----------------------------------------------------------------------------
(* The inductive invariant.                                                *)

\* The fresh lease satisfies the inductive invariant.
LEMMA LeaseInvInit == Init => LeaseInv
PROOF
  <1> SUFFICES ASSUME Init PROVE LeaseInv
    OBVIOUS
  <1> USE DEF Init, FreshLease, Never
  <1>1. TypeOK
    BY DEF TypeOK, LeaseRecord
  <1>2. OwnerHasCommanded
    BY DEF OwnerHasCommanded
  <1>3. DisplacedOwnersAreFenced
    BY DEF DisplacedOwnersAreFenced
  <1>4. QueueAgeIsBacklog
    BY DEF QueueAgeIsBacklog
  <1>5. ArmedOnlyForOwner
    BY DEF ArmedOnlyForOwner
  <1> QED BY <1>1, <1>2, <1>3, <1>4, <1>5 DEF LeaseInv

\* A lifecycle transition leaves nobody armed and retires whom it displaces.
LEMMA ClearedInv ==
    ASSUME LeaseInv,
           NEW key \in Keys \cup {NoKey}, NEW R \in SUBSET Keys,
           lease' = Cleared(lease, key, R),
           lease.retired \subseteq R,
           {lease.active, lease.resetKey} \ {key, NoKey} \subseteq R,
           UNCHANGED <<now, owned, bestOffset>>
    PROVE  LeaseInv'
PROOF
  <1>1. /\ lease'.active = NoKey /\ lease'.resetKey = key
        /\ lease'.retired = R
        /\ lease'.receivedAt = Never /\ lease'.safeStop = TRUE
    BY DEF Cleared, FreshLease
  <1>2. lease' \in LeaseRecord
    BY DEF Cleared, FreshLease, LeaseRecord, Never
  <1>3. TypeOK'
    BY <1>2 DEF TypeOK, LeaseInv
  <1>4. OwnerHasCommanded'
    BY <1>1 DEF OwnerHasCommanded
  <1>5. DisplacedOwnersAreFenced'
    BY <1>1, LeaseAssumption
    DEF DisplacedOwnersAreFenced, LeaseInv, TypeOK
  <1>6. QueueAgeIsBacklog'
    BY <1>1 DEF QueueAgeIsBacklog
  <1>7. ArmedOnlyForOwner'
    BY <1>1 DEF ArmedOnlyForOwner
  <1> QED BY <1>3, <1>4, <1>5, <1>6, <1>7 DEF LeaseInv

\* An accepted command makes its sender a known owner and adds its delay to
\* the estimate, or starts a new one.
LEMMA LeaseInvAccept ==
    ASSUME LeaseInv, NEW cmd \in Commands, Accept(cmd)
    PROVE  LeaseInv'
PROOF
  <1> USE DEF LeaseInv
  <1>1. /\ lease' = AfterAccept(lease, cmd, now)
        /\ lease' \in LeaseRecord
        /\ CanAccept(lease, cmd, now)
    BY OperationsType DEF Accept, TypeOK
  <1>2. /\ lease.receivedAt \in Nat \cup {Never}
        /\ lease.clientTime \in Nat /\ lease.queueAge \in Nat
        /\ now \in Nat /\ bestOffset \in Int
        /\ lease.active \in Keys \cup {NoKey}
    BY DEF TypeOK, LeaseRecord
  <1>3. /\ cmd.key \in Keys /\ cmd.clientTime \in Nat
        /\ cmd.key # NoKey
    BY LeaseAssumption, BoundsAssumption DEF Commands
  <1>4. /\ lease'.active = cmd.key /\ lease'.resetKey = lease.resetKey
        /\ lease'.retired = lease.retired
        /\ lease'.clientTime = cmd.clientTime
        /\ lease'.receivedAt = now
        /\ lease'.queueAge = EstimatedAge(lease, cmd, now)
        /\ lease'.safeStop = FALSE
        /\ lease'.queueAge <= MaxQueueAge
        /\ now' = now /\ owned' = owned \cup {cmd.key}
    BY <1>1, <1>2 DEF AfterAccept, CanAccept, Accept, TypeOK, LeaseRecord
  <1>5. TypeOK'
    <2>1. bestOffset' \in Int
      BY <1>2, <1>3 DEF Accept, SmallerOf
    <2> QED BY <1>1, <1>3, <1>4, <2>1 DEF TypeOK
  <1>6. OwnerHasCommanded'
    BY <1>2, <1>4 DEF OwnerHasCommanded, Never
  <1>7. DisplacedOwnersAreFenced'
    <2>1. cmd.key = lease.active \/ (lease.active = NoKey /\ cmd.key \notin lease.retired)
      BY <1>1 DEF CanAccept
    <2>2. lease'.active \notin lease'.retired
      BY <1>4, <2>1 DEF DisplacedOwnersAreFenced
    <2>3. NoKey \notin owned
      BY LeaseAssumption DEF TypeOK
    <2>4. (owned \cup {cmd.key}) \ {cmd.key, lease.resetKey} \subseteq lease.retired
      BY <2>1, <2>3 DEF DisplacedOwnersAreFenced
    <2> QED BY <1>4, <2>2, <2>4 DEF DisplacedOwnersAreFenced
  <1>8. QueueAgeIsBacklog'
    <2>1. CASE lease.active = cmd.key
      <3>1. lease.receivedAt \in Nat /\ lease.receivedAt # Never
        BY <1>2, <1>3, <2>1 DEF OwnerHasCommanded
      <3>2. lease.queueAge = (lease.receivedAt - lease.clientTime) - bestOffset
        BY <1>3, <2>1 DEF QueueAgeIsBacklog
      <3>3. lease'.queueAge
              = NonNegative(lease.queueAge + (now - lease.receivedAt)
                              - (cmd.clientTime - lease.clientTime))
        BY <1>4, <2>1, <3>1 DEF EstimatedAge
      <3>4. lease'.queueAge = NonNegative((now - cmd.clientTime) - bestOffset)
        BY <1>2, <1>3, <3>1, <3>2, <3>3
      <3>5. bestOffset' = SmallerOf(bestOffset, now - cmd.clientTime)
        BY <2>1 DEF Accept
      <3>6. lease'.queueAge = (now - cmd.clientTime) - bestOffset'
        BY <1>2, <1>3, <3>4, <3>5 DEF NonNegative, SmallerOf
      <3> QED BY <1>4, <3>6 DEF QueueAgeIsBacklog
    <2>2. CASE lease.active # cmd.key
      <3>1. lease'.queueAge = 0
        BY <1>4, <2>2 DEF EstimatedAge
      <3>2. bestOffset' = now - cmd.clientTime
        BY <2>2 DEF Accept
      <3> QED BY <1>2, <1>3, <1>4, <3>1, <3>2 DEF QueueAgeIsBacklog
    <2> QED BY <2>1, <2>2
  <1>9. ArmedOnlyForOwner'
    BY <1>2, <1>3, <1>4 DEF ArmedOnlyForOwner, Never
  <1> QED BY <1>5, <1>6, <1>7, <1>8, <1>9

\* A deadline disarms, and the hard one retires the owner it takes away.
LEMMA LeaseInvTimeouts ==
    ASSUME LeaseInv, UpdateTimeout \/ UpdateHardTimeout
    PROVE  LeaseInv'
PROOF
  <1> USE DEF LeaseInv
  <1>1. CASE UpdateTimeout
    <2>1. /\ lease' = [lease EXCEPT !.safeStop = TRUE]
          /\ UNCHANGED <<now, owned, bestOffset>>
      BY <1>1 DEF UpdateTimeout, AfterSoftTimeout
    <2>2. lease' \in LeaseRecord
      BY <2>1 DEF TypeOK, LeaseRecord
    <2>3. /\ lease'.active = lease.active /\ lease'.resetKey = lease.resetKey
          /\ lease'.retired = lease.retired
          /\ lease'.receivedAt = lease.receivedAt
          /\ lease'.clientTime = lease.clientTime
          /\ lease'.queueAge = lease.queueAge /\ lease'.safeStop = TRUE
      BY <2>1 DEF TypeOK, LeaseRecord
    <2> QED BY <2>1, <2>2, <2>3
            DEF TypeOK, OwnerHasCommanded, DisplacedOwnersAreFenced,
                QueueAgeIsBacklog, ArmedOnlyForOwner
  <1>2. CASE UpdateHardTimeout
    <2>1. /\ lease' = AfterHardTimeout(lease)
          /\ lease.active # NoKey
          /\ UNCHANGED <<now, owned, bestOffset>>
      BY <1>2 DEF UpdateHardTimeout, HardTimeoutDue
    <2>2. lease' \in LeaseRecord
      BY <2>1, OperationsType DEF TypeOK
    <2>3. /\ lease'.active = NoKey /\ lease'.resetKey = lease.resetKey
          /\ lease'.retired = lease.retired \cup {lease.active}
          /\ lease'.receivedAt = lease.receivedAt
          /\ lease'.safeStop = TRUE
      BY <2>1 DEF AfterHardTimeout, TypeOK, LeaseRecord
    <2>4. TypeOK' /\ OwnerHasCommanded'
      BY <2>1, <2>2, <2>3 DEF TypeOK, OwnerHasCommanded
    <2>5. DisplacedOwnersAreFenced'
      <3>1. NoKey \notin lease.retired \cup {lease.active}
        BY <2>1, LeaseAssumption DEF TypeOK, LeaseRecord
      <3>2. owned \ {NoKey, lease.resetKey}
              \subseteq lease.retired \cup {lease.active}
        BY DEF DisplacedOwnersAreFenced
      <3> QED BY <2>1, <2>3, <3>1, <3>2 DEF DisplacedOwnersAreFenced
    <2>6. QueueAgeIsBacklog' /\ ArmedOnlyForOwner'
      BY <2>3 DEF QueueAgeIsBacklog, ArmedOnlyForOwner
    <2> QED BY <2>4, <2>5, <2>6
  <1> QED BY <1>1, <1>2

\* Every step of the lease preserves the inductive invariant.
LEMMA LeaseInvNext == LeaseInv /\ [Next]_vars => LeaseInv'
PROOF
  <1> SUFFICES ASSUME LeaseInv, [Next]_vars PROVE LeaseInv'
    OBVIOUS
  <1> USE DEF LeaseInv
  <1>1. CASE Advance
    <2>1. now' = now + 1 /\ UNCHANGED <<lease, owned, bestOffset>>
      BY <1>1 DEF Advance
    <2>2. lease.receivedAt # Never => lease.receivedAt \in Nat
      BY DEF TypeOK, LeaseRecord
    <2>3. TypeOK' /\ OwnerHasCommanded'
      BY <2>1, <2>2 DEF TypeOK, OwnerHasCommanded
    <2> QED BY <2>1, <2>3
            DEF DisplacedOwnersAreFenced, QueueAgeIsBacklog, ArmedOnlyForOwner
  <1>2. ASSUME NEW cmd \in Commands, Accept(cmd) PROVE LeaseInv'
    BY <1>2, LeaseInvAccept
  <1>3. CASE UpdateTimeout \/ UpdateHardTimeout
    BY <1>3, LeaseInvTimeouts
  <1>4. HeldKeys(lease) \subseteq Keys /\ lease.retired \subseteq Keys
    BY DEF HeldKeys, TypeOK, LeaseRecord
  <1>5. ASSUME NEW key \in Keys, BeginNewSimulation(key) PROVE LeaseInv'
    <2> DEFINE R == lease.retired \cup (HeldKeys(lease) \ {key})
    <2>1. R \in SUBSET Keys /\ lease.retired \subseteq R
      BY <1>4
    <2>2. {lease.active, lease.resetKey} \ {key, NoKey} \subseteq R
      BY DEF HeldKeys
    <2>3. lease' = Cleared(lease, key, R) /\ UNCHANGED <<now, owned, bestOffset>>
      BY <1>5 DEF BeginNewSimulation, AfterBegin
    <2> HIDE DEF R
    <2> QED BY <2>1, <2>2, <2>3, ClearedInv
  <1>6. ASSUME NEW key \in Keys, ResetForReconnect(key) PROVE LeaseInv'
    <2> DEFINE R == lease.retired \cup HeldKeys(lease)
    <2>1. R \in SUBSET Keys /\ lease.retired \subseteq R
      BY <1>4
    <2>2. {lease.active, lease.resetKey} \ {key, NoKey} \subseteq R
      BY DEF HeldKeys
    <2>3. lease' = Cleared(lease, key, R) /\ UNCHANGED <<now, owned, bestOffset>>
      BY <1>6 DEF ResetForReconnect, AfterReconnect
    <2> HIDE DEF R
    <2> QED BY <2>1, <2>2, <2>3, ClearedInv
  <1>7. CASE ResetForNewSimulation
    <2> DEFINE R == lease.retired \cup HeldKeys(lease)
    <2>1. R \in SUBSET Keys /\ lease.retired \subseteq R
      BY <1>4
    <2>2. {lease.active, lease.resetKey} \ {NoKey, NoKey} \subseteq R
      BY DEF HeldKeys
    <2>3. lease' = Cleared(lease, NoKey, R) /\ UNCHANGED <<now, owned, bestOffset>>
      BY <1>7 DEF ResetForNewSimulation, AfterMapReset
    <2> HIDE DEF R
    <2> QED BY <2>1, <2>2, <2>3, ClearedInv
  <1>8. CASE UNCHANGED vars
    BY <1>8 DEF vars, TypeOK, OwnerHasCommanded, DisplacedOwnersAreFenced,
                QueueAgeIsBacklog, ArmedOnlyForOwner
  <1> QED BY <1>1, <1>2, <1>3, <1>5, <1>6, <1>7, <1>8 DEF Next

\* LeaseInv holds in every reachable state of the lease.
THEOREM LeaseInvariant == Spec => []LeaseInv
PROOF
  <1> QED BY LeaseInvInit, LeaseInvNext, PTL DEF Spec

\* The lease is always a lease: the estimate of the age in particular stays a
\* natural number whatever the two clocks do.
THEOREM LeaseTypeCorrect == Spec => []TypeOK
PROOF
  <1>1. LeaseInv => TypeOK
    BY DEF LeaseInv
  <1> QED BY <1>1, LeaseInvariant, PTL

\* Every displaced owner stays fenced off, for any number of controllers.
THEOREM DisplacedOwnersStayFenced == Spec => []DisplacedOwnersAreFenced
PROOF
  <1>1. LeaseInv => DisplacedOwnersAreFenced
    BY DEF LeaseInv
  <1> QED BY <1>1, LeaseInvariant, PTL

\* The estimate is exactly the backlog since the freshest command and never
\* exceeds the limit, for every length of the run and every limit.
THEOREM QueueAgeIsExact == Spec => []QueueAgeIsBacklog
PROOF
  <1>1. LeaseInv => QueueAgeIsBacklog
    BY DEF LeaseInv
  <1> QED BY <1>1, LeaseInvariant, PTL

\* Only an owner that has sent a command arms motion.
THEOREM ArmedMeansOwned == Spec => []ArmedOnlyForOwner
PROOF
  <1>1. LeaseInv => ArmedOnlyForOwner
    BY DEF LeaseInv
  <1> QED BY <1>1, LeaseInvariant, PTL

\* Ownership never passes directly from one controller to another, in SafeStop
\* or out of it.
THEOREM OwnersAreNotPreempted == Spec => NoPreemption
PROOF
  <1> DEFINE A == lease.active # NoKey /\ lease'.active # NoKey
                    => lease'.active = lease.active
  <1>1. LeaseInv /\ [Next]_vars => [A]_vars
    <2> SUFFICES ASSUME LeaseInv, Next PROVE A
      BY DEF vars
    <2> USE DEF LeaseInv, TypeOK, LeaseRecord
    <2>1. CASE Advance
      BY <2>1 DEF Advance
    <2>2. ASSUME NEW cmd \in Commands, Accept(cmd) PROVE A
      <3>1. lease'.active = cmd.key
        BY <2>2 DEF Accept, AfterAccept
      <3>2. cmd.key = lease.active \/ lease.active = NoKey
        BY <2>2 DEF Accept, CanAccept
      <3> QED BY <3>1, <3>2
    <2>3. CASE UpdateTimeout
      BY <2>3 DEF UpdateTimeout, AfterSoftTimeout
    <2>4. CASE UpdateHardTimeout
      BY <2>4 DEF UpdateHardTimeout, AfterHardTimeout
    <2>5. ASSUME NEW key, BeginNewSimulation(key) PROVE A
      BY <2>5 DEF BeginNewSimulation, AfterBegin, Cleared, FreshLease
    <2>6. CASE ResetForNewSimulation
      BY <2>6 DEF ResetForNewSimulation, AfterMapReset, Cleared, FreshLease
    <2>7. ASSUME NEW key, ResetForReconnect(key) PROVE A
      BY <2>7 DEF ResetForReconnect, AfterReconnect, Cleared, FreshLease
    <2> QED BY <2>1, <2>2, <2>3, <2>4, <2>5, <2>6, <2>7 DEF Next
  <1> QED BY <1>1, LeaseInvariant, PTL DEF Spec, NoPreemption

-----------------------------------------------------------------------------
(* The session.                                                            *)

\* How far the handshake has come bounds what else can run.
StagesInOrder ==
    /\ accept # "idle" => ~handshakeComplete
    /\ read # "idle" => handshakeComplete
    /\ applicationReady => handshakeComplete
    /\ timer # "idle" => handshakeComplete
    /\ ~handshakeComplete /\ closeRequested => closed
    /\ accept # "idle" /\ closed => closeRequested

\* A frame that came late was the last of its session.
LateFrameIsLast ==
    lateFrames > 0
      => closed /\ handshakeComplete /\ read \in {"idle", "error"}

\* The queue holds newer and newer messages, none of them from the future.
QueueInOrder ==
    /\ \A i, j \in 1..Len(queue) : i < j => queue[i] < queue[j]
    /\ \A i \in 1..Len(queue) : queue[i] <= broadcasts
    /\ \A i \in 1..Len(sent) : sent[i] <= broadcasts

\* What is not yet written is newer than all that is: the running write is
\* the Hello or newer than the last message written, nothing waits without
\* a running write, a closing session keeps only the running write, and a
\* ready one has written its Hello or is about to.
WritesInOrder ==
    /\ write = "idle" => queue = <<>>
    /\ closed \/ closeRequested => Len(queue) <= 1
    /\ write = "pending" => IF sent = <<>> THEN queue[1] = 0
                                           ELSE sent[Len(sent)] < queue[1]
    /\ write = "ok" => sent # <<>>
    /\ ~handshakeComplete => sent = <<>>
    /\ handshakeComplete /\ ~closed /\ ~closeRequested /\ write = "idle"
         => sent # <<>>

SessionInv ==
    /\ SessionTypeOK
    /\ NoForbiddenOverlap
    /\ StagesInOrder
    /\ LateFrameIsLast
    /\ WriteOwnsFront
    /\ QueueInOrder
    /\ WritesInOrder

-----------------------------------------------------------------------------
(* What the helpers do to a queue.                                         *)

\* A queue that is not empty keeps its first message and no other.
LEMMA KeepFrontOf ==
    ASSUME NEW S, NEW q \in Seq(S), q # <<>>
    PROVE  KeepFront(q) = <<q[1]>>
PROOF
  <1>1. Len(q) \in Nat /\ Len(q) >= 1
    BY EmptySeq
  <1>2. q[1] \in S
    BY <1>1, ElementOfSeq
  <1>3. /\ SubSeq(q, 1, 1) \in Seq(S)
        /\ Len(SubSeq(q, 1, 1)) = 1
        /\ SubSeq(q, 1, 1)[1] = q[1]
    <2>1. \A i \in 1..1 : q[i] \in S
      BY <1>2
    <2> QED BY <2>1, SubSeqProperties
  <1>4. <<q[1]>> \in Seq(S) /\ Len(<<q[1]>>) = 1 /\ <<q[1]>>[1] = q[1]
    BY <1>2
  <1>5. SubSeq(q, 1, 1) = <<q[1]>>
    <2>1. \A i \in 1..Len(SubSeq(q, 1, 1)) : SubSeq(q, 1, 1)[i] = <<q[1]>>[i]
      BY <1>3, <1>4
    <2> QED BY <1>3, <1>4, <2>1, SeqEqual
  <1> QED BY <1>5 DEF KeepFront

\* What a queue may look like when it is dropped.
LEMMA DroppedQueue ==
    ASSUME SessionInv
    PROVE  (IF writeInProgress THEN KeepFront(queue) ELSE <<>>)
             = IF write = "idle" THEN <<>> ELSE <<queue[1]>>
PROOF
  <1>1. writeInProgress => KeepFront(queue) = <<queue[1]>>
    BY KeepFrontOf DEF SessionInv, SessionTypeOK, WriteOwnsFront
  <1> QED BY <1>1 DEF SessionInv, WriteOwnsFront

-----------------------------------------------------------------------------
(* Which operations run together.                                          *)

\* Every step keeps the handshake, the close and the writes apart, and lets
\* at most one late frame through.
LEMMA ControlStep ==
    ASSUME SessionInv, SessionNext
    PROVE  /\ NoForbiddenOverlap' /\ StagesInOrder' /\ LateFrameIsLast'
           /\ writeInProgress' = (write' # "idle")
           /\ lateFrames' \in 0..1
           /\ lateFrames' # lateFrames => ~closeRequested /\ lateFrames = 0
           /\ {accept', read', write', close', timer'} \subseteq OpStates
           /\ frame' \in FrameKinds
           /\ {handshakeComplete', applicationReady', writeInProgress',
               closeRequested', closed'} \subseteq BOOLEAN
PROOF
  <1> USE DEF SessionInv, SessionTypeOK, NoForbiddenOverlap, StagesInOrder,
              LateFrameIsLast, WriteOwnsFront, OpStates, Completed,
              FrameKinds, operations, flags, history, Aborted, Started
  <1>1. CASE AcceptCompletes
    BY <1>1 DEF AcceptCompletes
  <1>2. CASE ReadCompletes
    BY <1>2 DEF ReadCompletes
  <1>3. CASE WriteCompletes
    BY <1>3 DEF WriteCompletes
  <1>4. CASE CloseCompletes
    BY <1>4 DEF CloseCompletes
  <1>5. CASE TimerExpires
    BY <1>5 DEF TimerExpires
  <1>6. CASE OnAccept
    BY <1>6 DEF OnAccept, StartClose, Send
  <1>7. CASE OnReadError
    BY <1>7 DEF OnReadError
  <1>8. CASE OnReadText
    BY <1>8 DEF OnReadText, RequestClose, StartClose
  <1>9. CASE OnReadDropped
    BY <1>9 DEF OnReadDropped
  <1>10. CASE OnReadDispatched
    <2>1. lateFrames = 0 /\ lateFrames' \in 0..1 /\ ~closeRequested
      BY <1>10 DEF OnReadDispatched, MayDispatch
    <2>2. lateFrames' > 0 => closed
      BY <1>10, <2>1 DEF OnReadDispatched
    <2>3. CASE applicationReady \/ frame = "hello"
      BY <1>10, <2>1, <2>2, <2>3 DEF OnReadDispatched
    <2>4. CASE ~(applicationReady \/ frame = "hello")
      BY <1>10, <2>1, <2>2, <2>4
         DEF OnReadDispatched, RequestClose, StartClose
    <2> QED BY <2>3, <2>4
  <1>11. CASE OnWriteError
    BY <1>11 DEF OnWriteError
  <1>12. CASE OnWriteDone
    BY <1>12 DEF OnWriteDone, StartClose, WritesNext
  <1>13. CASE OnClose
    BY <1>13 DEF OnClose
  <1>14. CASE OnTimer
    BY <1>14 DEF OnTimer
  <1>15. CASE Broadcast
    BY <1>15 DEF Broadcast, Send
  <1>16. CASE CloseAll
    BY <1>16 DEF CloseAll, RequestClose, StartClose
  <1> QED BY <1>1, <1>2, <1>3, <1>4, <1>5, <1>6, <1>7, <1>8, <1>9, <1>10,
             <1>11, <1>12, <1>13, <1>14, <1>15, <1>16
          DEF SessionNext, Completions, Handlers

-----------------------------------------------------------------------------
(* In which order messages are written.                                    *)

\* What every step preserves of the queue and of what was written.
Ordered ==
    /\ queue \in Seq(0..MaxStates) /\ sent \in Seq(0..MaxStates)
    /\ broadcasts \in 0..MaxStates
    /\ WriteOwnsFront /\ QueueInOrder /\ WritesInOrder

\* A step that neither sends, writes nor ends the session.
LEMMA QueueKept ==
    ASSUME SessionInv,
           UNCHANGED << queue, write, writeInProgress, sent, broadcasts,
                        handshakeComplete >>,
           (closed' \/ closeRequested') = (closed \/ closeRequested)
    PROVE  Ordered'
PROOF
  BY DEF SessionInv, SessionTypeOK, Ordered, WriteOwnsFront, QueueInOrder,
         WritesInOrder

\* A step that ends the session leaves it the running write at most.
LEMMA QueueDropped ==
    ASSUME SessionInv,
           queue' = IF write = "idle" THEN <<>> ELSE <<queue[1]>>,
           write' \in {write, Aborted(write)},
           closed' \/ closeRequested',
           handshakeComplete => handshakeComplete',
           UNCHANGED <<writeInProgress, sent, broadcasts>>
    PROVE  Ordered'
PROOF
  <1> USE DEF SessionInv, SessionTypeOK
  <1>1. write # "idle" => queue[1] \in 0..MaxStates /\ queue[1] <= broadcasts
    <2> SUFFICES ASSUME write # "idle"
                 PROVE  queue[1] \in 0..MaxStates /\ queue[1] <= broadcasts
      OBVIOUS
    <2>1. Len(queue) \in Nat /\ Len(queue) >= 1
      BY EmptySeq DEF WriteOwnsFront
    <2>2. queue[1] \in 0..MaxStates
      <3>1. 1 \in 1..Len(queue) /\ queue \in Seq(0..MaxStates)
        BY <2>1
      <3> HIDE DEF SessionInv, SessionTypeOK, WriteCompletes
      <3> QED BY <3>1, ElementOfSeq
    <2>3. queue[1] <= broadcasts
      BY <2>1 DEF QueueInOrder
    <2> QED BY <2>2, <2>3
  <1>2. /\ queue' \in Seq(0..MaxStates)
        /\ Len(queue') = IF write = "idle" THEN 0 ELSE 1
        /\ write # "idle" => queue'[1] = queue[1] /\ queue' # <<>>
    <2>1. CASE write = "idle"
      BY <2>1, EmptySeq
    <2>2. CASE write # "idle"
      <3>1. queue' = <<queue[1]>> /\ queue[1] \in 0..MaxStates
        BY <1>1, <2>2
      <3> QED BY <2>2, <3>1
    <2> QED BY <2>1, <2>2
  <1>3. write' = "idle" <=> write = "idle"
    BY DEF Aborted, OpStates
  <1>4. write' \in {"pending", "ok"} => write' = write
    BY DEF Aborted
  <1>5. WriteOwnsFront'
    BY <1>2, <1>3, <1>4 DEF WriteOwnsFront
  <1>6. QueueInOrder'
    BY <1>1, <1>2 DEF QueueInOrder
  <1>7. WritesInOrder'
    BY <1>2, <1>3, <1>4 DEF WritesInOrder
  <1> QED BY <1>2, <1>5, <1>6, <1>7 DEF Ordered

\* A message newer than all before it is sent: the Hello of a session that
\* wrote nothing, or the next world state of one that wrote its Hello.
LEMMA MessageSent ==
    ASSUME SessionInv, NEW msg \in 0..MaxStates,
           Send(queue, msg),
           broadcasts' \in 0..MaxStates, broadcasts' >= broadcasts,
           msg <= broadcasts',
           \A i \in 1..Len(queue) : queue[i] < msg,
           \A i \in 1..Len(sent) : sent[i] < msg,
           write = "idle" /\ sent = <<>> => msg = 0,
           ~closed, ~closeRequested, ~closed', ~closeRequested',
           handshakeComplete', sent' = sent
    PROVE  Ordered'
PROOF
  <1> USE DEF SessionInv, SessionTypeOK
  <1>1. /\ Len(queue) \in Nat
        /\ queue # <<>> <=> Len(queue) >= 1
        /\ \A i \in 1..Len(queue) : queue[i] \in 0..MaxStates
        /\ Len(sent) \in Nat
        /\ sent # <<>> => Len(sent) >= 1
        /\ \A i \in 1..Len(sent) : sent[i] \in 0..MaxStates
    <2>1. /\ Len(queue) \in Nat
          /\ queue # <<>> => Len(queue) >= 1
          /\ Len(sent) \in Nat
          /\ sent # <<>> => Len(sent) >= 1
      BY EmptySeq, LenProperties
    <2>2. Len(queue) >= 1 => queue # <<>>
      OBVIOUS
    <2>3. /\ \A i \in 1..Len(queue) : queue[i] \in 0..MaxStates
          /\ \A i \in 1..Len(sent) : sent[i] \in 0..MaxStates
      BY ElementOfSeq
    <2> QED BY <2>1, <2>2, <2>3
  <1>2. write' # "idle" /\ writeInProgress'
    BY DEF Send, WriteOwnsFront
  <1>3. \A i \in 1..Len(sent) : sent[i] <= broadcasts'
    BY <1>1 DEF QueueInOrder
  <1>4. CASE writeInProgress /\ Len(queue) >= MaxQueue
    <2>1. queue' = [queue EXCEPT ![Len(queue)] = msg] /\ write' = write
      BY <1>4 DEF Send
    <2>2. Len(queue) >= 2
      BY <1>1, <1>4, SessionAssumption
    <2>3. /\ queue' \in Seq(0..MaxStates)
          /\ Len(queue') = Len(queue)
          /\ \A i \in 1..Len(queue) :
               queue'[i] = IF i = Len(queue) THEN msg ELSE queue[i]
      BY <1>1, <2>1, <2>2, ExceptSeq
    <2>4. queue' # <<>> /\ queue'[1] = queue[1]
      BY <1>1, <2>2, <2>3, EmptySeq
    <2>5. WriteOwnsFront'
      BY <1>2, <2>1, <2>4 DEF WriteOwnsFront
    <2>6. QueueInOrder'
      <3>1. ASSUME NEW i \in 1..Len(queue'), NEW j \in 1..Len(queue'), i < j
            PROVE  queue'[i] < queue'[j]
        <4>1. /\ i \in 1..Len(queue) /\ j \in 1..Len(queue)
              /\ i # Len(queue)
          BY <1>1, <2>3, <3>1
        <4>2. queue'[i] = queue[i]
          BY <2>3, <4>1
        <4>3. CASE j = Len(queue)
          <5>1. queue'[j] = msg
            BY <2>3, <4>1, <4>3
          <5> QED BY <4>1, <4>2, <5>1
        <4>4. CASE j # Len(queue)
          <5>1. queue'[j] = queue[j]
            BY <2>3, <4>1, <4>4
          <5>2. queue[i] < queue[j]
            BY <3>1, <4>1 DEF QueueInOrder
          <5> QED BY <4>2, <5>1, <5>2
        <4> QED BY <4>3, <4>4
      <3>2. \A i \in 1..Len(queue') : queue'[i] <= broadcasts'
        BY <1>1, <2>3 DEF QueueInOrder
      <3> QED BY <1>3, <3>1, <3>2 DEF QueueInOrder
    <2>7. WritesInOrder'
      BY <1>2, <2>1, <2>4 DEF WritesInOrder
    <2> QED BY <2>3, <2>5, <2>6, <2>7 DEF Ordered
  <1>5. CASE ~(writeInProgress /\ Len(queue) >= MaxQueue)
    <2>1. queue' = Append(queue, msg)
      BY <1>5 DEF Send
    <2>2. /\ queue' \in Seq(0..MaxStates)
          /\ Len(queue') = Len(queue) + 1
          /\ \A i \in 1..Len(queue') :
               queue'[i] = IF i = Len(queue) + 1 THEN msg ELSE queue[i]
      BY <1>1, <2>1
    <2>3. queue' # <<>>
      BY <1>1, <2>2, EmptySeq
    <2>4. write # "idle" => queue # <<>> /\ queue'[1] = queue[1]
      BY <1>1, <2>2 DEF WriteOwnsFront
    <2>5. write' = IF write = "idle" THEN "pending" ELSE write
      BY DEF Send, WriteOwnsFront
    <2>6. write = "idle" => queue'[1] = msg
      BY <1>1, <2>2 DEF WritesInOrder
    <2>7. WriteOwnsFront'
      BY <1>2, <2>3, <2>4, <2>5 DEF WriteOwnsFront
    <2>8. QueueInOrder'
      <3>1. \A i, j \in 1..Len(queue') : i < j => queue'[i] < queue'[j]
        <4> SUFFICES ASSUME NEW i \in 1..Len(queue'), NEW j \in 1..Len(queue'),
                            i < j
                     PROVE  queue'[i] < queue'[j]
          OBVIOUS
        <4>1. i \in 1..Len(queue) /\ queue'[i] = queue[i]
          BY <1>1, <2>2
        <4>2. CASE j = Len(queue) + 1
          BY <2>2, <4>1, <4>2
        <4>3. CASE j # Len(queue) + 1
          <5>1. j \in 1..Len(queue) /\ queue'[j] = queue[j]
            <6>1. Len(queue) \in Nat /\ j \in 1..(Len(queue) + 1)
              BY <1>1, <2>2
            <6>2. j \in 1..Len(queue)
              BY SMTT(30), <4>3, <6>1
            <6> QED BY <2>2, <4>3, <6>2
          <5>2. queue[i] < queue[j]
            BY <4>1, <5>1 DEF QueueInOrder
          <5> QED BY <4>1, <5>1, <5>2
        <4> QED BY <4>2, <4>3
      <3>2. \A i \in 1..Len(queue') : queue'[i] <= broadcasts'
        <4>1. \A i \in 1..Len(queue) : queue[i] <= broadcasts'
          BY <1>1 DEF QueueInOrder
        <4> QED BY <1>1, <2>2, <4>1
      <3> QED BY <1>3, <3>1, <3>2 DEF QueueInOrder
    <2>9. sent # <<>> => sent[Len(sent)] < msg
      BY <1>1
    <2>10. WritesInOrder'
      BY <1>1, <1>2, <2>4, <2>5, <2>6, <2>9 DEF WritesInOrder
    <2> QED BY <2>2, <2>7, <2>8, <2>10 DEF Ordered
  <1> QED BY <1>4, <1>5

\* A running write completes: what was written last is now the front.
LEMMA MessageWritten ==
    ASSUME SessionInv, WriteCompletes
    PROVE  Ordered'
PROOF
  <1> USE DEF SessionInv, SessionTypeOK, WriteCompletes, flags
  <1>1. /\ queue # <<>> /\ Len(queue) \in Nat /\ Len(queue) >= 1
        /\ Len(sent) \in Nat /\ (sent # <<>> => Len(sent) >= 1)
    BY EmptySeq, LenProperties DEF WriteOwnsFront
  <1>2. queue[1] \in 0..MaxStates /\ queue[1] <= broadcasts
    <2>1. 1 \in 1..Len(queue) /\ queue \in Seq(0..MaxStates)
      BY <1>1
    <2>2. queue[1] <= broadcasts
      BY <2>1 DEF QueueInOrder
    <2> HIDE DEF SessionInv, SessionTypeOK
    <2> QED BY <2>1, <2>2, ElementOfSeq
  <1>3. CASE write' = "error"
    <2>1. sent' = sent
      BY <1>3
    <2> QED BY <1>3, <2>1 DEF Ordered, WriteOwnsFront, QueueInOrder,
                              WritesInOrder
  <1>4. CASE write' = "ok"
    <2>1. sent' = Append(sent, queue[1])
      BY <1>4
    <2>2. /\ sent' \in Seq(0..MaxStates) /\ Len(sent') = Len(sent) + 1
          /\ \A i \in 1..Len(sent') :
               sent'[i] = IF i = Len(sent) + 1 THEN queue[1] ELSE sent[i]
      <3>1. sent \in Seq(0..MaxStates)
        OBVIOUS
      <3> HIDE DEF SessionInv, SessionTypeOK, WriteCompletes
      <3>2. /\ sent' \in Seq(0..MaxStates) /\ Len(sent') = Len(sent) + 1
            /\ \A i \in 1..Len(sent) : sent'[i] = sent[i]
            /\ sent'[Len(sent) + 1] = queue[1]
        BY <1>2, <2>1, <3>1, AppendProperties
      <3> QED BY <1>1, <3>2
    <2>3. sent' # <<>> /\ sent'[Len(sent')] = queue[1]
      BY <1>1, <2>2, EmptySeq
    <2>4. \A i \in 1..Len(sent') : IF i = 1 THEN sent'[i] = 0
                                            ELSE sent'[i - 1] < sent'[i]
      <3> SUFFICES ASSUME NEW i \in 1..Len(sent')
                   PROVE  IF i = 1 THEN sent'[i] = 0
                                   ELSE sent'[i - 1] < sent'[i]
        OBVIOUS
      <3>1. CASE i # Len(sent) + 1
        <4>1. i \in 1..Len(sent) /\ sent'[i] = sent[i]
          BY <1>1, <2>2, <3>1
        <4>2. i # 1 => i - 1 \in 1..Len(sent) /\ sent'[i - 1] = sent[i - 1]
          BY <1>1, <2>2, <3>1
        <4> QED BY <4>1, <4>2 DEF WriteOwnsFront
      <3>2. CASE i = Len(sent) + 1
        <4>1. sent'[i] = queue[1]
          BY <2>2, <3>2
        <4>2. CASE sent = <<>>
          BY <1>1, <3>2, <4>1, <4>2 DEF WritesInOrder
        <4>3. CASE sent # <<>>
          <5>1. i # 1 /\ i - 1 = Len(sent) /\ sent'[i - 1] = sent[Len(sent)]
            BY <1>1, <2>2, <3>2, <4>3
          <5> QED BY <4>1, <4>3, <5>1 DEF WritesInOrder
        <4> QED BY <4>2, <4>3
      <3> QED BY <3>1, <3>2
    <2>5. WriteOwnsFront'
      BY <1>1, <1>4, <2>3, <2>4 DEF WriteOwnsFront
    <2>6. QueueInOrder'
      BY <1>1, <1>2, <2>2 DEF QueueInOrder
    <2>7. WritesInOrder'
      BY <1>4, <2>3 DEF WritesInOrder, NoForbiddenOverlap
    <2> QED BY <2>2, <2>5, <2>6, <2>7 DEF Ordered
  <1> QED BY <1>3, <1>4 DEF Completed

\* The handler of a completed write takes its message off the queue and
\* writes the next one, which is newer.
LEMMA NextMessage ==
    ASSUME SessionInv, OnWriteDone
    PROVE  Ordered'
PROOF
  <1> USE DEF SessionInv, SessionTypeOK
  <1>1. /\ write = "ok" /\ handshakeComplete /\ sent # <<>>
        /\ queue # <<>> /\ queue[1] = sent[Len(sent)]
        /\ UNCHANGED << broadcasts, sent, handshakeComplete, closed,
                        closeRequested >>
    BY DEF OnWriteDone, WriteOwnsFront, WritesInOrder, NoForbiddenOverlap,
           history
  <1>2. Len(queue) \in Nat /\ Len(queue) >= 1
    BY <1>1, EmptySeq
  <1>3. CASE closeRequested
    <2>1. queue' = <<>> /\ write' = "idle" /\ writeInProgress' = FALSE
      BY <1>3 DEF OnWriteDone
    <2>2. queue' \in Seq(0..MaxStates) /\ Len(queue') = 0
      BY <2>1, EmptySeq
    <2>3. WriteOwnsFront'
      BY <1>1, <2>1 DEF WriteOwnsFront
    <2>4. QueueInOrder'
      BY <1>1, <2>2 DEF QueueInOrder
    <2>5. WritesInOrder'
      BY <1>1, <1>3, <2>1, <2>2 DEF WritesInOrder
    <2> QED BY <1>1, <2>2, <2>3, <2>4, <2>5 DEF Ordered
  <1>4. CASE ~closeRequested
    <2>1. /\ queue' = Tail(queue)
          /\ writeInProgress' = (queue' # <<>> /\ ~closed)
          /\ write' = IF queue' # <<>> /\ ~closed THEN "pending" ELSE "idle"
      BY <1>4 DEF OnWriteDone, WritesNext
    <2>2. /\ queue' \in Seq(0..MaxStates) /\ Len(queue') = Len(queue) - 1
          /\ \A i \in 1..Len(queue') : queue'[i] = queue[i + 1]
      BY <1>1, <2>1, HeadTailProperties
    <2>3. queue' # <<>> <=> Len(queue) >= 2
      BY <1>2, <2>2, EmptySeq
    <2>4. queue' # <<>> => queue'[1] = queue[2] /\ queue[1] < queue[2]
      BY <1>2, <2>2, <2>3 DEF QueueInOrder
    <2>5. closed => queue' = <<>>
      BY <1>2, <2>3 DEF WritesInOrder
    <2>6. WriteOwnsFront'
      BY <1>1, <2>1 DEF WriteOwnsFront
    <2>7. QueueInOrder'
      <3>1. \A i, j \in 1..Len(queue') : i < j => queue'[i] < queue'[j]
        <4> SUFFICES ASSUME NEW i \in 1..Len(queue'), NEW j \in 1..Len(queue'),
                            i < j
                     PROVE  queue'[i] < queue'[j]
          OBVIOUS
        <4>1. i + 1 \in 1..Len(queue) /\ j + 1 \in 1..Len(queue)
          BY <1>2, <2>2
        <4>2. queue[i + 1] < queue[j + 1]
          BY <4>1 DEF QueueInOrder
        <4>3. queue'[i] = queue[i + 1] /\ queue'[j] = queue[j + 1]
          BY <2>2
        <4> QED BY <4>2, <4>3
      <3>2. \A i \in 1..Len(queue') : queue'[i] <= broadcasts'
        BY <1>1, <1>2, <2>2 DEF QueueInOrder
      <3>3. \A i \in 1..Len(sent') : sent'[i] <= broadcasts'
        BY <1>1 DEF QueueInOrder
      <3> QED BY <3>1, <3>2, <3>3 DEF QueueInOrder
    <2>8. WritesInOrder'
      BY <1>1, <1>4, <2>1, <2>2, <2>4, <2>5 DEF WritesInOrder
    <2> QED BY <1>1, <2>2, <2>6, <2>7, <2>8 DEF Ordered
  <1> QED BY <1>3, <1>4

\* close() drops what waits and keeps what is being written.
LEMMA CloseRequestedOrder ==
    ASSUME SessionInv, NEW r, RequestClose(r),
           UNCHANGED << writeInProgress, sent, broadcasts, handshakeComplete >>
    PROVE  Ordered'
PROOF
  <1>1. CASE closed \/ closeRequested
    BY <1>1, QueueKept DEF RequestClose
  <1>2. CASE ~closed /\ ~closeRequested /\ ~handshakeComplete
    <2>1. write = "idle"
      BY <1>2 DEF SessionInv, NoForbiddenOverlap
    <2> QED BY <1>2, <2>1, QueueDropped DEF RequestClose
  <1>3. CASE ~closed /\ ~closeRequested /\ handshakeComplete
    <2>1. queue' = IF write = "idle" THEN <<>> ELSE <<queue[1]>>
      BY <1>3, DroppedQueue DEF RequestClose
    <2> QED BY <1>3, <2>1, QueueDropped DEF RequestClose
  <1> QED BY <1>1, <1>2, <1>3 DEF SessionInv, SessionTypeOK

\* Every step keeps the messages in order and the running write at the front.
LEMMA OrderStep ==
    ASSUME SessionInv, SessionNext
    PROVE  Ordered'
PROOF
  <1> USE DEF flags, history, operations
  <1>1. CASE \/ AcceptCompletes \/ ReadCompletes \/ CloseCompletes
             \/ TimerExpires \/ OnReadDropped
    BY <1>1, QueueKept DEF AcceptCompletes, ReadCompletes, CloseCompletes,
                           TimerExpires, OnReadDropped
  <1>2. CASE WriteCompletes
    BY <1>2, MessageWritten
  <1>3. CASE OnAccept
    <2>1. /\ accept # "idle" /\ ~handshakeComplete /\ write = "idle"
          /\ queue = <<>> /\ sent = <<>> /\ UNCHANGED <<sent, broadcasts>>
          /\ closeRequested' = closeRequested
          /\ closeRequested => closed
      BY <1>3 DEF OnAccept, SessionInv, NoForbiddenOverlap, StagesInOrder,
                  WritesInOrder, Completed
    <2>2. CASE accept = "error"
      BY <1>3, <2>1, <2>2, QueueDropped DEF OnAccept
    <2>3. CASE accept = "ok" /\ closeRequested
      BY <1>3, <2>1, <2>3, QueueDropped DEF OnAccept
    <2>4. CASE accept = "ok" /\ ~closeRequested
      <3>1. handshakeComplete' /\ Send(queue, 0) /\ closed' = closed
        BY <1>3, <2>1, <2>4 DEF OnAccept
      <3>2. ~closed
        BY <1>3, <2>1, <2>4 DEF SessionInv, StagesInOrder
      <3>3. /\ 0 \in 0..MaxStates /\ broadcasts' \in 0..MaxStates
            /\ broadcasts' >= broadcasts /\ 0 <= broadcasts'
        BY <2>1, SessionAssumption DEF SessionInv, SessionTypeOK
      <3>4. /\ \A i \in 1..Len(queue) : queue[i] < 0
            /\ \A i \in 1..Len(sent) : sent[i] < 0
        BY <2>1
      <3> QED BY <2>1, <2>4, <3>1, <3>2, <3>3, <3>4, MessageSent
    <2> QED BY <1>3, <2>2, <2>3, <2>4 DEF OnAccept, Completed
  <1>4. CASE OnReadError
    BY <1>4, QueueKept, QueueDropped, DroppedQueue
       DEF OnReadError, ForceClosedQueue
  <1>5. CASE OnReadText
    BY <1>5, QueueKept, CloseRequestedOrder DEF OnReadText
  <1>6. CASE OnReadDispatched
    BY <1>6, QueueKept, CloseRequestedOrder DEF OnReadDispatched
  <1>7. CASE OnWriteError
    <2>1. /\ queue' = <<>> /\ write' = "idle" /\ writeInProgress' = FALSE
          /\ closed' = TRUE
          /\ UNCHANGED <<sent, broadcasts, handshakeComplete>>
      BY <1>7 DEF OnWriteError
    <2>2. queue' \in Seq(0..MaxStates) /\ Len(queue') = 0
      BY <2>1, EmptySeq
    <2>3. WriteOwnsFront'
      BY <2>1 DEF WriteOwnsFront, SessionInv
    <2>4. QueueInOrder'
      BY <2>1, <2>2 DEF QueueInOrder, SessionInv
    <2>5. WritesInOrder'
      BY <2>1, <2>2 DEF WritesInOrder, SessionInv
    <2> QED BY <2>1, <2>2, <2>3, <2>4, <2>5
            DEF Ordered, SessionInv, SessionTypeOK
  <1>8. CASE OnWriteDone
    BY <1>8, NextMessage
  <1>9. CASE OnClose
    <2>1. write = "idle"
      BY <1>9 DEF OnClose, SessionInv, NoForbiddenOverlap, Completed
    <2> QED BY <1>9, <2>1, QueueDropped DEF OnClose
  <1>10. CASE OnTimer
    BY <1>10, QueueKept, QueueDropped, DroppedQueue
       DEF OnTimer, ForceClosedQueue
  <1>11. CASE Broadcast
    <2>1. CASE closed \/ closeRequested \/ ~applicationReady
      <3>1. /\ broadcasts' = broadcasts + 1 /\ broadcasts < MaxStates
            /\ UNCHANGED << queue, writeInProgress, write, sent, closed,
                            closeRequested, handshakeComplete >>
        BY <1>11, <2>1 DEF Broadcast
      <3>2. broadcasts' \in 0..MaxStates
        BY <3>1, SessionAssumption DEF SessionInv, SessionTypeOK
      <3>3. WriteOwnsFront' /\ WritesInOrder'
        BY <3>1 DEF SessionInv, WriteOwnsFront, WritesInOrder
      <3>4. QueueInOrder'
        <4>1. /\ \A i \in 1..Len(queue) : queue[i] \in 0..MaxStates
              /\ \A i \in 1..Len(sent) : sent[i] \in 0..MaxStates
              /\ broadcasts \in 0..MaxStates
          BY ElementOfSeq DEF SessionInv, SessionTypeOK
        <4> QED BY <3>1, <4>1, SessionAssumption DEF SessionInv, QueueInOrder
      <3> QED BY <3>1, <3>2, <3>3, <3>4
              DEF Ordered, SessionInv, SessionTypeOK
    <2>2. CASE ~closed /\ ~closeRequested /\ applicationReady
      <3>1. /\ Send(queue, broadcasts') /\ broadcasts' = broadcasts + 1
            /\ broadcasts < MaxStates
            /\ UNCHANGED <<closed, closeRequested, handshakeComplete, sent>>
        BY <1>11, <2>2 DEF Broadcast
      <3>2. broadcasts \in 0..MaxStates /\ broadcasts' \in 0..MaxStates
        BY <3>1, SessionAssumption DEF SessionInv, SessionTypeOK
      <3>3. handshakeComplete
        BY <2>2 DEF SessionInv, StagesInOrder
      <3>4. /\ \A i \in 1..Len(queue) : queue[i] < broadcasts'
            /\ \A i \in 1..Len(sent) : sent[i] < broadcasts'
        <4>1. /\ \A i \in 1..Len(queue) : queue[i] \in 0..MaxStates
              /\ \A i \in 1..Len(sent) : sent[i] \in 0..MaxStates
          BY ElementOfSeq DEF SessionInv, SessionTypeOK
        <4> QED BY <3>1, <3>2, <4>1 DEF SessionInv, QueueInOrder
      <3>5. write = "idle" => sent # <<>>
        BY <2>2, <3>3 DEF SessionInv, WritesInOrder
      <3> QED BY <2>2, <3>1, <3>2, <3>3, <3>4, <3>5, MessageSent
    <2> QED BY <2>1, <2>2 DEF SessionInv, SessionTypeOK
  <1>12. CASE CloseAll
    BY <1>12, CloseRequestedOrder DEF CloseAll
  <1> QED BY <1>1, <1>2, <1>3, <1>4, <1>5, <1>6, <1>7, <1>8, <1>9, <1>10,
             <1>11, <1>12
          DEF SessionNext, Completions, Handlers

-----------------------------------------------------------------------------
(* The theorems.                                                           *)

\* A session that has only been accepted by the operating system satisfies
\* the inductive invariant.
LEMMA SessionInvInit == SessionInit => SessionInv
PROOF
  <1> SUFFICES ASSUME SessionInit PROVE SessionInv
    OBVIOUS
  <1>1. queue \in Seq(0..MaxStates) /\ sent \in Seq(0..MaxStates)
    BY EmptySeq DEF SessionInit
  <1>2. Len(queue) = 0 /\ Len(sent) = 0
    BY EmptySeq DEF SessionInit
  <1>3. SessionTypeOK
    <2>1. /\ {accept, read, write, close, timer} \subseteq OpStates
          /\ frame \in FrameKinds
      BY DEF SessionInit, OpStates, FrameKinds
    <2>2. {handshakeComplete, applicationReady, writeInProgress,
           closeRequested, closed} \subseteq BOOLEAN
      BY DEF SessionInit
    <2>3. broadcasts \in 0..MaxStates /\ lateFrames \in 0..1
      BY SessionAssumption DEF SessionInit
    <2> QED BY <1>1, <2>1, <2>2, <2>3 DEF SessionTypeOK
  <1>4. NoForbiddenOverlap /\ StagesInOrder /\ LateFrameIsLast
    BY DEF SessionInit, NoForbiddenOverlap, StagesInOrder, LateFrameIsLast
  <1>5. WriteOwnsFront /\ QueueInOrder /\ WritesInOrder
    <2>1. 1..Len(queue) = {} /\ 1..Len(sent) = {}
      BY <1>2
    <2>2. QueueInOrder
      BY <2>1 DEF QueueInOrder
    <2>3. WriteOwnsFront /\ WritesInOrder
      BY <1>2, <2>1 DEF SessionInit, WriteOwnsFront, WritesInOrder
    <2> QED BY <2>2, <2>3
  <1> QED BY <1>3, <1>4, <1>5 DEF SessionInv

\* Every step preserves the inductive invariant.
LEMMA SessionInvStep ==
    SessionInv /\ [SessionNext]_sessionVars => SessionInv'
PROOF
  <1>1. ASSUME SessionInv, SessionNext PROVE SessionInv'
    BY <1>1, ControlStep, OrderStep
       DEF SessionInv, SessionTypeOK, Ordered
  <1>2. ASSUME SessionInv, UNCHANGED sessionVars PROVE SessionInv'
    BY <1>2
       DEF SessionInv, SessionTypeOK, NoForbiddenOverlap, StagesInOrder,
           LateFrameIsLast, WriteOwnsFront, QueueInOrder, WritesInOrder,
           sessionVars, operations, flags, history
  <1> QED BY <1>1, <1>2

\* The inductive invariant of a session holds in every state.
THEOREM SessionInvariant == SessionSpec => []SessionInv
PROOF
  BY SessionInvInit, SessionInvStep, PTL DEF SessionSpec

\* Type correctness: the queue holds messages the host sent, and no more
\* than one frame ever comes late.
THEOREM SessionTypes == SessionSpec => []SessionTypeOK
PROOF
  BY SessionInvariant, PTL DEF SessionInv

\* The handler of a write finds its message at the front of the queue, and
\* what is written goes from the Hello to newer and newer states
\* (ws_server.cpp, do_write and send_initial_binary).
THEOREM FrontOfQueueIsOwned == SessionSpec => []WriteOwnsFront
PROOF
  BY SessionInvariant, PTL DEF SessionInv

\* Nothing is written before the handshake is over nor while the close frame
\* is sent (ws_server.cpp, do_close).
THEOREM OperationsNeverOverlap == SessionSpec => []NoForbiddenOverlap
PROOF
  BY SessionInvariant, PTL DEF SessionInv

\* After close() no frame reaches the host, and of a session that failed by
\* itself at most one (ws_server.cpp, do_read).
THEOREM LateFramesAreFew == SessionSpec => AtMostOneLateFrame
PROOF
  <1>1. SessionInv /\ [SessionNext]_sessionVars
          => [ lateFrames' # lateFrames
                 => ~closeRequested /\ lateFrames = 0 ]_sessionVars
    BY ControlStep
  <1> QED BY <1>1, SessionInvariant, PTL DEF SessionSpec, AtMostOneLateFrame

-----------------------------------------------------------------------------
(* The reload.                                                             *)

GoneSets ==
    [ ground : SUBSET Contents, colliders : SUBSET Contents,
      manifest : SUBSET Checksums ]

LoaderRecord ==
    [ step : LoaderSteps, bytes : Checksums \cup {NoBytes},
      manifest : Checksums \cup {NoBytes},
      loaded : [Files -> Contents \cup {NoBytes}], gone : GoneSets ]

\* The loader tries a manifest it has not accepted, and knows nothing of
\* overwritten files between polls.
PollIsNew ==
    /\ Polling => loader.bytes # known.accepted
    /\ ~Polling => loader.gone = NothingGone

\* The commits of the exporter are bakes it has begun.
CommitsAreBakes ==
    /\ written.manifest <= bakes
    /\ baking # "no" => written.manifest < bakes

DiskTypes ==
    /\ work \in Workloads
    /\ content \in Checksums /\ manifest \in Checksums
    /\ sidecar \in Sidecars /\ written \in Signatures
    /\ baking \in {"no", "colliders", "manifest"} /\ bakes \in 0..work.bakes
    /\ CommitsAreBakes

KnownRecord ==
    [ active : Checksums, accepted : Checksums \cup {NoBytes},
      rejected : Checksums \cup {NoBytes}, retryDue : BOOLEAN ]

LoaderTypes ==
    /\ loader \in LoaderRecord /\ known \in KnownRecord
    /\ PollIsNew
    /\ loader.step \notin {"new", "idle"} => loader.bytes \in Checksums
    /\ loader.step \notin {"new", "idle", "parse"}
         => loader.manifest \in Checksums
    /\ known.accepted # NoBytes => known.accepted # known.rejected

WatcherRecord ==
    [ step : WatcherSteps, stamp : Signatures \cup {NoBytes},
      observed : Signatures \cup {NoBytes},
      success : Signatures \cup {NoBytes}, retryDue : BOOLEAN,
      checksum : Checksums \cup {NoBytes} ]

WatcherTypes ==
    /\ watcher \in WatcherRecord
    /\ watcher.step = "stamp manifest" => watcher.stamp \in Signatures

\* The two slots and what the host runs; no package is mixed.
HostTypes ==
    /\ faults \in 0..MaxFaults
    /\ pendingMap \in Packages \cup {NoMap} /\ map \in Packages
    /\ {pendingTraffic, traffic} \subseteq Sidecars \cup {NoTraffic}
    /\ NoMixedPackage

\* The steps of a poll after which it has compared, loaded and compared again
\* a file.
Hashed(file) ==
    \/ loader.step \in {"load ground", "load colliders", "rehash ground",
                        "rehash colliders", "verify"}
    \/ file = "ground" /\ loader.step = "hash colliders"

Loaded(file) ==
    \/ loader.step \in {"rehash ground", "rehash colliders", "verify"}
    \/ file = "ground" /\ loader.step = "load colliders"

Rehashed(file) ==
    \/ loader.step = "verify"
    \/ file = "ground" /\ loader.step = "rehash colliders"

\* What the poll has established of a file, whatever was written meanwhile.
PollMakesProgress ==
    \A file \in Files :
      /\ Polling => content[file] \notin loader.gone[file]
      /\ Hashed(file) => \/ content[file] = loader.manifest[file]
                         \/ loader.manifest[file] \in loader.gone[file]
      /\ Loaded(file) => \/ loader.loaded[file] = loader.manifest[file]
                         \/ loader.manifest[file] \in loader.gone[file]
      /\ Rehashed(file) => loader.loaded[file] = loader.manifest[file]

ReloadInv ==
    /\ DiskTypes /\ LoaderTypes /\ WatcherTypes /\ HostTypes
    /\ PollMakesProgress

-----------------------------------------------------------------------------
(* What the steps of an actor do to the loader.                            *)

\* A file that is replaced is remembered by the poll in progress, and
\* nothing else of the poll changes.
LEMMA OverwriteRemembers ==
    ASSUME loader \in LoaderRecord,
           NEW file \in {"ground", "colliders", "manifest"},
           NEW old \in IF file = "manifest" THEN Checksums ELSE Contents,
           NEW new, Overwrite(file, old, new)
    PROVE  /\ loader' \in LoaderRecord
           /\ loader'.step = loader.step /\ loader'.bytes = loader.bytes
           /\ loader'.manifest = loader.manifest
           /\ loader'.loaded = loader.loaded
           /\ ~Polling => loader' = loader
           /\ Polling /\ old = new => loader'.gone = loader.gone
           /\ Polling /\ old # new
                => loader'.gone[file] = loader.gone[file] \cup {old}
           /\ \A f \in {"ground", "colliders", "manifest"} \ {file} :
                loader'.gone[f] = loader.gone[f]
PROOF
  <1>1. CASE Polling /\ old # new
    <2>1. loader' = [loader EXCEPT !.gone[file] = @ \cup {old}]
      BY <1>1 DEF Overwrite
    <2>2. loader.gone \in GoneSets
      BY DEF LoaderRecord
    <2>3. [loader.gone EXCEPT ![file] = @ \cup {old}] \in GoneSets
      BY <2>2 DEF GoneSets
    <2>4. /\ loader'.gone = [loader.gone EXCEPT ![file] = @ \cup {old}]
          /\ loader'.step = loader.step /\ loader'.bytes = loader.bytes
          /\ loader'.manifest = loader.manifest
          /\ loader'.loaded = loader.loaded
      BY <2>1 DEF LoaderRecord
    <2>5. loader' \in LoaderRecord
      BY <2>1, <2>3, <2>4 DEF LoaderRecord
    <2> QED BY <1>1, <2>2, <2>4, <2>5 DEF GoneSets
  <1>2. CASE ~(Polling /\ old # new)
    BY <1>2 DEF Overwrite
  <1> QED BY <1>1, <1>2

\* A poll that ends leaves no locals.
LEMMA NoPollIsIdle ==
    /\ NoPoll \in LoaderRecord /\ NoPoll.step = "idle"
    /\ NoPoll.gone = NothingGone
PROOF
  <1>1. NothingGone \in GoneSets
    BY DEF NothingGone, GoneSets
  <1>2. NothingLoaded \in [Files -> Contents \cup {NoBytes}]
    BY DEF NothingLoaded
  <1> QED BY <1>1, <1>2 DEF NoPoll, LoaderRecord, LoaderSteps

-----------------------------------------------------------------------------
(* The files.                                                              *)

\* Bounds of a workload.
LEMMA WorkloadBounds ==
    ASSUME DiskTypes
    PROVE  work.bakes \in Nat /\ work.edits \in Nat /\ bakes \in Nat
PROOF
  <1>1. work \in [traffic : BOOLEAN, bakes : Nat, edits : Nat]
    BY ReloadAssumption DEF DiskTypes
  <1>2. bakes \in 0..work.bakes
    BY DEF DiskTypes
  <1> QED BY <1>1, <1>2

\* The exporter and the author write contents, manifests and networks.
LEMMA DiskStep ==
    ASSUME DiskTypes, ReloadNext
    PROVE  DiskTypes'
PROOF
  <1> work' = work
    BY DEF ReloadNext
  <1>1. work.bakes \in Nat /\ work.edits \in Nat /\ bakes \in Nat
    BY WorkloadBounds
  <1>2. /\ written.sidecar \in 0..work.edits
        /\ written.manifest \in 0..work.bakes
        /\ content \in [Files -> Contents] /\ manifest \in Checksums
        /\ written \in [sidecar : 0..work.edits, manifest : 0..work.bakes]
        /\ bakes \in 0..work.bakes
    BY DEF DiskTypes, Signatures, Checksums
  <1>3. ASSUME UNCHANGED disk PROVE DiskTypes'
    BY <1>3 DEF DiskTypes, CommitsAreBakes, Signatures, disk
  <1>4. ASSUME NEW c \in Contents, BakeGround(c) PROVE DiskTypes'
    <2>1. bakes' = bakes + 1 /\ bakes' \in 0..work.bakes
      BY <1>1, <1>4 DEF BakeGround
    <2>2. content' \in Checksums
      BY <1>2, <1>4 DEF BakeGround, Checksums
    <2>3. CommitsAreBakes'
      BY <1>1, <1>2, <1>4, <2>1 DEF BakeGround, CommitsAreBakes, DiskTypes
    <2> QED BY <1>4, <2>1, <2>2, <2>3 DEF BakeGround, DiskTypes, Signatures
  <1>5. ASSUME NEW c \in Contents, BakeColliders(c) PROVE DiskTypes'
    <2>1. content' \in Checksums
      BY <1>2, <1>5 DEF BakeColliders, Checksums
    <2>2. CommitsAreBakes'
      BY <1>5 DEF BakeColliders, CommitsAreBakes, DiskTypes
    <2> QED BY <1>5, <2>1, <2>2 DEF BakeColliders, DiskTypes, Signatures
  <1>6. CASE CommitManifest
    <2>1. written' = [written EXCEPT !.manifest = @ + 1]
      BY <1>6 DEF CommitManifest
    <2>2. written.manifest < bakes
      BY <1>6 DEF CommitManifest, DiskTypes, CommitsAreBakes
    <2>3. written' \in Signatures' /\ CommitsAreBakes'
      BY <1>1, <1>2, <1>6, <2>1, <2>2
         DEF CommitManifest, Signatures, CommitsAreBakes
    <2> QED BY <1>6, <2>3 DEF CommitManifest, DiskTypes
  <1>7. CASE BakeFails
    BY <1>7 DEF BakeFails, DiskTypes, CommitsAreBakes, Signatures
  <1>8. ASSUME NEW n \in Networks, EditSidecar(n) PROVE DiskTypes'
    <2>1. written' = [written EXCEPT !.sidecar = @ + 1]
      BY <1>8 DEF EditSidecar
    <2>2. written' \in Signatures' /\ written'.manifest = written.manifest
      BY <1>1, <1>2, <1>8, <2>1 DEF EditSidecar, Signatures
    <2>3. sidecar' \in Sidecars
      BY <1>2, <1>8 DEF EditSidecar, Sidecars
    <2> QED BY <1>8, <2>2, <2>3 DEF EditSidecar, DiskTypes, CommitsAreBakes
  <1> QED
    BY <1>3, <1>4, <1>5, <1>6, <1>7, <1>8
       DEF ReloadNext, Construct, PollMap, PollManifest, LoadPackage, ReadManifest,
           Check, LoadFile, DeliverPackage, LoaderFault, LoaderRetryDue, PollTraffic,
           StampSidecar, StampManifest, WatcherReadsManifest,
           WatcherChecksMap, WatcherLoadsSidecar, WatcherFault,
           WatcherRetryDue, OthersThanWatcher, Tick, InstallMap,
           InstallTraffic

-----------------------------------------------------------------------------
(* The loader.                                                             *)

\* What a write to a file does to the poll in progress.
LEMMA ExporterWrites ==
    ASSUME DiskTypes, LoaderTypes,
           NEW file \in {"ground", "colliders", "manifest"},
           NEW old \in IF file = "manifest" THEN Checksums ELSE Contents,
           NEW new, Overwrite(file, old, new), known' = known
    PROVE  LoaderTypes'
PROOF
  <1>1. /\ loader' \in LoaderRecord
        /\ loader'.step = loader.step /\ loader'.bytes = loader.bytes
        /\ loader'.manifest = loader.manifest
        /\ ~Polling => loader' = loader
    BY OverwriteRemembers DEF LoaderTypes
  <1>2. PollIsNew'
    BY <1>1 DEF LoaderTypes, PollIsNew, Polling
  <1> QED BY <1>1, <1>2 DEF LoaderTypes

\* A poll that fails remembers the manifest it tried.
LEMMA RejectTypes ==
    ASSUME LoaderTypes, Polling, Reject
    PROVE  LoaderTypes'
PROOF
  <1>1. /\ loader' \in LoaderRecord /\ loader'.step = "idle"
        /\ loader'.gone = NothingGone
    BY NoPollIsIdle DEF Reject
  <1>2. loader.bytes \in Checksums /\ loader.bytes # known.accepted
    BY DEF LoaderTypes, PollIsNew, Polling
  <1>3. /\ known' \in KnownRecord /\ known'.accepted = known.accepted
        /\ known'.rejected = loader.bytes
    BY <1>2 DEF Reject, LoaderTypes, KnownRecord
  <1>4. PollIsNew'
    BY <1>1 DEF PollIsNew, Polling
  <1> QED BY <1>1, <1>2, <1>3, <1>4 DEF LoaderTypes

\* Type correctness of the loader.
LEMMA LoaderStep ==
    ASSUME DiskTypes, LoaderTypes, ReloadNext
    PROVE  LoaderTypes'
PROOF
  <1>1. /\ content["ground"] \in Contents /\ content["colliders"] \in Contents
        /\ manifest \in Checksums
    BY DEF DiskTypes, Checksums, Files
  <1>2. ASSUME UNCHANGED mapThread PROVE LoaderTypes'
    BY <1>2 DEF mapThread, LoaderTypes, PollIsNew, Polling
  <1>3. ASSUME NEW c \in Contents, BakeGround(c) PROVE LoaderTypes'
    BY <1>1, <1>3, ExporterWrites DEF BakeGround
  <1>4. ASSUME NEW c \in Contents, BakeColliders(c) PROVE LoaderTypes'
    BY <1>1, <1>4, ExporterWrites DEF BakeColliders
  <1>5. CASE CommitManifest
    BY <1>1, <1>5, ExporterWrites DEF CommitManifest
  <1>6. CASE Construct
    <2>1. /\ loader' \in LoaderRecord /\ loader'.step = "idle"
          /\ loader'.gone = NothingGone
      BY <1>6, NoPollIsIdle DEF Construct
    <2>2. known' \in KnownRecord /\ known'.accepted = NoBytes
      BY <1>6 DEF Construct, FirstAccepted, LoaderTypes, KnownRecord
    <2>3. PollIsNew'
      BY <2>1 DEF PollIsNew, Polling
    <2> QED BY <2>1, <2>2, <2>3 DEF LoaderTypes
  <1>7. CASE PollManifest
    <2>1. loader' = [loader EXCEPT !.step = "parse", !.bytes = manifest]
      BY <1>7 DEF PollManifest
    <2>2. /\ loader' \in LoaderRecord /\ loader'.step = "parse"
          /\ loader'.bytes = manifest
      BY <1>1, <2>1 DEF LoaderTypes, LoaderRecord, LoaderSteps
    <2>3. known' = known /\ manifest # known.accepted
      BY <1>7 DEF PollManifest, MayTry
    <2>4. PollIsNew'
      BY <2>2, <2>3 DEF PollIsNew, Polling
    <2> QED BY <1>1, <2>2, <2>3, <2>4 DEF LoaderTypes
  <1>8. CASE ReadManifest
    <2>1. loader' = [ loader EXCEPT !.step = "hash ground",
                                    !.manifest = manifest ]
      BY <1>8 DEF ReadManifest
    <2>2. /\ loader' \in LoaderRecord /\ loader'.step = "hash ground"
          /\ loader'.bytes = loader.bytes /\ loader'.manifest = manifest
      BY <1>1, <2>1 DEF LoaderTypes, LoaderRecord, LoaderSteps
    <2>3. known' = known /\ Polling /\ loader.bytes \in Checksums
      BY <1>8 DEF ReadManifest, Polling, LoaderTypes
    <2>4. PollIsNew'
      BY <2>2, <2>3 DEF PollIsNew, Polling, LoaderTypes
    <2> QED BY <1>1, <2>2, <2>3, <2>4 DEF LoaderTypes
  <1>9. ASSUME NEW step \in LoaderSteps \ {"new", "idle", "parse"},
               NEW passed \in BOOLEAN,
               NEW next \in LoaderSteps \ {"new", "idle", "parse"},
               Check(step, passed, next)
        PROVE  LoaderTypes'
    <2>1. Polling
      BY <1>9 DEF Check, Polling
    <2>2. CASE ~passed
      BY <1>9, <2>1, <2>2, RejectTypes DEF Check
    <2>3. CASE passed
      <3>1. loader' = [loader EXCEPT !.step = next] /\ known' = known
        BY <1>9, <2>3 DEF Check
      <3>2. /\ loader' \in LoaderRecord /\ loader'.step = next
            /\ loader'.bytes = loader.bytes
            /\ loader'.manifest = loader.manifest
        BY <3>1 DEF LoaderTypes, LoaderRecord
      <3>3. /\ loader.step = step /\ loader.bytes \in Checksums
            /\ loader.manifest \in Checksums
        BY <1>9 DEF Check, LoaderTypes
      <3>4. PollIsNew'
        BY <2>1, <3>1, <3>2 DEF PollIsNew, Polling, LoaderTypes
      <3> QED BY <3>1, <3>2, <3>3, <3>4 DEF LoaderTypes
    <2> QED BY <2>2, <2>3
  <1>10. ASSUME NEW step \in LoaderSteps \ {"new", "idle", "parse"},
                NEW file \in Files,
                NEW next \in LoaderSteps \ {"new", "idle", "parse"},
                LoadFile(step, file, next)
         PROVE  LoaderTypes'
    <2>1. /\ loader' = [ loader EXCEPT !.step = next,
                                       !.loaded[file] = content[file] ]
          /\ known' = known /\ loader.step = step
      BY <1>10 DEF LoadFile
    <2>2. content[file] \in Contents
      BY DEF DiskTypes, Checksums
    <2>3. /\ loader'.step = next /\ loader'.bytes = loader.bytes
          /\ loader'.manifest = loader.manifest
          /\ loader'.gone = loader.gone
          /\ loader'.loaded = [loader.loaded EXCEPT ![file] = content[file]]
      BY <2>1 DEF LoaderTypes, LoaderRecord
    <2>4. loader'.loaded \in [Files -> Contents \cup {NoBytes}]
      BY <2>2, <2>3 DEF LoaderTypes, LoaderRecord
    <2>5. loader' \in LoaderRecord
      BY <2>1, <2>3, <2>4 DEF LoaderTypes, LoaderRecord
    <2>6. PollIsNew'
      BY <1>10, <2>1, <2>3 DEF PollIsNew, Polling, LoaderTypes
    <2> QED BY <1>10, <2>1, <2>3, <2>5, <2>6 DEF LoaderTypes
  <1>11. CASE LoadPackage
    <2> USE DEF LoaderSteps
    <2>1. {"ground", "colliders"} \subseteq Files
      BY DEF Files
    <2> QED BY <1>8, <1>9, <1>10, <1>11, <2>1 DEF LoadPackage, StillMatches
  <1>12. CASE DeliverPackage
    <2>1. Polling /\ loader.manifest \in Checksums /\ loader.bytes \in Checksums
      BY <1>12 DEF DeliverPackage, Polling, LoaderTypes
    <2>2. CASE manifest # loader.bytes
      BY <1>12, <2>1, <2>2, RejectTypes DEF DeliverPackage
    <2>3. CASE manifest = loader.bytes
      <3>1. loader' = NoPoll /\ known' = Acknowledged
        BY <1>12, <2>3 DEF DeliverPackage
      <3>2. known' \in KnownRecord /\ known'.rejected = NoBytes
        BY <2>1, <3>1 DEF Acknowledged, KnownRecord
      <3>3. PollIsNew'
        BY <3>1, NoPollIsIdle DEF PollIsNew, Polling
      <3> QED BY <3>1, <3>2, <3>3, NoPollIsIdle DEF LoaderTypes
    <2> QED BY <2>2, <2>3
  <1>13. CASE LoaderFault
    BY <1>13, RejectTypes DEF LoaderFault
  <1>14. CASE LoaderRetryDue
    <2>1. /\ known' \in KnownRecord /\ known'.accepted = known.accepted
          /\ known'.rejected = known.rejected /\ loader' = loader
      BY <1>14 DEF LoaderRetryDue, LoaderTypes, KnownRecord
    <2> QED BY <2>1 DEF LoaderTypes, PollIsNew, Polling
  <1> QED
    BY <1>2, <1>3, <1>4, <1>5, <1>6, <1>7, <1>11, <1>12, <1>13, <1>14
       DEF ReloadNext, PollMap, BakeFails, EditSidecar, PollTraffic, StampSidecar,
           StampManifest, WatcherReadsManifest, WatcherChecksMap,
           WatcherLoadsSidecar, WatcherFault, WatcherRetryDue,
           OthersThanWatcher, Tick, InstallMap, InstallTraffic

\* A write of the exporter takes nothing from what the poll established: the
\* content it replaces is remembered, the new one is not among those the poll
\* has seen.
LEMMA WriteKeepsProgress ==
    ASSUME DiskTypes, LoaderTypes, PollMakesProgress,
           NEW file \in Files, NEW new \in Contents,
           Overwrite(file, content[file], new),
           content' = [content EXCEPT ![file] = new]
    PROVE  PollMakesProgress'
PROOF
  <1>1. /\ file \in {"ground", "colliders"}
        /\ content \in [Files -> Contents]
    BY DEF Files, DiskTypes, Checksums
  <1>2. /\ loader'.step = loader.step
        /\ loader'.manifest = loader.manifest
        /\ loader'.loaded = loader.loaded
        /\ Polling /\ content[file] = new => loader'.gone = loader.gone
        /\ Polling /\ content[file] # new
             => loader'.gone[file] = loader.gone[file] \cup {content[file]}
        /\ \A f \in {"ground", "colliders", "manifest"} \ {file} :
             loader'.gone[f] = loader.gone[f]
    BY <1>1, OverwriteRemembers DEF LoaderTypes
  <1>3. CASE ~Polling
    BY <1>2, <1>3
       DEF PollMakesProgress, Polling, Hashed, Loaded, Rehashed
  <1>4. CASE Polling
    <2>1. new \notin loader.gone[file] /\ content'[file] = new
      BY <1>1, <1>4 DEF Overwrite
    <2>2. ASSUME NEW f \in Files, f # file
          PROVE  content'[f] = content[f] /\ loader'.gone[f] = loader.gone[f]
      BY <1>1, <1>2, <2>2 DEF Files
    <2>3. Polling' = Polling
      BY <1>2 DEF Polling
    <2>4. \A f \in Files : /\ Hashed(f)' = Hashed(f)
                           /\ Loaded(f)' = Loaded(f)
                           /\ Rehashed(f)' = Rehashed(f)
      BY <1>2 DEF Hashed, Loaded, Rehashed
    <2> SUFFICES ASSUME NEW f \in Files
                 PROVE  /\ content'[f] \notin loader'.gone[f]
                        /\ Hashed(f) => \/ content'[f] = loader'.manifest[f]
                                        \/ loader'.manifest[f]
                                             \in loader'.gone[f]
                        /\ Loaded(f) => \/ loader'.loaded[f]
                                             = loader'.manifest[f]
                                        \/ loader'.manifest[f]
                                             \in loader'.gone[f]
                        /\ Rehashed(f) => loader'.loaded[f]
                                            = loader'.manifest[f]
      BY <2>3, <2>4 DEF PollMakesProgress
    <2>5. CASE f # file
      BY <1>2, <1>4, <2>2, <2>5 DEF PollMakesProgress
    <2>6. CASE f = file /\ content[file] = new
      BY <1>2, <1>4, <2>1, <2>6 DEF PollMakesProgress
    <2>7. CASE f = file /\ content[file] # new
      BY <1>2, <1>4, <2>1, <2>7 DEF PollMakesProgress
    <2> QED BY <2>5, <2>6, <2>7
  <1> QED BY <1>3, <1>4

\* What a poll has established is established by each of its steps, and lost
\* by no step of another actor.
LEMMA ProgressStep ==
    ASSUME DiskTypes, LoaderTypes, PollMakesProgress, ReloadNext
    PROVE  PollMakesProgress'
PROOF
  <1> USE DEF Polling, Hashed, Loaded, Rehashed
  <1>1. /\ content \in [Files -> Contents] /\ loader \in LoaderRecord
        /\ Files = {"ground", "colliders"}
    BY DEF DiskTypes, LoaderTypes, Checksums, Files
  <1>2. ASSUME UNCHANGED <<content, loader>> PROVE PollMakesProgress'
    BY <1>2 DEF PollMakesProgress
  <1>3. ASSUME loader'.step \in {"new", "idle"} PROVE PollMakesProgress'
    BY <1>3 DEF PollMakesProgress
  <1>4. ASSUME NEW c \in Contents, BakeGround(c) PROVE PollMakesProgress'
    BY <1>1, <1>4, WriteKeepsProgress DEF BakeGround
  <1>5. ASSUME NEW c \in Contents, BakeColliders(c) PROVE PollMakesProgress'
    BY <1>1, <1>5, WriteKeepsProgress DEF BakeColliders
  <1>6. CASE CommitManifest
    <2>1. /\ Overwrite("manifest", manifest, content) /\ manifest \in Checksums
          /\ content' = content
      BY <1>6 DEF CommitManifest, DiskTypes
    <2>2. /\ loader'.step = loader.step
          /\ loader'.manifest = loader.manifest
          /\ loader'.loaded = loader.loaded
          /\ \A f \in Files : loader'.gone[f] = loader.gone[f]
      BY <1>1, <2>1, OverwriteRemembers
    <2> QED BY <2>1, <2>2 DEF PollMakesProgress
  <1>7. ASSUME Reject \/ loader' = NoPoll PROVE PollMakesProgress'
    BY <1>3, <1>7, NoPollIsIdle DEF Reject
  <1>8. CASE PollManifest
    <2>1. /\ loader'.step = "parse" /\ loader'.gone = loader.gone
          /\ content' = content
      BY <1>1, <1>8 DEF PollManifest, LoaderRecord, disk
    <2>2. loader.gone = NothingGone
      BY <1>8 DEF PollManifest, LoaderTypes, PollIsNew
    <2>3. \A f \in Files : loader'.gone[f] = {}
      BY <1>1, <2>1, <2>2 DEF NothingGone
    <2> QED BY <2>1, <2>3 DEF PollMakesProgress
  <1>9. CASE ReadManifest
    <2>1. /\ loader'.step = "hash ground" /\ loader'.gone = loader.gone
          /\ content' = content /\ loader.step = "parse"
      BY <1>1, <1>9 DEF ReadManifest, LoaderRecord, disk
    <2> QED BY <1>1, <2>1 DEF PollMakesProgress
  <1>10. ASSUME NEW step \in LoaderSteps \ {"new", "idle", "parse"},
                NEW passed \in BOOLEAN, NEW next, Check(step, passed, next),
                passed
         PROVE  /\ loader.step = step /\ loader'.step = next
                /\ loader'.gone = loader.gone
                /\ loader'.manifest = loader.manifest
                /\ loader'.loaded = loader.loaded /\ content' = content
    BY <1>1, <1>10 DEF Check, LoaderRecord, disk
  <1>11. ASSUME NEW step \in LoaderSteps \ {"new", "idle", "parse"},
                NEW file \in Files, NEW next, LoadFile(step, file, next)
         PROVE  /\ loader.step = step /\ loader'.step = next
                /\ loader'.gone = loader.gone
                /\ loader'.manifest = loader.manifest
                /\ loader'.loaded[file] = content[file]
                /\ \A f \in Files \ {file} :
                     loader'.loaded[f] = loader.loaded[f]
                /\ content' = content
    BY <1>1, <1>11 DEF LoadFile, LoaderRecord, disk
  <1>12. CASE Check("hash ground", content["ground"] = loader.manifest["ground"],
                    "hash colliders")
    <2>1. CASE content["ground"] = loader.manifest["ground"]
      <3>1. /\ loader.step = "hash ground" /\ loader'.step = "hash colliders"
            /\ loader'.gone = loader.gone
            /\ loader'.manifest = loader.manifest
            /\ loader'.loaded = loader.loaded /\ content' = content
        BY <1>10, <1>12, <2>1 DEF LoaderSteps
      <3>2. content["ground"] = loader.manifest["ground"]
        BY <2>1
      <3> QED BY <1>1, <3>1, <3>2 DEF PollMakesProgress
    <2> QED BY <1>7, <1>12, <2>1 DEF Check
  <1>13. CASE Check("hash colliders",
                    content["colliders"] = loader.manifest["colliders"],
                    "load ground")
    <2>1. CASE content["colliders"] = loader.manifest["colliders"]
      <3>1. /\ loader.step = "hash colliders" /\ loader'.step = "load ground"
            /\ loader'.gone = loader.gone
            /\ loader'.manifest = loader.manifest
            /\ loader'.loaded = loader.loaded /\ content' = content
        BY <1>10, <1>13, <2>1 DEF LoaderSteps
      <3>2. content["colliders"] = loader.manifest["colliders"]
        BY <2>1
      <3> QED BY <1>1, <3>1, <3>2 DEF PollMakesProgress
    <2> QED BY <1>7, <1>13, <2>1 DEF Check
  <1>14. CASE LoadFile("load ground", "ground", "load colliders")
    <2>1. /\ loader.step = "load ground" /\ loader'.step = "load colliders"
          /\ loader'.gone = loader.gone
          /\ loader'.manifest = loader.manifest
          /\ loader'.loaded["ground"] = content["ground"]
          /\ \A f \in Files \ {"ground"} :
               loader'.loaded[f] = loader.loaded[f]
          /\ content' = content
      BY <1>1, <1>11, <1>14 DEF LoaderSteps
    <2> QED BY <1>1, <2>1 DEF PollMakesProgress
  <1>15. CASE LoadFile("load colliders", "colliders", "rehash ground")
    <2>1. /\ loader.step = "load colliders" /\ loader'.step = "rehash ground"
          /\ loader'.gone = loader.gone
          /\ loader'.manifest = loader.manifest
          /\ loader'.loaded["colliders"] = content["colliders"]
          /\ \A f \in Files \ {"colliders"} :
               loader'.loaded[f] = loader.loaded[f]
          /\ content' = content
      BY <1>1, <1>11, <1>15 DEF LoaderSteps
    <2> QED BY <1>1, <2>1 DEF PollMakesProgress
  <1>16. CASE Check("rehash ground", StillMatches("ground"),
                    "rehash colliders")
    <2>1. CASE StillMatches("ground")
      <3>1. /\ loader.step = "rehash ground" /\ loader'.step = "rehash colliders"
            /\ loader'.gone = loader.gone
            /\ loader'.manifest = loader.manifest
            /\ loader'.loaded = loader.loaded /\ content' = content
        BY <1>10, <1>16, <2>1 DEF LoaderSteps, StillMatches
      <3>2. content["ground"] = loader.manifest["ground"]
        BY <2>1 DEF StillMatches
      <3> QED BY <1>1, <3>1, <3>2 DEF PollMakesProgress
    <2> QED BY <1>7, <1>16, <2>1 DEF Check, StillMatches
  <1>17. CASE Check("rehash colliders", StillMatches("colliders"), "verify")
    <2>1. CASE StillMatches("colliders")
      <3>1. /\ loader.step = "rehash colliders" /\ loader'.step = "verify"
            /\ loader'.gone = loader.gone
            /\ loader'.manifest = loader.manifest
            /\ loader'.loaded = loader.loaded /\ content' = content
        BY <1>10, <1>17, <2>1 DEF LoaderSteps, StillMatches
      <3>2. content["colliders"] = loader.manifest["colliders"]
        BY <2>1 DEF StillMatches
      <3> QED BY <1>1, <3>1, <3>2 DEF PollMakesProgress
    <2> QED BY <1>7, <1>17, <2>1 DEF Check, StillMatches
  <1>18. CASE LoadPackage
    BY <1>9, <1>12, <1>13, <1>14, <1>15, <1>16, <1>17, <1>18 DEF LoadPackage
  <1>19. CASE Construct \/ DeliverPackage \/ LoaderFault
    BY <1>7, <1>19 DEF Construct, DeliverPackage, LoaderFault
  <1> QED
    BY <1>2, <1>4, <1>5, <1>6, <1>8, <1>18, <1>19
       DEF ReloadNext, PollMap, BakeFails, EditSidecar, LoaderRetryDue,
           PollTraffic, StampSidecar, StampManifest, WatcherReadsManifest,
           WatcherChecksMap, WatcherLoadsSidecar, WatcherFault,
           WatcherRetryDue, OthersThanWatcher, mapThread, disk, Tick,
           InstallMap, InstallTraffic

-----------------------------------------------------------------------------
(* The watcher of the traffic network and the host.                        *)

\* Type correctness of the watcher.
LEMMA WatcherStep ==
    ASSUME DiskTypes, WatcherTypes, ReloadNext
    PROVE  WatcherTypes'
PROOF
  <1> work' = work
    BY DEF ReloadNext
  <1>1. Signatures' = Signatures
    BY DEF Signatures
  <1>2. written \in Signatures /\ manifest \in Checksums
    BY DEF DiskTypes
  <1>3. CASE watcher' = watcher
    BY <1>1, <1>3 DEF WatcherTypes, WatcherRecord
  <1>4. CASE StampSidecar
    <2>1. watcher' = [ watcher EXCEPT !.step = "stamp manifest",
                                      !.stamp = written ]
      BY <1>4 DEF StampSidecar
    <2> QED BY <1>1, <1>2, <2>1 DEF WatcherTypes, WatcherRecord, WatcherSteps
  <1>5. CASE StampManifest
    <2> DEFINE stamp == [watcher.stamp EXCEPT !.manifest = written.manifest]
    <2>1. stamp \in Signatures
      BY <1>2, <1>5 DEF StampManifest, WatcherTypes, Signatures
    <2>2. /\ watcher'.step \in {"load map", "idle"}
          /\ watcher' \in WatcherRecord
      BY <1>5, <2>1
         DEF StampManifest, WatcherTypes, WatcherRecord, WatcherSteps
    <2> QED BY <1>1, <2>2 DEF WatcherTypes, WatcherRecord
  <1>6. CASE WatcherReadsManifest
    BY <1>1, <1>2, <1>6
       DEF WatcherReadsManifest, WatcherTypes, WatcherRecord, WatcherSteps
  <1>7. WatcherIdle \in WatcherRecord /\ WatcherIdle.step = "idle"
    BY DEF WatcherIdle, WatcherTypes, WatcherRecord, WatcherSteps
  <1>8. CASE WatcherFails
    BY <1>1, <1>7, <1>8 DEF WatcherFails, WatcherTypes, WatcherRecord
  <1>9. CASE WatcherChecksMap
    BY ZenonT(60), <1>1, <1>8, <1>9
       DEF WatcherChecksMap, WatcherTypes, WatcherRecord, WatcherSteps
  <1>10. CASE WatcherLoadsSidecar
    BY ZenonT(60), <1>1, <1>7, <1>8, <1>10
       DEF WatcherLoadsSidecar, LoadedStamp, WatcherTypes, WatcherRecord
  <1>11. CASE WatcherRetryDue
    BY <1>1, <1>11 DEF WatcherRetryDue, WatcherTypes, WatcherRecord
  <1> QED
    BY <1>3, <1>4, <1>5, <1>6, <1>8, <1>9, <1>10, <1>11
       DEF ReloadNext, PollTraffic, WatcherFault, BakeGround, BakeColliders,
           CommitManifest, BakeFails, EditSidecar, Construct, PollMap,
           PollManifest, LoadPackage, ReadManifest, Check, LoadFile, DeliverPackage,
           LoaderFault, LoaderRetryDue, Tick, InstallMap, InstallTraffic

\* A poll delivers what the manifest declares, and the host installs what it
\* was delivered.
LEMMA HostStep ==
    ASSUME DiskTypes, LoaderTypes, HostTypes, PollMakesProgress, ReloadNext
    PROVE  HostTypes'
PROOF
  <1> USE DEF HostTypes, NoMixedPackage
  <1>1. CASE UNCHANGED <<host, faults>>
    BY <1>1 DEF host
  <1>2. CASE DeliverPackage
    <2>1. /\ loader.step = "verify" /\ loader.manifest \in Checksums
          /\ loader.loaded \in [Files -> Contents \cup {NoBytes}]
      BY <1>2 DEF DeliverPackage, LoaderTypes, LoaderRecord
    <2>2. loader.loaded = loader.manifest
      BY <2>1 DEF PollMakesProgress, Rehashed, Checksums
    <2>3. \/ pendingMap' = pendingMap
          \/ pendingMap' = [ checksum |-> loader.manifest,
                             loaded   |-> loader.loaded ]
      BY <1>2 DEF DeliverPackage
    <2>4. pendingMap' \in Packages \cup {NoMap}
          /\ (pendingMap' # NoMap => pendingMap'.loaded = pendingMap'.checksum)
      BY <2>1, <2>2, <2>3 DEF Packages, Checksums
    <2>5. UNCHANGED <<faults, map, traffic, pendingTraffic>>
      BY <1>2 DEF DeliverPackage
    <2> QED BY <2>4, <2>5
  <1>3. CASE LoaderFault \/ WatcherFault
    <2>1. faults' \in 0..MaxFaults /\ UNCHANGED host
      BY <1>3, ReloadAssumption DEF LoaderFault, WatcherFault
    <2> QED BY <2>1 DEF host
  <1>4. CASE WatcherLoadsSidecar
    <2>1. pendingTraffic' \in Sidecars \cup {NoTraffic}
      BY <1>4 DEF WatcherLoadsSidecar, DiskTypes
    <2> QED BY <1>4, <2>1 DEF WatcherLoadsSidecar
  <1>5. CASE InstallMap
    <2>1. pendingMap # NoMap /\ map' = pendingMap /\ pendingMap' = NoMap
          /\ UNCHANGED <<faults, traffic, pendingTraffic>>
      BY <1>5 DEF InstallMap, ReloadDue
    <2> QED BY <2>1
  <1>6. CASE InstallTraffic
    <2>1. /\ pendingMap' = NoMap
          /\ {pendingTraffic', traffic'} \subseteq Sidecars \cup {NoTraffic}
          /\ UNCHANGED <<faults, map>>
      BY <1>6 DEF InstallTraffic, StillPending
    <2> QED BY <2>1
  <1> QED
    BY <1>1, <1>2, <1>3, <1>4, <1>5, <1>6
       DEF ReloadNext, PollTraffic, BakeGround, BakeColliders, CommitManifest,
           BakeFails, EditSidecar, Construct, PollMap, PollManifest,
           LoadPackage, ReadManifest, Check, LoadFile, LoaderRetryDue,
           StampSidecar, StampManifest, WatcherReadsManifest,
           WatcherChecksMap, WatcherRetryDue, Tick

-----------------------------------------------------------------------------
(* The theorems.                                                           *)

\* The server starts on a complete package.
LEMMA ReloadInvInit == ReloadInit => ReloadInv
PROOF
  <1> SUFFICES ASSUME ReloadInit PROVE ReloadInv
    OBVIOUS
  <1>1. content \in Checksums /\ manifest = content
    BY ReloadAssumption DEF ReloadInit, Checksums
  <1>2. DiskTypes
    <2>1. sidecar \in Sidecars
      BY <1>1 DEF ReloadInit, Sidecars
    <2>2. work \in [traffic : BOOLEAN, bakes : Nat, edits : Nat]
      BY ReloadAssumption DEF ReloadInit
    <2>3. written \in Signatures /\ CommitsAreBakes
      BY <2>2 DEF ReloadInit, Signatures, CommitsAreBakes
    <2> QED BY <1>1, <2>1, <2>2, <2>3 DEF ReloadInit, DiskTypes
  <1>3. LoaderTypes
    <2>1. /\ loader \in LoaderRecord /\ loader.step = "new"
          /\ loader.gone = NothingGone
      BY NoPollIsIdle DEF ReloadInit, LoaderRecord, LoaderSteps
    <2>2. known \in KnownRecord /\ known.accepted = NoBytes
      BY <1>1 DEF ReloadInit, KnownRecord
    <2>3. PollIsNew
      BY <2>1 DEF PollIsNew, Polling
    <2> QED BY <2>1, <2>2, <2>3 DEF LoaderTypes
  <1>4. WatcherTypes
    BY DEF ReloadInit, WatcherTypes, WatcherRecord, WatcherSteps
  <1>5. HostTypes
    <2>1. /\ map \in Packages /\ map.loaded = map.checksum
          /\ pendingMap = NoMap /\ pendingTraffic = NoTraffic
      BY <1>1 DEF ReloadInit, Package, Packages, Checksums
    <2>2. traffic \in Sidecars \cup {NoTraffic}
      BY <1>2 DEF ReloadInit, DiskTypes
    <2> QED BY <2>1, <2>2, ReloadAssumption
            DEF ReloadInit, HostTypes, NoMixedPackage
  <1>6. PollMakesProgress
    <2>1. loader.step = "new"
      BY NoPollIsIdle DEF ReloadInit, LoaderRecord
    <2> QED BY <2>1
            DEF PollMakesProgress, Polling, Hashed, Loaded, Rehashed
  <1> QED BY <1>2, <1>3, <1>4, <1>5, <1>6 DEF ReloadInv

\* Every step preserves the inductive invariant.
LEMMA ReloadInvStep == ReloadInv /\ [ReloadNext]_reloadVars => ReloadInv'
PROOF
  <1>1. ASSUME ReloadInv, ReloadNext PROVE ReloadInv'
    BY <1>1, DiskStep, LoaderStep, WatcherStep, HostStep, ProgressStep
       DEF ReloadInv
  <1>2. ASSUME ReloadInv, UNCHANGED reloadVars PROVE ReloadInv'
    <2> USE <1>2 DEF reloadVars, disk, mapThread, host
    <2>1. DiskTypes'
      BY DEF ReloadInv, DiskTypes, CommitsAreBakes, Signatures
    <2>2. LoaderTypes'
      BY DEF ReloadInv, LoaderTypes, PollIsNew, Polling
    <2>3. WatcherTypes'
      BY DEF ReloadInv, WatcherTypes, WatcherRecord, Signatures
    <2>4. HostTypes'
      BY DEF ReloadInv, HostTypes, NoMixedPackage
    <2>5. PollMakesProgress'
      BY DEF ReloadInv, PollMakesProgress, Polling, Hashed, Loaded, Rehashed
    <2> QED BY <2>1, <2>2, <2>3, <2>4, <2>5 DEF ReloadInv
  <1> QED BY <1>1, <1>2

\* The inductive invariant of the reload holds in every state.
THEOREM ReloadInvariant == ReloadSpec => []ReloadInv
PROOF
  BY ReloadInvInit, ReloadInvStep, PTL DEF ReloadSpec

\* Type correctness: a manifest is remembered as accepted or as rejected,
\* never as both (map_package_runtime.cpp, MapPackageHotReloader::poll_once).
THEOREM ReloadTypeCorrect == ReloadSpec => []ReloadTypeOK
PROOF
  <1>1. ReloadInv => ReloadTypeOK
    BY DEF ReloadInv, DiskTypes, LoaderTypes, WatcherTypes, HostTypes,
           LoaderRecord, KnownRecord, WatcherRecord, ReloadTypeOK
  <1> QED BY <1>1, ReloadInvariant, PTL

\* The ground and the colliders that reach the host are those of one
\* manifest, whatever the exporter replaces while they are loaded
\* (map_package_runtime.cpp, load_runtime_map_package).
THEOREM PackagesAreNeverMixed == ReloadSpec => []NoMixedPackage
PROOF
  BY ReloadInvariant, PTL DEF ReloadInv, HostTypes
==============================================================================
