---------------------------- MODULE ControlLease ----------------------------
(***************************************************************************)
(* The control lease as an object of its own: every operation of the class *)
(* ControlLease, called in any order with any argument, while the server's *)
(* steady clock advances.  The host (module SimulationHost) calls the same *)
(* operations under stricter conditions.                                   *)
(*                                                                         *)
(* Two history variables record what the class does not remember:          *)
(*   owned       every key that ever owned the lease;                      *)
(*   bestOffset  the smallest difference between receive time and client   *)
(*               time over the commands the present owner had accepted.    *)
(***************************************************************************)
EXTENDS LeaseOps

CONSTANTS
    MaxSeq,          \* bound on command sequence numbers
    MaxClientTime,   \* bound on client_time_ns
    MaxTime,         \* bound on the server clock
    CommandHorizon   \* no command arrives after this time

ASSUME BoundsAssumption ==
    /\ MaxSeq \in Nat
    /\ MaxClientTime \in Nat
    /\ MaxTime \in Nat
    /\ CommandHorizon \in Nat

VARIABLES lease, now, owned, bestOffset

vars == <<lease, now, owned, bestOffset>>

Commands == [key : Keys, seq : 0..MaxSeq, clientTime : 0..MaxClientTime]

Init ==
    /\ lease = FreshLease
    /\ now = 0
    /\ owned = {}
    /\ bestOffset = 0

Advance ==
    /\ now < MaxTime
    /\ now' = now + 1
    /\ UNCHANGED <<lease, owned, bestOffset>>

SmallerOf(a, b) == IF a < b THEN a ELSE b

Accept(cmd) ==
    /\ now <= CommandHorizon
    /\ CanAccept(lease, cmd, now)
    /\ lease' = AfterAccept(lease, cmd, now)
    /\ owned' = owned \cup {cmd.key}
    /\ bestOffset' = IF lease.active = cmd.key
                       THEN SmallerOf(bestOffset, now - cmd.clientTime)
                       ELSE now - cmd.clientTime
    /\ UNCHANGED now

UpdateTimeout ==
    /\ SoftTimeoutDue(lease, now)
    /\ lease' = AfterSoftTimeout(lease)
    /\ UNCHANGED <<now, owned, bestOffset>>

UpdateHardTimeout ==
    /\ HardTimeoutDue(lease, now)
    /\ lease' = AfterHardTimeout(lease)
    /\ UNCHANGED <<now, owned, bestOffset>>

BeginNewSimulation(key) ==
    /\ CanBegin(lease, key)
    /\ lease' = AfterBegin(lease, key)
    /\ UNCHANGED <<now, owned, bestOffset>>

ResetForNewSimulation ==
    /\ lease' = AfterMapReset(lease)
    /\ UNCHANGED <<now, owned, bestOffset>>

ResetForReconnect(key) ==
    /\ CanReconnect(lease, key)
    /\ lease' = AfterReconnect(lease, key)
    /\ UNCHANGED <<now, owned, bestOffset>>

Next ==
    \/ Advance
    \/ \E cmd \in Commands : Accept(cmd)
    \/ UpdateTimeout
    \/ UpdateHardTimeout
    \/ \E key \in Keys : BeginNewSimulation(key)
    \/ ResetForNewSimulation
    \/ \E key \in Keys : ResetForReconnect(key)

Spec == Init /\ [][Next]_vars

\* The clock runs, and the host examines the deadlines on every tick.
Fairness ==
    /\ WF_vars(Advance)
    /\ WF_vars(UpdateTimeout)
    /\ WF_vars(UpdateHardTimeout)

FairSpec == Spec /\ Fairness
-----------------------------------------------------------------------------
TypeOK ==
    /\ lease \in LeaseRecord
    /\ now \in Nat
    /\ owned \subseteq Keys
    /\ bestOffset \in Int

\* Every key that ever owned the lease is either still held by it or fenced
\* off for good: no order of commands, deadlines and lifecycle transitions
\* lets a displaced controller come back ("delayed packets from an earlier
\* PIE run cannot re-arm the vehicle").
DisplacedOwnersAreFenced ==
    /\ owned \ {lease.active, lease.resetKey} \subseteq lease.retired
    /\ lease.active \notin lease.retired

\* The age estimate is exactly the backlog that built up since the freshest
\* command of the owner, however many accepted commands lie in between, and
\* never above the limit: a slowly growing queue cannot keep refreshing the
\* lease.
QueueAgeIsBacklog ==
    lease.active # NoKey =>
        /\ lease.queueAge
             = (lease.receivedAt - lease.clientTime) - bestOffset
        /\ lease.queueAge <= MaxQueueAge

\* Motion is armed only for an owner that has sent a command: whatever took
\* the owner away also made the vehicle safe.
ArmedOnlyForOwner ==
    ~lease.safeStop => /\ lease.active # NoKey
                       /\ lease.receivedAt # Never
                       /\ lease.active \in owned

\* SafeStop is no opening for another controller: the lease never passes from
\* one owner to another without being given up in between.
NoPreemption ==
    [][ lease.active # NoKey /\ lease'.active # NoKey
          => lease'.active = lease.active ]_vars

\* An owner either sends another command or loses the lease: a silent
\* controller does not keep it.
SilentOwnerIsRetired ==
    \A t \in 0..MaxTime :
        (lease.active # NoKey /\ lease.receivedAt = t)
          ~> (lease.active = NoKey \/ lease.receivedAt # t)
=============================================================================
