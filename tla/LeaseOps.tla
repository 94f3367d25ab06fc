------------------------------ MODULE LeaseOps ------------------------------
(***************************************************************************)
(* The operations of the class ControlLease (control/control_lease.hpp) as *)
(* operators on one record, the lease.  The class is pure state: it reads  *)
(* no clock and calls nobody, so that each operation is a condition on the *)
(* lease and its argument, and the lease it leaves behind.  A rejected     *)
(* operation leaves the lease as it was and has no operator of its own.    *)
(*                                                                         *)
(* A key stands for make_key(source_id, session_id).  Times are natural    *)
(* numbers of one unit; Never is time_point::min(), "no command yet".      *)
(***************************************************************************)
EXTENDS Integers

CONSTANTS
    Keys,          \* pairs of a source and a connection session
    NoKey,         \* the empty key
    Timeout,       \* timeout_: SafeStop when a command is older than this
    HardTimeout,   \* hard_timeout_: the session is retired
    MaxQueueAge    \* max_queue_age_: the oldest command still accepted

\* What the constructor demands of its arguments, and that the empty key is
\* the key of no controller.
ASSUME LeaseAssumption ==
    /\ NoKey \notin Keys
    /\ Timeout \in Nat \ {0}
    /\ HardTimeout \in Nat
    /\ HardTimeout > Timeout
    /\ MaxQueueAge \in Nat

Never == -1

LeaseRecord ==
    [ active     : Keys \cup {NoKey},   \* active_key_, the owner
      resetKey   : Keys \cup {NoKey},   \* reset_session_key_
      retired    : SUBSET Keys,         \* retired_sessions_, never shrinks
      seq        : Nat,                 \* highest_sequence_
      clientTime : Nat,                 \* last_client_time_ns_
      receivedAt : Nat \cup {Never},    \* last_receive_time_
      queueAge   : Nat,                 \* estimated_queue_age_
      safeStop   : BOOLEAN ]            \* safe_stop_active_

FreshLease ==
    [ active |-> NoKey, resetKey |-> NoKey, retired |-> {}, seq |-> 0,
      clientTime |-> 0, receivedAt |-> Never, queueAge |-> 0,
      safeStop |-> TRUE ]

-----------------------------------------------------------------------------
(* accept(): a command is a record with fields key, seq and clientTime.    *)

NonNegative(n) == IF n > 0 THEN n ELSE 0

\* Mutant of EstimatedAge: the estimate starts again at each command.
AgeSinceLastCommand(l, cmd, t) ==
    IF cmd.key = l.active /\ l.receivedAt # Never
      THEN NonNegative((t - l.receivedAt) - (cmd.clientTime - l.clientTime))
      ELSE 0

\* The delay of the command relative to the freshest timing of its session:
\* what the server clock advanced since the last command, beyond what the
\* client's clock advanced, added to the delay estimated so far.
EstimatedAge(l, cmd, t) ==
    IF cmd.key = l.active /\ l.receivedAt # Never
      THEN NonNegative(l.queueAge + (t - l.receivedAt)
                                  - (cmd.clientTime - l.clientTime))
      ELSE 0

\* Mutant of CanAccept: SafeStop lets another controller in.
CanAcceptInSafeStop(l, cmd, t) ==
    /\ cmd.clientTime > 0
    /\ cmd.seq > 0
    /\ \/ /\ cmd.key = l.active
          /\ cmd.seq > l.seq
          /\ l.receivedAt # Never => cmd.clientTime >= l.clientTime
       \/ /\ l.active = NoKey \/ l.safeStop
          /\ cmd.key \notin l.retired
    /\ EstimatedAge(l, cmd, t) <= MaxQueueAge

\* Mutant of CanAccept: the frame accepted last is accepted again.
CanAcceptAgain(l, cmd, t) ==
    /\ cmd.clientTime > 0
    /\ cmd.seq > 0
    /\ \/ /\ cmd.key = l.active
          /\ cmd.seq >= l.seq
          /\ l.receivedAt # Never => cmd.clientTime >= l.clientTime
       \/ /\ l.active = NoKey
          /\ cmd.key \notin l.retired
    /\ EstimatedAge(l, cmd, t) <= MaxQueueAge

CanAccept(l, cmd, t) ==
    /\ cmd.clientTime > 0
    /\ cmd.seq > 0
    /\ \/ /\ cmd.key = l.active
          /\ cmd.seq > l.seq
          /\ l.receivedAt # Never => cmd.clientTime >= l.clientTime
       \/ /\ l.active = NoKey
          /\ cmd.key \notin l.retired
    /\ EstimatedAge(l, cmd, t) <= MaxQueueAge

AfterAccept(l, cmd, t) ==
    [ l EXCEPT !.active     = cmd.key,
               !.seq        = cmd.seq,
               !.clientTime = cmd.clientTime,
               !.receivedAt = t,
               !.queueAge   = EstimatedAge(l, cmd, t),
               !.safeStop   = FALSE ]

-----------------------------------------------------------------------------
(* The two deadlines, examined by the host at the start of a tick.         *)

SoftTimeoutDue(l, t) ==
    ~l.safeStop /\ l.receivedAt # Never /\ t - l.receivedAt > Timeout

AfterSoftTimeout(l) == [l EXCEPT !.safeStop = TRUE]

\* Mutant of HardTimeoutDue: a stopped vehicle needs no hard deadline.
HardTimeoutDueIfArmed(l, t) ==
    /\ ~l.safeStop
    /\ l.active # NoKey
    /\ t - l.receivedAt > HardTimeout

HardTimeoutDue(l, t) ==
    /\ l.receivedAt # Never
    /\ l.active # NoKey
    /\ t - l.receivedAt > HardTimeout

AfterHardTimeout(l) ==
    [ l EXCEPT !.safeStop = TRUE,
               !.retired  = @ \cup {l.active},
               !.active   = NoKey ]

-----------------------------------------------------------------------------
(* The three lifecycle transitions.                                        *)

\* The keys the lease refers to now.
HeldKeys(l) == {l.active, l.resetKey} \ {NoKey}

\* Nobody owns the lease, no command was received, SafeStop is active.
Cleared(l, resetKey, retired) ==
    [ FreshLease EXCEPT !.resetKey = resetKey, !.retired = retired ]

CanBegin(l, key) == key \notin l.retired

\* Mutant of AfterBegin: the displaced controller is not retired.
AfterBeginUnfenced(l, key) == Cleared(l, key, l.retired)

AfterBegin(l, key) ==
    Cleared(l, key, l.retired \cup (HeldKeys(l) \ {key}))

AfterMapReset(l) == Cleared(l, NoKey, l.retired \cup HeldKeys(l))

\* The result SameSession: nothing to do.
IsSameSession(l, key) == key \notin l.retired /\ key = l.resetKey

\* The result Ready.
CanReconnect(l, key) == key \notin l.retired /\ key # l.resetKey

\* Mutant of AfterReconnect: the displaced connection is not retired.
AfterReconnectUnfenced(l, key) == Cleared(l, key, l.retired)

AfterReconnect(l, key) == Cleared(l, key, l.retired \cup HeldKeys(l))

-----------------------------------------------------------------------------
HasControlCommand(l) == l.receivedAt # Never

\* Only the hard deadline takes the owner away and keeps its last command.
RequiresReconnect(l) == HasControlCommand(l) /\ l.active = NoKey
=============================================================================
