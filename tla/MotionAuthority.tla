-------------------------- MODULE MotionAuthority --------------------------
(***************************************************************************)
(* What the server promises about the player's vehicle, without sessions,  *)
(* clocks, leases or maps.  At most one connection owns motion.  A new     *)
(* owner is always newer than every owner before it, and starts from a     *)
(* safe input.  Only the owner drives.  A safe stop may come at any time.  *)
(* After an emergency stop nobody becomes owner and nobody drives again.   *)
(***************************************************************************)
EXTENDS Integers

CONSTANTS
    Connections,   \* positive numbers, in the order of acceptance
    Inputs,        \* driving inputs
    SafeInput      \* none of them

VARIABLES
    owner,     \* the connection that may drive, 0 for nobody
    newest,    \* the newest connection that ever was owner
    motion,    \* the input applied to the vehicle
    latched    \* the emergency stop was pulled

vars == <<owner, newest, motion, latched>>

Init ==
    /\ owner = 0
    /\ newest = 0
    /\ motion = SafeInput
    /\ latched = FALSE

Establish(c) ==
    /\ ~latched
    /\ c > newest
    /\ owner' = c
    /\ newest' = c
    /\ motion' = SafeInput
    /\ UNCHANGED latched

Drive(i) ==
    /\ ~latched
    /\ owner # 0
    /\ motion' = i
    /\ UNCHANGED <<owner, newest, latched>>

SafeStop ==
    /\ motion' = SafeInput
    /\ UNCHANGED <<owner, newest, latched>>

Revoke ==
    /\ owner' = 0
    /\ motion' = SafeInput
    /\ UNCHANGED <<newest, latched>>

Latch ==
    /\ latched' = TRUE
    /\ motion' = SafeInput
    /\ UNCHANGED <<owner, newest>>

Next ==
    \/ \E c \in Connections : Establish(c)
    \/ \E i \in Inputs : Drive(i)
    \/ SafeStop
    \/ Revoke
    \/ Latch

Spec == Init /\ [][Next]_vars
=============================================================================
