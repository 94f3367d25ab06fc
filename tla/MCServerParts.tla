---------------------------- MODULE MCServerParts ----------------------------
(* Model checking the two classes the host rests on, ControlLease and        *)
(* WsSession: a lease under an arbitrary caller, and a session with four     *)
(* broadcasts, so that an update is replaced while a write is running and    *)
(* again after it.  No symmetry: the run checks liveness.                    *)
EXTENDS ControlLease, WsSession

VARIABLE question    \* what the run is about: "lease" or "session"

partsVars == <<vars, sessionVars, question>>

PartsInit == Init /\ SessionInit /\ question \in {"lease", "session"}

PartsNext ==
    \/ question = "lease" /\ Next /\ UNCHANGED <<sessionVars, question>>
    \/ question = "session" /\ SessionNext /\ UNCHANGED <<vars, question>>

PartsSpec ==
    /\ PartsInit /\ [][PartsNext]_partsVars
    /\ question = "lease" => Fairness
    /\ question = "session" => SessionFairness
=============================================================================
