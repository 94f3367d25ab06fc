------------------------- MODULE MCLiveMeasurement -------------------------
(* Model checking LiveMeasurement: times in units of a request interval.   *)
EXTENDS LiveMeasurement

\* A second connection takes over, or the client begins anew.
TwoConnections ==
    [gens |-> 2, lapses |-> 0, revisions |-> 1, frames |-> 1, time |-> 2]

\* Frames of one connection pile up.  (A new connection has none yet.)
LateFrames ==
    [gens |-> 1, lapses |-> 0, revisions |-> 2, frames |-> 2, time |-> 2]

\* One connection that loses its Hello and greets again.
LapsingConnection ==
    [gens |-> 1, lapses |-> 1, revisions |-> 2, frames |-> 1, time |-> 2]

MCWorkloads == {TwoConnections, LateFrames, LapsingConnection}
=============================================================================
