-------------------------- MODULE MCSimulationHost --------------------------
(* Model checking SimulationHost: the catalog and the workloads.             *)
EXTENDS SimulationHost, TLC

\* A sedan, and a sedan with one exchanged part.
MCCatalog == {Sedan} \X Loadouts

\* Two connections, the deadlines and reloads of the map; two vehicles.
DeadlinesAndReloads ==
    [ connections |-> 2, time |-> 3, loadouts |-> TRUE, stops |-> TRUE,
      deliveries |-> Maps ]

\* Three connections and two sessions compete, without clock and reload: one
\* Hello more than the table holds, so that its oldest entry is evicted.
Takeover ==
    [ connections |-> 3, time |-> 0, loadouts |-> FALSE, stops |-> FALSE,
      deliveries |-> {} ]

MCWorkloads == {DeadlinesAndReloads, Takeover}

\* A controller falls silent, with or without another one taking over.
Silence ==
    [ connections |-> 2, time |-> 4, loadouts |-> TRUE, stops |-> TRUE,
      deliveries |-> {} ]

MCSilence == {Silence}

Symmetry == Permutations(Sessions) \cup Permutations(Plays)
=============================================================================
