----------------------------- MODULE MCHotReload -----------------------------
(* Model checking HotReload.  Two contents per file, so that a bake may     *)
(* change one payload and keep the other, and a later one may return to an  *)
(* earlier content.  Three bakes race with the loader of the map package;   *)
(* one bake and one rewrite of the traffic network race with both threads.  *)
EXTENDS HotReload

MCWorkloads ==
    { [traffic |-> FALSE, bakes |-> 3, edits |-> 0],
      [traffic |-> TRUE, bakes |-> 1, edits |-> 1] }
=============================================================================
