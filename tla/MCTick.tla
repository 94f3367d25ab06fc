------------------------------- MODULE MCTick -------------------------------
(* Model checking Tick.  Three questions with workloads of their own: a      *)
(* structure under contacts over several ticks, some of them held; ticks     *)
(* that are completed late, with plays and maps in between; short recordings *)
(* with everything that can happen between and in their ticks.               *)
EXTENDS Tick

MCTimes == 0..40

DamageWork(mode, kind, ticks, impulses) ==
    [ mode |-> mode, kind |-> kind, ticks |-> ticks, lapses |-> 1,
      lags |-> {0}, impulses |-> impulses,
      recorded |-> FALSE, frames |-> 1, lines |-> 1 ]

LateWork ==
    [ mode |-> "file", kind |-> "building", ticks |-> 3, lapses |-> 2,
      lags |-> {0, 2, 5}, impulses |-> {0},
      recorded |-> FALSE, frames |-> 1, lines |-> 1 ]

ReplayWork(mode, ticks, lapses, lines) ==
    [ mode |-> mode, kind |-> "pole", ticks |-> ticks, lapses |-> lapses,
      lags |-> {0}, impulses |-> {0, 3},
      recorded |-> TRUE, frames |-> ticks, lines |-> lines ]

MCWorkloads ==
    { DamageWork("file", "building", 6, {0, 2, 3}),
      DamageWork("live_npc", "pole", 5, {0, 3}),
      DamageWork("live_npc", "pole", 4, {0, 3, 4}),
      LateWork,
      ReplayWork("file", 3, 2, 20), ReplayWork("live", 2, 2, 6) }

\* A pole is hit, on a map's file.
MCImpact == { DamageWork("file", "pole", 3, {0, 4}) }
=============================================================================
