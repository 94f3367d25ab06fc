--------------------------- MODULE StructureDamage ---------------------------
(***************************************************************************)
(* What one damageable structure, a building or the pole of a traffic      *)
(* signal, does with the impulses of the contacts it takes part in         *)
(* (structure_damage.cpp).  A tick of the simulation first consumes what   *)
(* the contacts of the tick before left pending, then solves contacts      *)
(* against the structures as they are now, and records them for the next.  *)
(*                                                                         *)
(* Impulses add up over a window of the last Window ticks, and the largest *)
(* such sum of an episode, which ends when Window ticks bring no contact,  *)
(* is what the episode may damage.  Damage is counted in units of impulse  *)
(* above the onset: Full of them are 100 percent.  Where a contact was,    *)
(* how the pole falls and where it slides are data that nothing here       *)
(* depends on, and left out.                                               *)
(***************************************************************************)
EXTENDS Integers, Sequences, FiniteSetsExt, Functions

CONSTANTS
    Window,    \* contact_window_seconds, in ticks of constant length
    Onset,     \* *_damage_onset_impulse_n_s
    Full       \* impulse beyond the onset that does all the damage at once

ASSUME DamageAssumption ==
    Window \in Nat \ {0} /\ Onset \in Nat /\ Full \in Nat \ {0}

TargetRecord ==
    [ kind     : {"pole", "building"},
      damage   : 0..Full,        \* state.damage_percent
      events   : Nat,            \* state.event_sequence
      disabled : BOOLEAN,        \* state.disabled: a pole that fell
      released : BOOLEAN,        \* breakaway_released: its base gave way
      pending  : Nat,            \* pending_impulse_n_s
      window   : Seq(Nat),       \* window, newest interval last
      quiet    : 0..Window,      \* quiet_seconds
      peak     : Nat,            \* episode_peak_impulse_n_s
      charged  : 0..Full,        \* episode_damage_percent
      shown    : BOOLEAN ]       \* episode_has_event

Intact(kind) ==
    [ kind |-> kind, damage |-> 0, events |-> 0, disabled |-> FALSE,
      released |-> FALSE, pending |-> 0, window |-> <<>>, quiet |-> Window,
      peak |-> 0, charged |-> 0, shown |-> FALSE ]

Clamped(low, n, high) == IF n < low THEN low ELSE IF n > high THEN high ELSE n

Greater(m, n) == IF m >= n THEN m ELSE n

-----------------------------------------------------------------------------
(* tick(): what was left pending is consumed.                              *)

\* update_window(): one more interval, and none older than the window.
Slid(window, impulse) ==
    LET longer == Append(window, impulse)
    IN  IF Len(longer) > Window THEN Tail(longer) ELSE longer

\* The part of a tick that brought an impulse: the episode may reach a new
\* peak, and charges what that peak damages beyond what it charged before.
AfterImpulse(d) ==
    LET window  == Slid(d.window, d.pending)
        peak    == Greater(d.peak, SumFunction(window))
        charge  == Clamped(0, peak - Onset, Full)
        added   == charge - d.charged
        damages == added > 0 /\ (d.kind = "pole" => d.damage < Full)
        damage  == IF damages THEN Clamped(0, d.damage + added, Full)
                              ELSE d.damage
        falls   == damages /\ d.kind = "pole" /\ damage = Full
    IN  [ d EXCEPT !.window = window, !.pending = 0, !.quiet = 0,
                   !.peak = peak, !.charged = charge, !.damage = damage,
                   !.events = IF damages /\ ~d.shown THEN @ + 1 ELSE @,
                   !.shown = @ \/ damages,
                   !.disabled = @ \/ falls, !.released = @ \/ falls ]

\* Mutant of AfterQuiet: an episode ends with the first tick of quiet.
AfterQuietAtOnce(d) ==
    [ d EXCEPT !.window = Slid(@, 0), !.quiet = Window, !.peak = 0,
               !.charged = 0, !.shown = FALSE ]

\* The part of a tick without impulse: after a window of quiet the episode
\* is over.
AfterQuiet(d) ==
    LET quiet == Clamped(0, d.quiet + 1, Window)
        over  == quiet = Window
    IN  [ d EXCEPT !.window = Slid(@, 0), !.quiet = quiet,
                   !.peak = IF over THEN 0 ELSE @,
                   !.charged = IF over THEN 0 ELSE @,
                   !.shown = @ /\ ~over ]

\* A tick in which nobody drives discards what is pending: it neither
\* damages nor heals, and no time passes for the window.
Ticked(d, enabled) ==
    IF ~enabled           THEN [d EXCEPT !.pending = 0]
    ELSE IF d.pending > 0 THEN AfterImpulse(d)
                          ELSE AfterQuiet(d)

-----------------------------------------------------------------------------
(* The collision solve of the tick, and what it leaves.                    *)

\* The impulse that breaks the base of a pole in this solve (refresh_caches
\* and resolve_finite_proxy_contact): what the damage still lacks, seen from
\* the peak that the episode has reached.
Resistance(d) == Greater(1, Onset + Full - d.damage + d.charged - d.peak)

Breaks(d, impulse) ==
    d.kind = "pole" /\ ~d.released /\ impulse >= Resistance(d)

\* The pole as collision geometry: what the solve is given of it.
Proxy(d) ==
    IF d.kind = "building" THEN [fixed |-> TRUE]
    ELSE [ released |-> d.released, disabled |-> d.disabled,
           resistance |-> IF d.released THEN 0 ELSE Resistance(d) ]

\* record_contacts() and accept_resolved_proxies() after the solve: a fallen
\* pole collects no more damage.
AfterContacts(d, impulse) ==
    [ d EXCEPT !.pending = IF d.disabled THEN @ ELSE @ + impulse,
               !.released = @ \/ Breaks(d, impulse) ]

\* The server tells the clients of a structure, and where it stands now, when
\* it has taken damage (snapshots_).
OnTheWire(d) == d.damage > 0

-----------------------------------------------------------------------------
(* The damage and the events a structure should show, from the ticks it    *)
(* went through since it was intact: a sequence of records, whether the    *)
(* tick was enabled and the impulse its contacts brought.  An impulse      *)
(* counts in the tick after its own, if that one is enabled.               *)

\* What the ledger's n-th tick leaves for the next one to count.
Waiting(ledger, n) == IF n = 0 THEN 0 ELSE ledger[n].impulse

\* The impulses x counted before the ledger's n-th tick, and after it.
Counting(x, ledger, n) ==
    IF ledger[n].enabled THEN Append(x, Waiting(ledger, n - 1)) ELSE x

Impulses(ledger) ==
    LET after[n \in 0..Len(ledger)] ==
          IF n = 0 THEN <<>> ELSE Counting(after[n - 1], ledger, n)
    IN  after[Len(ledger)]

\* x, a sequence of impulses by tick, starts an episode with its n-th element.
StartsEpisode(x, n) ==
    x[n] > 0 /\ \A k \in Greater(1, n - Window) .. n - 1 : x[k] = 0

Episodes(x) == { n \in DOMAIN x : StartsEpisode(x, n) }

\* The last tick of the episode that starts with the n-th impulse.
EpisodeEnd(x, n) ==
    LET later == { k \in n + 1 .. Len(x) : StartsEpisode(x, k) }
    IN  IF later = {} THEN Len(x) ELSE Min(later) - 1

WindowSum(x, n) == SumFunctionOnSet(x, Greater(1, n - Window + 1) .. n)

\* What the window holds in those of the ticks from first to last that bring
\* an impulse.
Peaks(x, first, last) ==
    { WindowSum(x, k) : k \in { k \in first..last : x[k] > 0 } }

EpisodeDamage(x, n) ==
    Clamped(0, Max(Peaks(x, n, EpisodeEnd(x, n))) - Onset, Full)

Damages(x) == [ n \in Episodes(x) |-> EpisodeDamage(x, n) ]

\* What a structure shows that each of the episodes damages by charge.
TotalDamage(charge, episodes) ==
    Clamped(0, SumFunctionOnSet(charge, episodes), Full)

\* A fallen pole reports nothing more, a building goes on.
ReportedEpisodes(kind, charge, episodes) ==
    { n \in episodes :
        /\ charge[n] > 0
        /\ kind = "building"
             \/ TotalDamage(charge, { m \in episodes : m < n }) < Full }
=============================================================================
