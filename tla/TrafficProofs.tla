--------------------------- MODULE TrafficProofs ----------------------------
(***************************************************************************)
(* Two things a car of the traffic does not do, for every limit, duration  *)
(* and threshold: back further than it may, and drive too early after a    *)
(* hit; and what it shows of its hits: damage and events as its blows      *)
(* amount to.                                                              *)
(*                                                                         *)
(* Backing (NpcNavigation).  What a car has backed and what it is about to *)
(* back keep the limit together, through every stop and change of plan     *)
(* (RoomIsLeft).  A plan ends at its beginning or its end because a car    *)
(* that recovers from it stays between the two, and backs no further than  *)
(* to its beginning (WithinPlan, RecoversToBeginning).                     *)
(*                                                                         *)
(* Hits (ImpactRecovery).  What a car has still to hold and what it has    *)
(* rested are together at least the hold that its severity asks for, its   *)
(* severity is at least the hardest blow, and it takes itself for no       *)
(* quieter than it is (WaitsEnough).  The history follows the blows, not   *)
(* the car, so this has to be shown of every path through a tick: of the   *)
(* policy (TickedCar), of what rests on it (UpdatedCar), of the time of a  *)
(* tick (MetCar) and of its contacts (ContactedCar).                       *)
(*                                                                         *)
(* Damage (ImpactRecovery).  The history of a run keeps every blow.  A car *)
(* keeps of it the last ticks (Remembers), for how long there was no       *)
(* contact (CalmFor), and what shows of the last episode while that goes   *)
(* on (InEpisode); with that, and with what disabled it (ChargedFor), its  *)
(* damage and its events stay those of the whole history (Account).  A     *)
(* tick adds silence to the history (TimeAccount) or a blow to its last    *)
(* tick (BlowAccount), which changes nothing (SilentAccount), begins an    *)
(* episode or joins the last one (TouchedAccount).                         *)
(***************************************************************************)
EXTENDS NpcNavigation, ImpactRecovery, Induction, SequenceTheorems, TLAPS

-----------------------------------------------------------------------------
(* A car on its way.                                                       *)

NpcRecord ==
    [ pos : Nat, halt : {"none", "blocked", "other"},
      plan : {"none", "lane_change", "local_bypass"}, begin : Nat,
      phase : {"none", "waiting", "backing", "ready"},
      remaining : Nat, total : Nat, stopAt : Nat \cup {NoStop},
      recovering : BOOLEAN, anchor : Nat, obstructed : Nat,
      searching : BOOLEAN, searchedAt : Nat, observe : Nat,
      searchPause : Nat, requested : BOOLEAN, probe : BOOLEAN,
      pause : Nat, waited : Nat, drives : BOOLEAN,
      backed : Nat, crash : BOOLEAN ]

RetreatBound(v) == IF v.crash THEN AccidentLimit ELSE Limit

\* What a car has backed and what it is about to back keep the limit.
RoomIsLeft(v) ==
    /\ v.backed = v.total
    /\ v.total + v.remaining <= RetreatBound(v)

\* A reverse that is planned has a way to go.
ReverseHasAWay(v) ==
    /\ v.phase = "backing" => v.remaining # 0
    /\ v.phase = "waiting" /\ v.plan = "none" => v.remaining # 0

\* A plan that goes on is between its beginning and its end.
WithinPlan(v) ==
    v.plan # "none" => /\ v.begin <= v.pos
                       /\ v.pos < v.begin + work.plan
                       /\ ~v.recovering => v.phase = "none"

\* A car that recovers from a plan stands, or backs to its beginning at most.
RecoversToBeginning(v) ==
    v.recovering => /\ v.plan # "none" /\ v.anchor = v.begin
                    /\ v.stopAt # NoStop /\ v.stopAt <= v.pos
                    /\ v.phase = "backing" => v.remaining <= v.pos - v.begin

NpcInv(v) ==
    /\ v \in NpcRecord
    /\ RoomIsLeft(v) /\ ReverseHasAWay(v)
    /\ WithinPlan(v) /\ RecoversToBeginning(v)

NavigationInv ==
    /\ work \in Workloads
    /\ DOMAIN npc = Npcs
    /\ \A n \in Npcs : NpcInv(npc[n])

\* A car that meets an accident knows of it.
KnowsCrash(v, m) == m.ahead = "crash" => v.crash

\* The limit of what is ahead is within that of what a car has seen.
LEMMA LimitIsBound ==
    ASSUME NEW v \in NpcRecord, NEW m \in Meets, KnowsCrash(v, m)
    PROVE  /\ RetreatLimit(m) \in Nat /\ RetreatBound(v) \in Nat
           /\ RetreatLimit(m) <= RetreatBound(v)
PROOF
  BY NpcAssumption DEF RetreatLimit, RetreatBound, KnowsCrash

\* A car that is free to go on has no reverse left, and its plan if it had one.
LEMMA ClearedCar ==
    ASSUME NEW v \in NpcRecord, v.plan # "none" => WithinPlan(v)
    PROVE  /\ NpcInv(Cleared(v))
           /\ Cleared(v).pos = v.pos /\ Cleared(v).plan = v.plan
           /\ Cleared(v).begin = v.begin
PROOF
  <1>1. Cleared(v) \in NpcRecord
    BY ZenonT(60) DEF Cleared, NpcRecord
  <1>2. /\ Cleared(v).pos = v.pos /\ Cleared(v).plan = v.plan
        /\ Cleared(v).begin = v.begin /\ Cleared(v).phase = "none"
        /\ Cleared(v).remaining = 0 /\ Cleared(v).total = 0
        /\ Cleared(v).backed = 0 /\ Cleared(v).recovering = FALSE
    BY DEF Cleared, NpcRecord
  <1>3. RetreatBound(Cleared(v)) >= 0
    BY NpcAssumption DEF RetreatBound
  <1> QED BY <1>1, <1>2, <1>3
          DEF NpcInv, RoomIsLeft, ReverseHasAWay, WithinPlan,
              RecoversToBeginning

\* Two states of a car that differ in what it thinks only.
SameCar(v, w) ==
    /\ w.pos = v.pos /\ w.plan = v.plan /\ w.begin = v.begin
    /\ w.phase = v.phase /\ w.remaining = v.remaining /\ w.total = v.total
    /\ w.recovering = v.recovering /\ w.anchor = v.anchor
    /\ w.backed = v.backed /\ w.crash = v.crash

LEMMA SameCarInv ==
    ASSUME NEW v, NpcInv(v), NEW w \in NpcRecord, SameCar(v, w),
           w.recovering => w.stopAt = v.stopAt
    PROVE  NpcInv(w)
PROOF
  BY DEF NpcInv, SameCar, RoomIsLeft, RetreatBound, ReverseHasAWay,
         WithinPlan, RecoversToBeginning

\* A car without a plan.
Free(v) == NpcInv(v) /\ v.plan = "none"

WorkOK == work.plan \in Nat \ {0}

\* A plan begins where the car is.
LEMMA AdoptedCar ==
    ASSUME WorkOK, NEW v, Free(v), NEW plan \in {"lane_change", "local_bypass"}
    PROVE  /\ NpcInv(Adopted(v, plan)) /\ Adopted(v, plan).pos = v.pos
           /\ Adopted(v, plan).plan # "none"
PROOF
  <1>1. v \in NpcRecord
    BY DEF Free, NpcInv
  <1>2. Adopted(v, plan) \in NpcRecord
    BY ZenonT(60), <1>1 DEF Adopted, Cleared, NpcRecord
  <1>3. /\ Adopted(v, plan).pos = v.pos /\ Adopted(v, plan).plan = plan
        /\ Adopted(v, plan).begin = v.pos /\ Adopted(v, plan).phase = "none"
        /\ Adopted(v, plan).remaining = 0 /\ Adopted(v, plan).total = 0
        /\ Adopted(v, plan).backed = 0 /\ Adopted(v, plan).recovering = FALSE
    BY <1>1 DEF Adopted, Cleared, NpcRecord
  <1>4. RetreatBound(Adopted(v, plan)) >= 0
    BY NpcAssumption DEF RetreatBound
  <1>5. v.pos \in Nat
    BY <1>1 DEF NpcRecord
  <1> QED BY <1>2, <1>3, <1>4, <1>5
          DEF NpcInv, RoomIsLeft, ReverseHasAWay, WithinPlan,
              RecoversToBeginning, WorkOK

\* A car that is about to back has room for all of it.
LEMMA EscapeReverseCar ==
    ASSUME NEW v, Free(v), NEW m \in Meets, KnowsCrash(v, m)
    PROVE  /\ Free(EscapeReverse(v, m))
           /\ EscapeReverse(v, m).pos = v.pos
           /\ EscapeReverse(v, m).crash = v.crash
PROOF
  <1> DEFINE room == Smaller(v.pos - Reserve, RetreatLimit(m) - v.total)
             distance == Smaller(Increment, room)
             standing == [v EXCEPT !.stopAt = v.pos, !.probe = FALSE]
             w == EscapeReverse(v, m)
  <1>1. v \in NpcRecord /\ v.plan = "none" /\ v.recovering = FALSE
    BY DEF Free, NpcInv, NpcRecord, RecoversToBeginning
  <1>2. standing \in NpcRecord /\ SameCar(v, standing)
    BY <1>1 DEF NpcRecord, SameCar
  <1>3. CASE \/ ~m.retreatable \/ v.total >= RetreatLimit(m)
             \/ m.distance \notin {"near", "close"}
    <2>1. w = [v EXCEPT !.probe = FALSE]
      BY <1>3 DEF EscapeReverse
    <2>2. w \in NpcRecord /\ SameCar(v, w)
      BY ZenonT(60), <1>1, <2>1 DEF NpcRecord, SameCar
    <2> QED BY <1>1, <2>2, SameCarInv DEF Free, SameCar
  <1>4. CASE ~ \/ ~m.retreatable \/ v.total >= RetreatLimit(m)
               \/ m.distance \notin {"near", "close"}
    <2>1. CASE Moving(v)
      <3>1. w = [standing EXCEPT !.probe = TRUE, !.requested = TRUE]
        BY <1>4, <2>1 DEF EscapeReverse
      <3> HIDE DEF standing, w
      <3>2. w \in NpcRecord /\ SameCar(v, w)
        BY <1>2, <3>1 DEF NpcRecord, SameCar
      <3> QED BY <1>1, <3>2, SameCarInv DEF Free, SameCar, w
    <2>2. CASE ~Moving(v) /\ (distance <= 0 \/ ~m.rear)
      <3>1. w = standing
        BY <1>4, <2>2 DEF EscapeReverse
      <3>2. SameCar(v, w)
        BY <1>1, <1>2, <3>1 DEF NpcRecord, SameCar
      <3> QED BY <1>1, <1>2, <3>1, <3>2, SameCarInv DEF Free, SameCar
    <2>3. CASE ~Moving(v) /\ ~(distance <= 0 \/ ~m.rear)
      <3>1. w = [ standing EXCEPT !.searching = FALSE, !.requested = FALSE,
                                  !.remaining = distance, !.phase = "waiting" ]
        BY <1>4, <2>3 DEF EscapeReverse
      <3>2. RetreatLimit(m) \in Nat /\ RetreatLimit(m) <= RetreatBound(v)
            /\ RetreatBound(v) \in Nat
        BY <1>1, LimitIsBound
      <3>3. /\ distance \in Nat /\ distance # 0
            /\ v.total + distance <= RetreatBound(v)
        BY <1>1, <2>3, <3>2, NpcAssumption DEF Smaller, NpcRecord
      <3> HIDE DEF distance, standing, w
      <3>4. w \in NpcRecord
        BY <1>2, <3>1, <3>3 DEF NpcRecord
      <3>5. /\ w.pos = v.pos /\ w.plan = v.plan /\ w.phase = "waiting"
            /\ w.remaining = distance /\ w.total = v.total
            /\ w.recovering = FALSE /\ w.backed = v.backed
            /\ w.crash = v.crash
        BY <1>1, <1>2, <3>1 DEF NpcRecord, SameCar
      <3>6. v.backed = v.total /\ RetreatBound(w) = RetreatBound(v)
        BY <3>5 DEF Free, NpcInv, RoomIsLeft, RetreatBound
      <3>7. NpcInv(w)
        BY <1>1, <3>2, <3>3, <3>4, <3>5, <3>6
           DEF NpcInv, RoomIsLeft, ReverseHasAWay, WithinPlan,
               RecoversToBeginning
      <3> QED BY <1>1, <3>5, <3>7 DEF Free, w
    <2> QED BY <2>1, <2>2, <2>3
  <1> QED BY <1>3, <1>4

\* A search leaves a car where it is, or finds it a plan.
LEMMA SliceCar ==
    ASSUME WorkOK, NEW v, Free(v), NEW m \in Meets
    PROVE  /\ NpcInv(Slice(v, m)) /\ Slice(v, m).pos = v.pos
           /\ Slice(v, m).plan = "none" => Slice(v, m).crash = v.crash
PROOF
  <1>1. v \in NpcRecord /\ v.plan = "none"
    BY DEF Free, NpcInv
  <1>2. CASE m.slice = "pending"
    <2>1. Slice(v, m) = [v EXCEPT !.requested = TRUE]
      BY <1>2 DEF Slice
    <2>2. Slice(v, m) \in NpcRecord /\ SameCar(v, Slice(v, m))
          /\ Slice(v, m).stopAt = v.stopAt
      BY ZenonT(60), <1>1, <2>1 DEF NpcRecord, SameCar
    <2> QED BY <2>2, SameCarInv DEF Free, SameCar
  <1>3. CASE m.slice = "none"
    <2>1. Slice(v, m) = [v EXCEPT !.searching = FALSE]
      BY <1>3 DEF Slice
    <2>2. Slice(v, m) \in NpcRecord /\ SameCar(v, Slice(v, m))
          /\ Slice(v, m).stopAt = v.stopAt
      BY ZenonT(60), <1>1, <2>1 DEF NpcRecord, SameCar
    <2> QED BY <2>2, SameCarInv DEF Free, SameCar
  <1>4. CASE m.slice = "plan"
    <2>1. Slice(v, m) = Adopted(v, "local_bypass")
      BY <1>4 DEF Slice
    <2> QED BY <2>1, AdoptedCar
  <1>5. m.slice \in {"pending", "none", "plan"}
    BY DEF Meets
  <1> QED BY <1>2, <1>3, <1>4, <1>5

LEMMA LocalBypassCar ==
    ASSUME WorkOK, NEW v, Free(v), NEW m \in Meets
    PROVE  /\ NpcInv(LocalBypass(v, m)) /\ LocalBypass(v, m).pos = v.pos
           /\ LocalBypass(v, m).plan = "none"
                => LocalBypass(v, m).crash = v.crash
PROOF
  <1> DEFINE going == v.searching /\ v.searchedAt = v.pos
             stopping == [v EXCEPT !.stopAt = v.pos, !.searching = going]
             begun == [ stopping EXCEPT !.searching = TRUE,
                          !.searchedAt = v.pos, !.observe = Decision ]
             w == LocalBypass(v, m)
  <1>1. v \in NpcRecord /\ v.plan = "none" /\ v.recovering = FALSE
    BY DEF Free, NpcInv, NpcRecord, RecoversToBeginning
  <1>2. going \in BOOLEAN
    BY <1>1 DEF NpcRecord
  <1> HIDE DEF going
  <1>3. stopping \in NpcRecord /\ SameCar(v, stopping)
    BY <1>1, <1>2 DEF NpcRecord, SameCar
  <1>4. Decision \in Nat
    BY NpcAssumption
  <1>5. begun \in NpcRecord /\ SameCar(v, begun)
    BY <1>1, <1>2, <1>4 DEF NpcRecord, SameCar
  <1>6. Free(stopping) /\ Free(begun)
    BY <1>1, <1>3, <1>5, SameCarInv DEF Free, SameCar
  <1>7. CASE m.offset
    <2>1. w = [v EXCEPT !.searching = FALSE]
      BY <1>7 DEF LocalBypass
    <2>2. w \in NpcRecord /\ SameCar(v, w)
      BY ZenonT(60), <1>1, <2>1 DEF NpcRecord, SameCar
    <2> QED BY <1>1, <2>2, SameCarInv DEF Free, SameCar
  <1>8. CASE ~m.offset /\ Moving(v)
    <2>1. w = [stopping EXCEPT !.requested = TRUE]
      BY <1>8 DEF LocalBypass, going
    <2> HIDE DEF stopping
    <2>2. w \in NpcRecord /\ SameCar(v, w)
      BY ZenonT(60), <1>3, <2>1 DEF NpcRecord, SameCar
    <2> QED BY <1>1, <2>2, SameCarInv DEF Free, SameCar
  <1>9. CASE ~m.offset /\ ~Moving(v) /\ ~going /\ ~Blocked(m)
    <2>1. w = stopping
      BY <1>9 DEF LocalBypass, going
    <2> QED BY <1>3, <1>6, <2>1 DEF Free, SameCar
  <1>10. CASE ~m.offset /\ ~Moving(v) /\ going
    <2>1. w = Slice(stopping, m)
      BY <1>10 DEF LocalBypass, going
    <2> QED BY ZenonT(60), <1>3, <1>6, <2>1, SliceCar DEF SameCar
  <1>11. CASE ~m.offset /\ ~Moving(v) /\ ~going /\ Blocked(m)
    <2>1. w = Slice(begun, m)
      BY <1>11 DEF LocalBypass, going
    <2> HIDE DEF begun
    <2> QED BY <1>5, <1>6, <2>1, SliceCar DEF SameCar
  <1> QED BY <1>7, <1>8, <1>9, <1>10, <1>11

\* What a car without a plan only thinks leaves it sound.
LEMMA FreeSame ==
    ASSUME NEW v, Free(v), NEW w \in NpcRecord, SameCar(v, w)
    PROVE  Free(w)
PROOF
  <1>1. v.recovering = FALSE /\ v.plan = "none"
    BY DEF Free, NpcInv, NpcRecord, RecoversToBeginning
  <1> QED BY <1>1, SameCarInv DEF Free, SameCar

\* The turn of a car in its search.
LEMMA SearchOnCar ==
    ASSUME WorkOK, NEW v, Free(v), NEW m \in Meets, KnowsCrash(v, m)
    PROVE  NpcInv(SearchOn(v, m)) /\ SearchOn(v, m).pos = v.pos
PROOF
  <1> DEFINE looks == v.observe = 0
             seen == IF looks THEN [v EXCEPT !.observe = Decision] ELSE v
             begun == [seen EXCEPT !.requested = FALSE]
             tried == LocalBypass(begun, m)
             given_up == [tried EXCEPT !.pause = Decision,
                                       !.searchPause = SearchPause]
             w == SearchOn(v, m)
  <1>1. v \in NpcRecord /\ Decision \in Nat /\ SearchPause \in Nat
    BY NpcAssumption DEF Free, NpcInv
  <1>2. seen \in NpcRecord /\ SameCar(v, seen)
    BY <1>1 DEF NpcRecord, SameCar
  <1>3. looks /\ ~Blocked(m) => w = Cleared(seen)
    BY DEF SearchOn
  <1>4. ~(looks /\ ~Blocked(m))
          => w = IF tried.plan # "none" \/ tried.searching THEN tried
                 ELSE IF Persistent(m) /\ m.distance # "far"
                   THEN EscapeReverse(given_up, m) ELSE given_up
    BY DEF SearchOn
  <1> HIDE DEF looks, seen, w
  <1>5. begun \in NpcRecord /\ SameCar(v, begun)
    BY <1>2 DEF NpcRecord, SameCar
  <1>6. Free(seen) /\ Free(begun)
    BY <1>2, <1>5, FreeSame
  <1> HIDE DEF begun
  <1>7. /\ NpcInv(tried) /\ tried.pos = v.pos
        /\ tried.plan = "none" => tried.crash = v.crash
    BY <1>5, <1>6, LocalBypassCar DEF SameCar
  <1> HIDE DEF tried
  <1>8. CASE looks /\ ~Blocked(m)
    BY <1>2, <1>3, <1>6, <1>8, ClearedCar DEF Free, NpcInv, SameCar, w
  <1>9. CASE ~(looks /\ ~Blocked(m)) /\ tried.plan # "none"
    BY <1>4, <1>7, <1>9 DEF w
  <1>10. CASE ~(looks /\ ~Blocked(m)) /\ tried.plan = "none"
    <2>1. Free(tried) /\ tried \in NpcRecord
      BY <1>7, <1>10 DEF Free, NpcInv
    <2>2. given_up \in NpcRecord /\ SameCar(tried, given_up)
      BY <1>1, <2>1 DEF NpcRecord, SameCar
    <2> HIDE DEF given_up
    <2>3. Free(given_up) /\ KnowsCrash(given_up, m) /\ given_up.pos = v.pos
      BY <1>7, <1>10, <2>1, <2>2, FreeSame DEF SameCar, KnowsCrash
    <2>4. /\ NpcInv(EscapeReverse(given_up, m))
          /\ EscapeReverse(given_up, m).pos = v.pos
      BY <2>3, EscapeReverseCar DEF Free
    <2> QED BY <1>4, <1>7, <1>10, <2>3, <2>4 DEF Free, w
  <1> QED BY <1>8, <1>9, <1>10

\* A car that waits to back has a way to back.
LEMMA WaitToBackCar ==
    ASSUME NEW v, Free(v), v.phase = "waiting", NEW m \in Meets
    PROVE  NpcInv(WaitToBack(v, m)) /\ WaitToBack(v, m).pos = v.pos
PROOF
  <1> DEFINE decided == [v EXCEPT !.pause = Decision]
             w == WaitToBack(v, m)
             backing == [decided EXCEPT !.phase = "backing"]
  <1>1. v \in NpcRecord /\ Decision \in Nat /\ v.plan = "none"
    BY NpcAssumption DEF Free, NpcInv
  <1>2. decided \in NpcRecord /\ SameCar(v, decided)
    BY <1>1 DEF NpcRecord, SameCar
  <1>3. w \in {v, Cleared(decided), backing, decided}
    BY DEF WaitToBack
  <1> HIDE DEF decided
  <1>4. Free(decided) /\ decided.pos = v.pos
    BY <1>2, FreeSame DEF SameCar
  <1>5. NpcInv(Cleared(decided)) /\ Cleared(decided).pos = v.pos
    BY <1>1, <1>2, <1>4, ClearedCar DEF Free
  <1>6. NpcInv(backing) /\ backing.pos = v.pos
    <2>1. /\ backing \in NpcRecord /\ backing.pos = v.pos
          /\ backing.plan = "none" /\ backing.remaining = v.remaining
          /\ backing.total = v.total /\ backing.backed = v.backed
          /\ backing.crash = v.crash /\ backing.recovering = v.recovering
      BY <1>1, <1>2 DEF NpcRecord, SameCar
    <2>2. v.remaining # 0
      BY <1>1 DEF Free, NpcInv, ReverseHasAWay
    <2> HIDE DEF backing
    <2> QED BY <1>1, <2>1, <2>2
            DEF Free, NpcInv, RoomIsLeft, RetreatBound, ReverseHasAWay,
                WithinPlan, RecoversToBeginning
  <1> HIDE DEF backing, w
  <1> QED BY <1>3, <1>4, <1>5, <1>6 DEF Free, w

LEMMA KeepBackingCar ==
    ASSUME NEW v, Free(v), NEW m \in Meets
    PROVE  NpcInv(KeepBacking(v, m)) /\ KeepBacking(v, m).pos = v.pos
PROOF
  <1> DEFINE decided == [v EXCEPT !.pause = Decision]
  <1>1. v \in NpcRecord /\ Decision \in Nat
    BY NpcAssumption DEF Free, NpcInv
  <1>2. decided \in NpcRecord /\ SameCar(v, decided)
    BY <1>1 DEF NpcRecord, SameCar
  <1>3. KeepBacking(v, m) \in {v, Cleared(decided), decided}
    BY DEF KeepBacking
  <1> HIDE DEF decided
  <1>4. Free(decided) /\ decided.pos = v.pos
    BY <1>2, FreeSame DEF SameCar
  <1>5. NpcInv(Cleared(decided)) /\ Cleared(decided).pos = v.pos
    BY <1>2, <1>4, ClearedCar DEF Free
  <1> QED BY <1>3, <1>4, <1>5 DEF Free

LEMMA ChooseDestinationCar ==
    ASSUME NEW v, Free(v), NEW m \in Meets
    PROVE  /\ NpcInv(ChooseDestination(v, m))
           /\ ChooseDestination(v, m).pos = v.pos
PROOF
  <1> DEFINE decided == [v EXCEPT !.pause = Decision]
  <1>1. v \in NpcRecord /\ Decision \in Nat
    BY NpcAssumption DEF Free, NpcInv
  <1>2. decided \in NpcRecord /\ SameCar(v, decided)
    BY <1>1 DEF NpcRecord, SameCar
  <1>3. ChooseDestination(v, m) \in {v, Cleared(decided), decided}
    BY DEF ChooseDestination
  <1> HIDE DEF decided
  <1>4. Free(decided) /\ decided.pos = v.pos
    BY <1>2, FreeSame DEF SameCar
  <1>5. NpcInv(Cleared(decided)) /\ Cleared(decided).pos = v.pos
    BY <1>2, <1>4, ClearedCar DEF Free
  <1> QED BY <1>3, <1>4, <1>5 DEF Free

\* The turn of a car that asked for a search.
LEMMA ProbingCar ==
    ASSUME NEW v, Free(v)
    PROVE  /\ NpcInv(Probing(v)) /\ Probing(v).pos = v.pos
           /\ NpcInv(OrElseProbing(v)) /\ OrElseProbing(v).pos = v.pos
PROOF
  <1>1. v \in NpcRecord
    BY DEF Free, NpcInv
  <1>2. [v EXCEPT !.stopAt = v.pos] \in NpcRecord
        /\ SameCar(v, [v EXCEPT !.stopAt = v.pos])
    BY <1>1 DEF NpcRecord, SameCar
  <1>3. Probing(v) \in {v, [v EXCEPT !.stopAt = v.pos]}
    BY DEF Probing
  <1>4. Free(Probing(v)) /\ Probing(v).pos = v.pos
    BY <1>2, <1>3, FreeSame DEF SameCar
  <1> QED BY <1>4 DEF OrElseProbing, Free

LEMMA SearchedCar ==
    ASSUME WorkOK, NEW v, Free(v), NEW m \in Meets, KnowsCrash(v, m)
    PROVE  NpcInv(Searched(v, m)) /\ Searched(v, m).pos = v.pos
PROOF
  <1> DEFINE early == /\ Persistent(m) /\ v.total = 0 /\ m.distance = "near"
             first == IF early THEN EscapeReverse(v, m) ELSE v
             second == LocalBypass(first, m)
             w == Searched(v, m)
  <1>1. w \in { OrElseProbing(EscapeReverse(v, m)), Adopted(v, "lane_change"),
                first, second }
        \/ /\ second.plan = "none"
           /\ w \in {OrElseProbing(EscapeReverse(second, m)), Probing(second)}
    BY DEF Searched
  <1>2. /\ Free(EscapeReverse(v, m)) /\ EscapeReverse(v, m).pos = v.pos
        /\ EscapeReverse(v, m).crash = v.crash
    BY EscapeReverseCar
  <1>3. /\ NpcInv(OrElseProbing(EscapeReverse(v, m)))
        /\ OrElseProbing(EscapeReverse(v, m)).pos = v.pos
    BY <1>2, ProbingCar
  <1>4. /\ NpcInv(Adopted(v, "lane_change"))
        /\ Adopted(v, "lane_change").pos = v.pos
    BY AdoptedCar
  <1>5. Free(first) /\ first.pos = v.pos /\ first.crash = v.crash
    BY <1>2
  <1> HIDE DEF first
  <1>6. /\ NpcInv(second) /\ second.pos = v.pos
        /\ second.plan = "none" => second.crash = v.crash
    BY <1>5, LocalBypassCar
  <1> HIDE DEF second, w
  <1>7. CASE w \in { OrElseProbing(EscapeReverse(v, m)),
                     Adopted(v, "lane_change"), first, second }
    BY <1>3, <1>4, <1>5, <1>6, <1>7 DEF Free, w
  <1>8. CASE /\ second.plan = "none"
             /\ w \in { OrElseProbing(EscapeReverse(second, m)),
                        Probing(second) }
    <2>1. Free(second) /\ KnowsCrash(second, m)
      BY <1>6, <1>8 DEF Free, KnowsCrash
    <2>2. /\ Free(EscapeReverse(second, m))
          /\ EscapeReverse(second, m).pos = v.pos
      BY <1>6, <2>1, EscapeReverseCar
    <2>3. /\ NpcInv(OrElseProbing(EscapeReverse(second, m)))
          /\ OrElseProbing(EscapeReverse(second, m)).pos = v.pos
      BY <2>2, ProbingCar
    <2>4. NpcInv(Probing(second)) /\ Probing(second).pos = v.pos
      BY <1>6, <2>1, ProbingCar
    <2> QED BY <1>8, <2>3, <2>4 DEF w
  <1> QED BY <1>1, <1>7, <1>8

\* A decision of a car on its way.
LEMMA OnItsWayCar ==
    ASSUME WorkOK, NEW v, Free(v), NEW m \in Meets, KnowsCrash(v, m),
           NEW turn \in BOOLEAN
    PROVE  NpcInv(OnItsWay(v, m, turn)) /\ OnItsWay(v, m, turn).pos = v.pos
PROOF
  <1> DEFINE waits == IF Blocked(m) THEN Smaller(v.waited + 1, Patience) ELSE 0
             decided == [v EXCEPT !.pause = Decision, !.waited = waits]
             place == IF m.distance \in {"near", "close"} THEN v.pos
                                                          ELSE v.pos + 1
             kept == [decided EXCEPT !.stopAt = place]
             seen == IF Blocked(m) THEN kept ELSE Cleared(decided)
             again == seen.requested \/ seen.searchPause = 0
             asks == [seen EXCEPT !.requested = again]
             begun == [ asks EXCEPT !.requested = FALSE,
                                    !.searchPause = SearchPause ]
             w == OnItsWay(v, m, turn)
  <1>1. /\ v \in NpcRecord /\ v.plan = "none"
        /\ Decision \in Nat /\ Patience \in Nat /\ SearchPause \in Nat
    BY NpcAssumption DEF Free, NpcInv
  <1>2. waits \in Nat /\ place \in Nat
    BY <1>1 DEF Smaller, NpcRecord
  <1>3. w \in { v, Cleared(decided), seen, Searched(begun, m), Probing(asks) }
    <2>1. decided = [ v EXCEPT !.pause = Decision, !.waited =
                        IF Blocked(m) THEN Smaller(@ + 1, Patience) ELSE 0 ]
      OBVIOUS
    <2>2. kept = [ decided EXCEPT !.stopAt =
                     IF m.distance \in {"near", "close"} THEN v.pos
                                                         ELSE v.pos + 1 ]
      OBVIOUS
    <2>3. asks = [seen EXCEPT !.requested = @ \/ seen.searchPause = 0]
      OBVIOUS
    <2> QED BY <2>1, <2>2, <2>3 DEF OnItsWay
  <1> HIDE DEF waits, place, w
  <1>4. decided \in NpcRecord /\ SameCar(v, decided)
    BY <1>1, <1>2 DEF NpcRecord, SameCar
  <1> HIDE DEF decided
  <1>5. kept \in NpcRecord /\ SameCar(v, kept)
    BY <1>2, <1>4 DEF NpcRecord, SameCar
  <1>6. /\ Free(decided) /\ decided.pos = v.pos
        /\ Free(kept) /\ kept.pos = v.pos /\ kept.crash = v.crash
    BY <1>4, <1>5, FreeSame DEF SameCar
  <1> HIDE DEF kept
  <1>7. Free(Cleared(decided)) /\ Cleared(decided).pos = v.pos
    BY <1>4, <1>6, ClearedCar DEF Free
  <1>8. Free(seen) /\ seen.pos = v.pos /\ KnowsCrash(seen, m)
    BY <1>6, <1>7 DEF KnowsCrash, Blocked
  <1> HIDE DEF seen
  <1>9. seen \in NpcRecord /\ again \in BOOLEAN
    BY <1>8 DEF Free, NpcInv
  <1> HIDE DEF again
  <1>10. asks \in NpcRecord /\ SameCar(seen, asks)
    BY <1>9 DEF NpcRecord, SameCar
  <1> HIDE DEF asks
  <1>11. begun \in NpcRecord /\ SameCar(asks, begun)
    BY <1>1, <1>10 DEF NpcRecord, SameCar
  <1> HIDE DEF begun
  <1>12. Free(asks) /\ Free(begun)
    BY <1>8, <1>10, <1>11, FreeSame
  <1>13. /\ asks.pos = v.pos /\ begun.pos = v.pos /\ KnowsCrash(begun, m)
    BY <1>8, <1>10, <1>11 DEF SameCar, KnowsCrash
  <1>14. /\ NpcInv(Searched(begun, m)) /\ Searched(begun, m).pos = v.pos
         /\ NpcInv(Probing(asks)) /\ Probing(asks).pos = v.pos
    BY <1>12, <1>13, SearchedCar, ProbingCar
  <1> QED BY <1>3, <1>7, <1>8, <1>14 DEF Free, w

-----------------------------------------------------------------------------
(* A car in a lane change or a bypass.                                     *)

\* What becomes of a plan: it goes on, or is dropped where it began.
PlanKept(v, w) ==
    \/ w.plan = v.plan /\ w.begin = v.begin
    \/ w.plan = "none" /\ v.pos = v.begin

LEMMA DroppedCar ==
    ASSUME NEW v, NpcInv(v)
    PROVE  /\ NpcInv(Dropped(v)) /\ Dropped(v).pos = v.pos
           /\ Dropped(v).plan = "none"
PROOF
  <1> DEFINE c == Cleared(v)
             w == Dropped(v)
  <1>1. /\ v \in NpcRecord /\ v.total \in Nat /\ v.remaining \in Nat
        /\ v.backed \in Nat /\ v.crash \in BOOLEAN
    BY DEF NpcInv, NpcRecord
  <1>2. /\ c \in NpcRecord /\ c.pos = v.pos /\ c.phase = "none"
        /\ c.remaining = 0 /\ c.recovering = FALSE
    BY ZenonT(60), <1>1 DEF Cleared, NpcRecord
  <1>3. w = [ c EXCEPT !.plan = "none", !.begin = 0, !.pause = 0,
                       !.searchPause = 0, !.requested = TRUE,
                       !.total = v.total, !.backed = v.backed,
                       !.crash = v.crash ]
    BY DEF Dropped
  <1> HIDE DEF c, w
  <1>4. w \in NpcRecord
    <2> DEFINE planless == [ c EXCEPT !.plan = "none", !.begin = 0,
                               !.pause = 0, !.searchPause = 0,
                               !.requested = TRUE ]
    <2>1. planless \in NpcRecord
      BY ZenonT(60), <1>2 DEF NpcRecord
    <2>2. w = [ planless EXCEPT !.total = v.total, !.backed = v.backed,
                                !.crash = v.crash ]
      BY <1>2, <1>3 DEF NpcRecord
    <2> HIDE DEF planless
    <2> QED BY <1>1, <2>1, <2>2 DEF NpcRecord
  <1>5. /\ w.pos = v.pos /\ w.plan = "none"
        /\ w.phase = "none" /\ w.remaining = 0 /\ w.recovering = FALSE
        /\ w.total = v.total /\ w.backed = v.backed /\ w.crash = v.crash
    BY <1>2, <1>3 DEF NpcRecord
  <1>6. RetreatBound(w) = RetreatBound(v) /\ RetreatBound(v) \in Nat
    BY <1>5, NpcAssumption DEF RetreatBound
  <1>7. NpcInv(w)
    BY <1>1, <1>4, <1>5, <1>6
       DEF NpcInv, RoomIsLeft, ReverseHasAWay, WithinPlan, RecoversToBeginning
  <1> QED BY <1>5, <1>7 DEF w

\* A car that recovers stands where it is, whatever it waits for.
LEMMA StandingCar ==
    ASSUME WorkOK, NEW v, NpcInv(v), v.recovering,
           NEW remaining \in Nat, remaining <= v.remaining,
           NEW w, w = [ v EXCEPT !.phase = "waiting", !.remaining = remaining,
                                 !.stopAt = v.pos ]
    PROVE  NpcInv(w) /\ w.pos = v.pos /\ PlanKept(v, w)
PROOF
  <1>1. /\ v \in NpcRecord /\ v.plan # "none" /\ v.recovering = TRUE
    BY DEF NpcInv, NpcRecord, RecoversToBeginning
  <1>2. /\ w \in NpcRecord
        /\ w.pos = v.pos /\ w.plan = v.plan /\ w.begin = v.begin
        /\ w.anchor = v.anchor /\ w.phase = "waiting"
        /\ w.remaining = remaining /\ w.total = v.total
        /\ w.backed = v.backed /\ w.crash = v.crash
        /\ w.recovering = TRUE /\ w.stopAt = v.pos
    BY <1>1 DEF NpcRecord
  <1>3. /\ RetreatBound(w) = RetreatBound(v) /\ RetreatBound(v) \in Nat
        /\ v.total \in Nat /\ v.remaining \in Nat /\ v.pos \in Nat
        /\ NoStop \notin Nat
    BY <1>1, <1>2, NpcAssumption DEF RetreatBound, NpcRecord, NoStop
  <1>4. RoomIsLeft(w)
    BY <1>2, <1>3 DEF NpcInv, RoomIsLeft
  <1>5. ReverseHasAWay(w) /\ WithinPlan(w) /\ RecoversToBeginning(w)
    BY <1>1, <1>2, <1>3
       DEF NpcInv, ReverseHasAWay, WithinPlan, RecoversToBeginning
  <1> QED BY <1>2, <1>4, <1>5 DEF NpcInv, PlanKept

LEMMA AwaitingCar ==
    ASSUME WorkOK, NEW v, NpcInv(v)
    PROVE  /\ NpcInv(Awaiting(v)) /\ Awaiting(v).pos = v.pos
           /\ PlanKept(v, Awaiting(v))
PROOF
  <1>1. v \in NpcRecord /\ v.remaining \in Nat
    BY DEF NpcInv, NpcRecord
  <1>2. CASE ~v.recovering
    BY <1>2 DEF Awaiting, PlanKept
  <1>3. CASE v.recovering
    <2>1. Awaiting(v) = [ v EXCEPT !.phase = "waiting", !.remaining = 0,
                                   !.stopAt = v.pos ]
      BY <1>3 DEF Awaiting
    <2>2. 0 \in Nat /\ 0 <= v.remaining
      BY <1>1
    <2> HIDE DEF Awaiting
    <2> QED BY <1>3, <2>1, <2>2, StandingCar
  <1> QED BY <1>2, <1>3

\* A car backs towards the beginning of its plan, and not beyond.
LEMMA BackingUpCar ==
    ASSUME WorkOK, NEW v, NpcInv(v), v.recovering, NEW m \in Meets,
           KnowsCrash(v, m),
           NEW distance, distance = v.pos - v.begin, distance # 0,
           distance + v.total <= RetreatLimit(m)
    PROVE  /\ NpcInv(BackingUp(v, distance, m))
           /\ BackingUp(v, distance, m).pos = v.pos
           /\ PlanKept(v, BackingUp(v, distance, m))
PROOF
  <1> DEFINE standing == [v EXCEPT !.stopAt = v.pos]
             w == BackingUp(v, distance, m)
  <1>1. /\ v \in NpcRecord /\ v.plan # "none" /\ v.recovering = TRUE
        /\ v.begin <= v.pos /\ v.pos < v.begin + work.plan
        /\ v.anchor = v.begin /\ v.backed = v.total
        /\ v.total + v.remaining <= RetreatBound(v)
        /\ v.pos \in Nat /\ v.begin \in Nat /\ v.total \in Nat
        /\ NoStop \notin Nat /\ distance \in Nat
    BY DEF NpcInv, NpcRecord, RecoversToBeginning, WithinPlan, RoomIsLeft,
           NoStop
  <1>2. standing \in NpcRecord
    BY <1>1 DEF NpcRecord
  <1>3. CASE v.phase = "backing"
    BY <1>3 DEF BackingUp, PlanKept
  <1>4. CASE v.phase # "backing" /\ Moving(v)
    <2>1. w = standing
      BY <1>4 DEF BackingUp
    <2>2. /\ SameCar(v, w) /\ w.stopAt = v.pos /\ w \in NpcRecord
      <3>1. SameCar(v, standing) /\ standing.stopAt = v.pos
        BY <1>1 DEF NpcRecord, SameCar
      <3> HIDE DEF standing, w
      <3> QED BY <1>2, <2>1, <3>1
    <2> HIDE DEF w
    <2>3. NpcInv(w)
      BY <1>1, <1>4, <2>2
         DEF NpcInv, SameCar, RoomIsLeft, RetreatBound, ReverseHasAWay,
             WithinPlan, RecoversToBeginning
    <2> QED BY <2>2, <2>3 DEF w, SameCar, PlanKept
  <1>5. CASE v.phase # "backing" /\ ~Moving(v) /\ ~m.rear
    <2>1. w = [standing EXCEPT !.phase = "waiting"]
      BY <1>5 DEF BackingUp
    <2>2. w = [ v EXCEPT !.phase = "waiting", !.remaining = v.remaining,
                         !.stopAt = v.pos ]
      BY ZenonT(60), <1>1, <2>1 DEF NpcRecord
    <2>3. v.remaining \in Nat /\ v.remaining <= v.remaining
      BY <1>1 DEF NpcRecord
    <2> HIDE DEF w
    <2>4. NpcInv(w) /\ w.pos = v.pos /\ PlanKept(v, w)
      BY <2>2, <2>3, StandingCar
    <2> QED BY <2>4 DEF w
  <1>6. CASE v.phase # "backing" /\ ~Moving(v) /\ m.rear
    <2> DEFINE remaining == Smaller(Increment, distance)
    <2>1. w = [standing EXCEPT !.remaining = remaining, !.phase = "backing"]
      BY <1>6 DEF BackingUp
    <2>2. remaining \in Nat /\ remaining # 0 /\ remaining <= distance
      BY <1>1, NpcAssumption DEF Smaller
    <2> HIDE DEF remaining, w
    <2>3. /\ w \in NpcRecord /\ w.pos = v.pos /\ w.plan = v.plan
          /\ w.begin = v.begin /\ w.anchor = v.anchor
          /\ w.phase = "backing" /\ w.remaining = remaining
          /\ w.total = v.total /\ w.backed = v.backed /\ w.crash = v.crash
          /\ w.recovering = TRUE /\ w.stopAt = v.pos
      BY <1>1, <2>1, <2>2 DEF NpcRecord
    <2>4. /\ RetreatLimit(m) \in Nat /\ RetreatLimit(m) <= RetreatBound(w)
          /\ RetreatBound(w) \in Nat
      <3>1. KnowsCrash(w, m)
        BY <2>3 DEF KnowsCrash
      <3> QED BY <2>3, <3>1, LimitIsBound
    <2>5. RoomIsLeft(w)
      BY <1>1, <2>2, <2>3, <2>4 DEF RoomIsLeft
    <2>6. ReverseHasAWay(w) /\ WithinPlan(w) /\ RecoversToBeginning(w)
      BY <1>1, <2>2, <2>3
         DEF ReverseHasAWay, WithinPlan, RecoversToBeginning
    <2> QED BY <2>3, <2>5, <2>6 DEF NpcInv, PlanKept, w
  <1> QED BY <1>3, <1>4, <1>5, <1>6

LEMMA RecoveringCar ==
    ASSUME WorkOK, NEW v, NpcInv(v), v.plan # "none", NEW m \in Meets,
           KnowsCrash(v, m)
    PROVE  /\ NpcInv(Recovering(v, m)) /\ Recovering(v, m).pos = v.pos
           /\ PlanKept(v, Recovering(v, m))
PROOF
  <1> DEFINE distance == v.pos - v.begin
             begun == IF v.recovering THEN v
                      ELSE [ v EXCEPT !.recovering = TRUE, !.anchor = v.begin,
                                      !.phase = "waiting", !.stopAt = v.pos ]
             w == Recovering(v, m)
  <1>1. /\ v \in NpcRecord /\ v.pos \in Nat /\ v.begin \in Nat
        /\ v.recovering \in BOOLEAN /\ NoStop \notin Nat
        /\ v.begin <= v.pos /\ v.pos < v.begin + work.plan
        /\ v.recovering => v.anchor = v.begin
    BY DEF NpcInv, NpcRecord, WithinPlan, RecoversToBeginning, NoStop
  <1>2. distance = v.pos - (IF v.recovering THEN v.anchor ELSE v.begin)
    BY <1>1
  <1>3. \/ w = Awaiting(v)
        \/ AtBeginning(distance) /\ w = Dropped(begun)
        \/ /\ ~AtBeginning(distance)
           /\ ~(distance + v.total > RetreatLimit(m))
           /\ w = BackingUp(begun, distance, m)
    BY <1>2 DEF Recovering
  <1>4. /\ NpcInv(begun) /\ begun.recovering = TRUE /\ begun.pos = v.pos
        /\ begun.plan = v.plan /\ begun.begin = v.begin
        /\ begun.total = v.total /\ begun.crash = v.crash
    <2>1. CASE v.recovering
      BY <1>1, <2>1
    <2>2. CASE ~v.recovering
      <3>1. /\ begun \in NpcRecord /\ begun.pos = v.pos
            /\ begun.plan = v.plan /\ begun.begin = v.begin
            /\ begun.anchor = v.begin /\ begun.phase = "waiting"
            /\ begun.remaining = v.remaining /\ begun.total = v.total
            /\ begun.backed = v.backed /\ begun.crash = v.crash
            /\ begun.recovering = TRUE /\ begun.stopAt = v.pos
        BY <1>1, <2>2 DEF NpcRecord
      <3> HIDE DEF begun
      <3>2. NpcInv(begun)
        BY <1>1, <3>1
           DEF NpcInv, RoomIsLeft, RetreatBound, ReverseHasAWay, WithinPlan,
               RecoversToBeginning
      <3> QED BY <3>1, <3>2
    <2> QED BY <2>1, <2>2
  <1> HIDE DEF begun, w
  <1>5. CASE w = Awaiting(v)
    BY <1>5, AwaitingCar DEF w
  <1>6. CASE AtBeginning(distance) /\ w = Dropped(begun)
    <2>1. v.pos = v.begin
      BY <1>1, <1>6 DEF AtBeginning
    <2> QED BY <1>4, <1>6, <2>1, DroppedCar DEF PlanKept, w
  <1>7. CASE /\ ~AtBeginning(distance)
             /\ ~(distance + v.total > RetreatLimit(m))
             /\ w = BackingUp(begun, distance, m)
    <2>1. /\ distance = begun.pos - begun.begin /\ distance # 0
          /\ KnowsCrash(begun, m) /\ begun.recovering
      BY <1>4, <1>7 DEF AtBeginning, KnowsCrash
    <2>2. distance + begun.total <= RetreatLimit(m)
      <3>1. v.total \in Nat /\ RetreatLimit(m) \in Nat
        BY <1>1, LimitIsBound DEF NpcRecord
      <3> QED BY <1>1, <1>4, <1>7, <3>1
    <2> HIDE DEF distance
    <2>3. /\ NpcInv(w) /\ w.pos = begun.pos /\ PlanKept(begun, w)
      BY <1>4, <1>7, <2>1, <2>2, BackingUpCar
    <2> QED BY <1>4, <2>3 DEF PlanKept, w
  <1> QED BY <1>3, <1>5, <1>6, <1>7

\* A plan goes on, or is dropped where it began.
LEMMA ManeuverCar ==
    ASSUME WorkOK, NEW v, NpcInv(v), v.plan # "none", NEW m \in Meets,
           KnowsCrash(v, m)
    PROVE  /\ NpcInv(Maneuver(v, m)) /\ Maneuver(v, m).pos = v.pos
           /\ PlanKept(v, Maneuver(v, m))
PROOF
  <1> DEFINE decided == [v EXCEPT !.pause = Decision]
             w == Maneuver(v, m)
  <1>1. /\ v \in NpcRecord /\ Decision \in Nat /\ v.obstructed \in Nat
    BY NpcAssumption DEF NpcInv, NpcRecord
  <1>2. /\ decided \in NpcRecord /\ SameCar(v, decided)
        /\ decided.stopAt = v.stopAt /\ decided.obstructed = v.obstructed
    BY <1>1 DEF NpcRecord, SameCar
  <1>3. \/ w \in { [v EXCEPT !.obstructed = 0], v, decided, Cleared(decided),
                   [decided EXCEPT !.obstructed = 0],
                   [decided EXCEPT !.obstructed = @ + 1] }
        \/ w = Recovering(decided, m)
    BY DEF Maneuver
  <1> HIDE DEF decided, w
  <1>4. ASSUME NEW u \in NpcRecord, SameCar(v, u), u.stopAt = v.stopAt
        PROVE  NpcInv(u) /\ u.pos = v.pos /\ PlanKept(v, u)
    <2>1. NpcInv(u)
      BY <1>4, SameCarInv
    <2> QED BY <1>4, <2>1 DEF SameCar, PlanKept
  <1>5. NpcInv(decided) /\ decided.pos = v.pos /\ PlanKept(v, decided)
    BY <1>2, <1>4
  <1>6. CASE w \in { [v EXCEPT !.obstructed = 0], v }
    <2>1. w \in NpcRecord /\ SameCar(v, w) /\ w.stopAt = v.stopAt
      BY <1>1, <1>6 DEF NpcRecord, SameCar
    <2> QED BY <1>4, <2>1 DEF w
  <1>7. CASE w \in { decided, [decided EXCEPT !.obstructed = 0],
                     [decided EXCEPT !.obstructed = @ + 1] }
    <2>1. w \in NpcRecord /\ SameCar(decided, w) /\ w.stopAt = decided.stopAt
      BY <1>1, <1>2, <1>7 DEF NpcRecord, SameCar
    <2>2. SameCar(v, w) /\ w.stopAt = v.stopAt
      BY <1>2, <2>1 DEF SameCar
    <2> QED BY <1>4, <2>1, <2>2 DEF w
  <1>8. CASE w = Cleared(decided)
    <2>1. WithinPlan(decided)
      BY <1>5 DEF NpcInv
    <2>2. /\ NpcInv(w) /\ w.pos = decided.pos /\ w.plan = decided.plan
          /\ w.begin = decided.begin
      BY <1>2, <1>8, <2>1, ClearedCar
    <2> QED BY <1>2, <2>2 DEF SameCar, PlanKept, w
  <1>9. CASE w = Recovering(decided, m)
    <2>1. decided.plan # "none" /\ KnowsCrash(decided, m)
      BY <1>2 DEF SameCar, KnowsCrash
    <2>2. NpcInv(w) /\ w.pos = decided.pos /\ PlanKept(decided, w)
      BY <1>5, <1>9, <2>1, RecoveringCar
    <2> QED BY <1>2, <2>2 DEF SameCar, PlanKept, w
  <1> QED BY <1>3, <1>6, <1>7, <1>8, <1>9

\* What a car decides in a tick, before it moves.
LEMMA NavigatedCar ==
    ASSUME WorkOK, NEW found, NpcInv(found), NEW m \in Meets,
           NEW turn \in BOOLEAN
    PROVE  /\ NpcInv(Navigated(found, m, turn))
           /\ Navigated(found, m, turn).pos = found.pos
           /\ found.plan # "none" => PlanKept(found, Navigated(found, m, turn))
PROOF
  <1> DEFINE later == [ found EXCEPT !.pause = IF turn THEN 0 ELSE LessOne(@),
                          !.searchPause = LessOne(@), !.observe = LessOne(@) ]
             v == IF m.ahead = "crash" THEN [later EXCEPT !.crash = TRUE]
                                       ELSE later
             w == Navigated(found, m, turn)
  <1>1. found \in NpcRecord
    BY DEF NpcInv
  <1>2. \A k \in Nat : LessOne(k) \in Nat
    BY DEF LessOne
  <1>3. /\ later \in NpcRecord /\ SameCar(found, later)
        /\ later.stopAt = found.stopAt
    BY <1>1, <1>2 DEF NpcRecord, SameCar
  <1>4. \/ v.plan # "none" /\ w = Maneuver(v, m)
        \/ /\ v.plan = "none"
           /\ \/ w \in { SearchOn(v, m), v, KeepBacking(v, m),
                         ChooseDestination(v, m), OnItsWay(v, m, turn) }
              \/ v.phase = "waiting" /\ w = WaitToBack(v, m)
    BY DEF Navigated
  <1> HIDE DEF later, w
  <1>5. NpcInv(later)
    BY <1>3, SameCarInv
  <1>6. /\ NpcInv(v) /\ KnowsCrash(v, m) /\ v.pos = found.pos
        /\ v.plan = found.plan /\ v.begin = found.begin
    <2>1. CASE m.ahead = "crash"
      <3>1. /\ v \in NpcRecord /\ v.crash = TRUE /\ v.stopAt = later.stopAt
            /\ v.pos = later.pos /\ v.plan = later.plan
            /\ v.begin = later.begin /\ v.phase = later.phase
            /\ v.remaining = later.remaining /\ v.total = later.total
            /\ v.backed = later.backed /\ v.anchor = later.anchor
            /\ v.recovering = later.recovering
        BY <1>3, <2>1 DEF NpcRecord
      <3> HIDE DEF v
      <3>2. /\ RetreatBound(later) <= RetreatBound(v)
            /\ RetreatBound(later) \in Nat /\ RetreatBound(v) \in Nat
            /\ later.total \in Nat /\ later.remaining \in Nat
        BY <1>3, <3>1, NpcAssumption DEF RetreatBound, NpcRecord
      <3>3. NpcInv(v)
        BY <1>5, <3>1, <3>2
           DEF NpcInv, RoomIsLeft, ReverseHasAWay, WithinPlan,
               RecoversToBeginning
      <3> QED BY <1>3, <3>1, <3>3 DEF SameCar, KnowsCrash
    <2>2. CASE m.ahead # "crash"
      BY <1>3, <1>5, <2>2 DEF SameCar, KnowsCrash
    <2> QED BY <2>1, <2>2
  <1> HIDE DEF v
  <1>7. CASE v.plan # "none" /\ w = Maneuver(v, m)
    <2>1. NpcInv(w) /\ w.pos = v.pos /\ PlanKept(v, w)
      BY <1>6, <1>7, ManeuverCar
    <2> QED BY <1>6, <2>1 DEF PlanKept, w
  <1>8. CASE v.plan = "none"
    <2>1. Free(v)
      BY <1>6, <1>8 DEF Free
    <2>2. v.phase = "waiting"
            => NpcInv(WaitToBack(v, m)) /\ WaitToBack(v, m).pos = v.pos
      BY <2>1, WaitToBackCar
    <2>3. NpcInv(SearchOn(v, m)) /\ SearchOn(v, m).pos = v.pos
      BY <1>6, <2>1, SearchOnCar
    <2>4. NpcInv(KeepBacking(v, m)) /\ KeepBacking(v, m).pos = v.pos
      BY <2>1, KeepBackingCar
    <2>5. /\ NpcInv(ChooseDestination(v, m))
          /\ ChooseDestination(v, m).pos = v.pos
      BY <2>1, ChooseDestinationCar
    <2>6. NpcInv(OnItsWay(v, m, turn)) /\ OnItsWay(v, m, turn).pos = v.pos
      BY <1>6, <2>1, OnItsWayCar
    <2> QED BY <1>4, <1>6, <1>8, <2>2, <2>3, <2>4, <2>5, <2>6 DEF w
  <1> QED BY <1>4, <1>7, <1>8

-----------------------------------------------------------------------------
(* A tick of one car.                                                      *)

\* A reverse takes from the room that is left for it, and no car backs past
\* the beginning of its plan.
LEMMA BackedCar ==
    ASSUME WorkOK, NEW v, NpcInv(v), v.phase = "backing", NEW m \in Meets
    PROVE  /\ NpcInv(Backed(v, m))
           /\ Backed(v, m).plan = v.plan /\ Backed(v, m).begin = v.begin
           /\ Backed(v, m).pos <= v.pos
           /\ Backed(v, m).crash = v.crash
           /\ Backed(v, m).recovering = v.recovering
           /\ Backed(v, m).anchor = v.anchor
PROOF
  <1> DEFINE back == [ v EXCEPT !.pos = @ - 1, !.halt = "blocked",
                         !.remaining = @ - 1, !.total = @ + 1,
                         !.stopAt = IF v.recovering THEN v.pos - 1 ELSE NoStop,
                         !.backed = @ + 1 ]
             ready == [back EXCEPT !.phase = "ready", !.pause = 0]
             waiting == [v EXCEPT !.phase = "waiting", !.pause = 0]
             w == Backed(v, m)
  <1>1. /\ v \in NpcRecord /\ v.pos \in Nat /\ v.begin \in Nat
        /\ v.remaining \in Nat /\ v.remaining # 0 /\ v.total \in Nat
        /\ v.backed = v.total /\ v.total + v.remaining <= RetreatBound(v)
        /\ v.recovering \in BOOLEAN /\ NoStop \notin Nat
        /\ RetreatBound(v) \in Nat
        /\ v.plan # "none" => v.recovering
    BY NpcAssumption
       DEF NpcInv, NpcRecord, RoomIsLeft, RetreatBound, ReverseHasAWay,
           WithinPlan, NoStop
  <1>2. w \in {v, waiting} \/ (v.pos > 0 /\ w \in {back, ready})
    BY DEF Backed
  <1>3. CASE w = v
    BY <1>1, <1>3
  <1>4. CASE w = waiting
    <2> HIDE DEF w
    <2>1. /\ w \in NpcRecord /\ w.phase = "waiting" /\ w.pos = v.pos
          /\ w.plan = v.plan /\ w.begin = v.begin /\ w.anchor = v.anchor
          /\ w.remaining = v.remaining /\ w.total = v.total
          /\ w.backed = v.backed /\ w.crash = v.crash
          /\ w.recovering = v.recovering /\ w.stopAt = v.stopAt
      BY <1>1, <1>4 DEF NpcRecord
    <2>2. NpcInv(w)
      BY <1>1, <2>1
         DEF NpcInv, RoomIsLeft, RetreatBound, ReverseHasAWay, WithinPlan,
             RecoversToBeginning
    <2> QED BY <1>1, <2>1, <2>2 DEF w
  <1>5. CASE v.pos > 0 /\ w \in {back, ready}
    <2>1. /\ v.pos - 1 \in Nat /\ v.remaining - 1 \in Nat
          /\ v.total + 1 \in Nat /\ v.backed + 1 \in Nat
          /\ (IF v.recovering THEN v.pos - 1 ELSE NoStop) \in Nat \cup {NoStop}
      BY <1>1, <1>5
    <2>2. /\ back \in NpcRecord /\ back.pos = v.pos - 1
          /\ back.plan = v.plan /\ back.begin = v.begin
          /\ back.anchor = v.anchor /\ back.remaining = v.remaining - 1
          /\ back.total = v.total + 1 /\ back.backed = v.total + 1
          /\ back.crash = v.crash /\ back.recovering = v.recovering
          /\ back.recovering => back.stopAt = v.pos - 1
          /\ back.phase = "backing"
      BY <1>1, <2>1 DEF NpcRecord
    <2>3. w = back => back.remaining # 0
      <3>1. w # back \/ back.remaining > 0
        <4> SUFFICES ASSUME w = back, ~(back.remaining > 0) PROVE FALSE
          OBVIOUS
        <4>1. back.phase = "backing" /\ v.pos # back.pos
              /\ waiting.pos = v.pos /\ ready.phase = "ready"
          BY <1>1, <2>2 DEF NpcRecord
        <4>2. w \in {v, waiting, ready}
          BY DEF Backed
        <4> HIDE DEF back, ready, waiting, w
        <4> QED BY <4>1, <4>2
      <3> QED BY <1>1, <3>1
    <2> HIDE DEF back, w
    <2>4. /\ w \in NpcRecord /\ w.pos = v.pos - 1
          /\ w.plan = v.plan /\ w.begin = v.begin
          /\ w.anchor = v.anchor /\ w.remaining = v.remaining - 1
          /\ w.total = v.total + 1 /\ w.backed = v.total + 1
          /\ w.crash = v.crash /\ w.recovering = v.recovering
          /\ w.recovering => w.stopAt = v.pos - 1
          /\ w.phase = "ready" \/ (w.phase = "backing" /\ w.remaining # 0)
      <3>1. CASE w = back
        BY <2>2, <2>3, <3>1
      <3>2. CASE w = ready
        <4>1. ready \in NpcRecord
          BY <2>2 DEF NpcRecord
        <4>2. /\ ready.pos = back.pos /\ ready.plan = back.plan
              /\ ready.begin = back.begin /\ ready.anchor = back.anchor
              /\ ready.remaining = back.remaining /\ ready.total = back.total
              /\ ready.backed = back.backed /\ ready.crash = back.crash
              /\ ready.recovering = back.recovering
              /\ ready.stopAt = back.stopAt /\ ready.phase = "ready"
          BY <2>2 DEF NpcRecord
        <4> HIDE DEF ready
        <4> QED BY <2>2, <3>2, <4>1, <4>2
      <3> QED BY <1>5, <3>1, <3>2
    <2>5. RoomIsLeft(w) /\ ReverseHasAWay(w)
      BY <1>1, <2>4 DEF RoomIsLeft, RetreatBound, ReverseHasAWay
    <2>6. v.recovering => /\ v.plan # "none" /\ v.anchor = v.begin
                          /\ v.remaining <= v.pos - v.begin
                          /\ v.pos < v.begin + work.plan
      BY DEF NpcInv, RecoversToBeginning, WithinPlan
    <2>7. WithinPlan(w) /\ RecoversToBeginning(w)
      BY <1>1, <2>1, <2>4, <2>6 DEF WithinPlan, RecoversToBeginning, WorkOK
    <2> QED BY <1>1, <2>4, <2>5, <2>7 DEF NpcInv, w
  <1> QED BY <1>2, <1>3, <1>4, <1>5

\* A step of the follower: a car that recovers stands, any other may go on.
StepOf(u, s) ==
    /\ s \in NpcRecord /\ s.stopAt = u.stopAt
    /\ \/ SameCar(u, s)
       \/ /\ ~u.recovering /\ s.pos = u.pos + 1
          /\ s.plan = u.plan /\ s.begin = u.begin /\ s.phase = u.phase
          /\ s.remaining = u.remaining /\ s.total = u.total
          /\ s.recovering = u.recovering /\ s.anchor = u.anchor
          /\ s.backed = u.backed /\ s.crash = u.crash

LEMMA SteppedCar ==
    ASSUME NEW u, NpcInv(u), NEW m \in Meets, NEW drive \in BOOLEAN
    PROVE  /\ StepOf(u, Stepped(u, m, drive))
           /\ ~drive => SameCar(u, Stepped(u, m, drive))
PROOF
  <1> DEFINE held == u.stopAt # NoStop /\ (u.plan = "none" \/ u.recovering)
                       /\ u.pos >= u.stopAt
             s == Stepped(u, m, drive)
  <1>1. /\ u \in NpcRecord /\ u.pos \in Nat
        /\ u.recovering => u.stopAt # NoStop /\ u.stopAt <= u.pos
    BY DEF NpcInv, NpcRecord, RecoversToBeginning
  <1>2. u.recovering => held
    BY <1>1 DEF NpcRecord, NoStop
  <1>3. \/ s \in { [u EXCEPT !.halt = "other"], [u EXCEPT !.halt = "blocked"] }
        \/ /\ drive /\ ~held
           /\ s = [u EXCEPT !.halt = "none", !.pos = @ + 1]
    BY DEF Stepped
  <1> HIDE DEF held
  <1>4. CASE s \in { [u EXCEPT !.halt = "other"],
                     [u EXCEPT !.halt = "blocked"] }
    BY <1>1, <1>4 DEF NpcRecord, StepOf, SameCar
  <1>5. CASE /\ drive /\ ~held
             /\ s = [u EXCEPT !.halt = "none", !.pos = @ + 1]
    <2>1. ~u.recovering
      BY <1>2, <1>5
    <2> HIDE DEF s
    <2>2. u.pos + 1 \in Nat
      BY <1>1
    <2>3. s \in NpcRecord
      BY <1>1, <1>5, <2>2 DEF NpcRecord
    <2>4. /\ s \in NpcRecord /\ s.stopAt = u.stopAt /\ s.pos = u.pos + 1
          /\ s.plan = u.plan /\ s.begin = u.begin /\ s.phase = u.phase
          /\ s.remaining = u.remaining /\ s.total = u.total
          /\ s.recovering = u.recovering /\ s.anchor = u.anchor
          /\ s.backed = u.backed /\ s.crash = u.crash
      BY <1>1, <1>5, <2>3 DEF NpcRecord
    <2> QED BY <1>5, <2>1, <2>4 DEF StepOf, s
  <1> QED BY <1>3, <1>4, <1>5

\* What a frozen step leaves of a car that went on.
LEMMA FrozenCar ==
    ASSUME NEW u, NpcInv(u), NEW s, StepOf(u, s),
           NEW before, before.pos = u.pos
    PROVE  /\ NpcInv(Frozen(before, s, FALSE))
           /\ Frozen(before, s, FALSE).plan = u.plan
PROOF
  <1> DEFINE w == [s EXCEPT !.pos = before.pos, !.halt = "other"]
  <1>1. Frozen(before, s, FALSE) = w
    BY DEF Frozen
  <1>2. s \in NpcRecord /\ u.pos \in Nat
    BY DEF StepOf, NpcInv, NpcRecord
  <1>3. w \in NpcRecord /\ SameCar(u, w) /\ w.stopAt = u.stopAt
    BY <1>2 DEF NpcRecord, SameCar, StepOf
  <1> HIDE DEF w
  <1> QED BY <1>1, <1>3, SameCarInv DEF SameCar

\* A plan ends where it leads to.
LEMMA CompletedCar ==
    ASSUME WorkOK, NEW u, NpcInv(u), NEW s, StepOf(u, s),
           NEW before, before.pos = u.pos, NEW m \in Meets
    PROVE  /\ NpcInv(Completed(before, s, m, FALSE))
           /\ \/ Completed(before, s, m, FALSE).plan = u.plan
              \/ Completed(before, s, m, FALSE).pos >= u.begin + work.plan
PROOF
  <1> DEFINE w == Completed(before, s, m, FALSE)
             frozen == Frozen(before, s, FALSE)
             pause == IF s.plan = "local_bypass" THEN SearchPause
                                                 ELSE ChangePause
             ended == [s EXCEPT !.plan = "none", !.begin = 0, !.pause = pause]
  <1>1. /\ u \in NpcRecord /\ s \in NpcRecord
        /\ u.pos \in Nat /\ u.begin \in Nat /\ u.recovering \in BOOLEAN
        /\ SearchPause \in Nat /\ ChangePause \in Nat
    BY NpcAssumption DEF StepOf, NpcInv, NpcRecord
  <1>2. \/ w = frozen
        \/ w = s /\ ~AtEnd(s)
        \/ w = ended /\ AtEnd(s)
    BY DEF Completed
  <1>3. NpcInv(frozen) /\ frozen.plan = u.plan
    BY FrozenCar
  <1> HIDE DEF frozen, w
  <1>4. CASE w = frozen
    BY <1>3, <1>4 DEF w
  <1>5. CASE w = s /\ ~AtEnd(s)
    <2>1. CASE SameCar(u, s)
      <3>1. NpcInv(s)
        BY <1>1, <2>1, SameCarInv DEF StepOf
      <3> QED BY <1>5, <2>1, <3>1 DEF SameCar, w
    <2>2. CASE ~SameCar(u, s)
      <3>1. /\ u.recovering = FALSE /\ s.pos = u.pos + 1
            /\ s.plan = u.plan /\ s.begin = u.begin /\ s.phase = u.phase
            /\ s.remaining = u.remaining /\ s.total = u.total
            /\ s.recovering = FALSE
            /\ s.backed = u.backed /\ s.crash = u.crash
        BY <1>1, <2>2 DEF StepOf
      <3>2. RoomIsLeft(s) /\ ReverseHasAWay(s) /\ RecoversToBeginning(s)
        BY <3>1 DEF NpcInv, RoomIsLeft, RetreatBound, ReverseHasAWay,
                    RecoversToBeginning
      <3>3. WithinPlan(s)
        BY <1>1, <1>5, <3>1 DEF NpcInv, WithinPlan, AtEnd, WorkOK
      <3> QED BY <1>1, <1>5, <3>1, <3>2, <3>3 DEF NpcInv, w
    <2> QED BY <2>1, <2>2
  <1>6. CASE w = ended /\ AtEnd(s)
    <2>1. s.plan = u.plan /\ s.begin = u.begin /\ u.plan # "none"
      BY <1>6 DEF StepOf, SameCar, AtEnd
    <2>2. s.pos >= u.begin + work.plan
      BY <1>6, <2>1 DEF AtEnd
    <2>3. u.pos < u.begin + work.plan
      BY <2>1 DEF NpcInv, WithinPlan
    <2>4. s.pos # u.pos
      BY <1>1, <2>2, <2>3 DEF WorkOK
    <2>5. /\ u.recovering = FALSE /\ s.phase = u.phase
          /\ s.remaining = u.remaining /\ s.total = u.total
          /\ s.recovering = FALSE
          /\ s.backed = u.backed /\ s.crash = u.crash
      BY <1>1, <2>4 DEF StepOf, SameCar
    <2>6. u.phase = "none"
      BY <2>1, <2>5 DEF NpcInv, WithinPlan
    <2>7. pause \in Nat
      BY <1>1
    <2> HIDE DEF pause
    <2>8. /\ w \in NpcRecord /\ w.pos = s.pos /\ w.plan = "none"
          /\ w.phase = "none" /\ w.remaining = u.remaining
          /\ w.total = u.total /\ w.recovering = FALSE
          /\ w.backed = u.backed /\ w.crash = u.crash
      BY <1>1, <1>6, <2>5, <2>6, <2>7 DEF NpcRecord
    <2>9. NpcInv(w)
      BY <2>8 DEF NpcInv, RoomIsLeft, RetreatBound, ReverseHasAWay,
                  WithinPlan, RecoversToBeginning
    <2> QED BY <2>2, <2>8, <2>9 DEF w
  <1> QED BY <1>2, <1>4, <1>5, <1>6

\* A reverse that is frozen is undone; no plan ends with one.
LEMMA ReversedCar ==
    ASSUME WorkOK, NEW v, NpcInv(v), v.phase = "backing", NEW m \in Meets
    PROVE  /\ NpcInv(Completed(v, Backed(v, m), m, TRUE))
           /\ Completed(v, Backed(v, m), m, TRUE).plan = v.plan
PROOF
  <1> DEFINE s == Backed(v, m)
             w == Completed(v, s, m, TRUE)
             still == [s EXCEPT !.pos = v.pos, !.halt = "other"]
             frozen == [ still EXCEPT !.remaining = v.remaining,
                           !.total = v.total, !.phase = "waiting",
                           !.stopAt = v.pos, !.backed = v.backed ]
  <1>1. /\ NpcInv(s) /\ s \in NpcRecord
        /\ s.plan = v.plan /\ s.begin = v.begin /\ s.crash = v.crash
        /\ s.recovering = v.recovering /\ s.anchor = v.anchor
    BY BackedCar DEF NpcInv
  <1>2. ~AtEnd(s)
    BY <1>1 DEF NpcInv, WithinPlan, AtEnd, NpcRecord, WorkOK
  <1>3. w = s \/ (s.plan # "none" /\ w = frozen)
    BY <1>2 DEF Completed, Frozen
  <1> HIDE DEF s, w
  <1>4. CASE w = s
    BY <1>1, <1>4 DEF w, s
  <1>5. CASE s.plan # "none" /\ w = frozen
    <2>1. /\ v \in NpcRecord /\ v.pos \in Nat /\ v.remaining \in Nat
          /\ v.total \in Nat /\ v.backed \in Nat /\ NoStop \notin Nat
      BY DEF NpcInv, NpcRecord, NoStop
    <2>2. /\ v.recovering = TRUE /\ v.anchor = v.begin /\ v.plan # "none"
          /\ v.begin <= v.pos /\ v.pos < v.begin + work.plan
      BY <1>1, <1>5, <2>1
         DEF NpcInv, NpcRecord, WithinPlan, RecoversToBeginning
    <2>3. still \in NpcRecord /\ still.pos = v.pos
          /\ still.plan = s.plan /\ still.begin = s.begin
          /\ still.crash = s.crash /\ still.recovering = s.recovering
          /\ still.anchor = s.anchor
      BY <1>1, <2>1 DEF NpcRecord
    <2> HIDE DEF still
    <2>4. w \in NpcRecord
      BY ZenonT(60), <1>5, <2>1, <2>3 DEF NpcRecord
    <2>5. /\ w.pos = v.pos /\ w.plan = v.plan /\ w.begin = v.begin
          /\ w.crash = v.crash /\ w.recovering = v.recovering
          /\ w.anchor = v.anchor /\ w.remaining = v.remaining
          /\ w.total = v.total /\ w.phase = "waiting"
          /\ w.stopAt = v.pos /\ w.backed = v.backed
      BY <1>1, <1>5, <2>1, <2>3 DEF NpcRecord
    <2>6. RoomIsLeft(w) /\ ReverseHasAWay(w)
      BY <1>1, <1>5, <2>5
         DEF NpcInv, RoomIsLeft, RetreatBound, ReverseHasAWay
    <2>7. WithinPlan(w) /\ RecoversToBeginning(w)
      BY <1>1, <1>5, <2>1, <2>2, <2>5
         DEF WithinPlan, RecoversToBeginning
    <2> QED BY <2>4, <2>5, <2>6, <2>7 DEF NpcInv, w, s
  <1> QED BY <1>3, <1>4, <1>5

LEMMA PreparedCar ==
    ASSUME WorkOK, NEW found, NpcInv(found), NEW m \in Meets,
           NEW enabled \in BOOLEAN, NEW turn \in BOOLEAN
    PROVE  /\ NpcInv(Prepared(found, m, enabled, turn))
           /\ found.plan # "none"
                /\ Prepared(found, m, enabled, turn).plan = "none"
                => \/ found.pos = found.begin
                   \/ Prepared(found, m, enabled, turn).pos
                        >= found.begin + work.plan
PROOF
  <1> DEFINE drives == IF m.hit = "as_is" THEN found.drives ELSE m.hit = "on"
             hit == [found EXCEPT !.drives = drives]
             drive == enabled /\ hit.drives
             v == IF drive THEN Navigated(hit, m, turn) ELSE hit
             backing == drive /\ v.phase = "backing"
             backed == IF backing THEN Backed(v, m) ELSE v
             reversed == backing /\ (m.shifting \/ backed.pos # v.pos)
             moved == IF reversed THEN backed ELSE Stepped(backed, m, drive)
             w == Prepared(found, m, enabled, turn)
  <1>1. \/ w = found
        \/ enabled /\ w = Completed(v, moved, m, reversed)
        \/ ~enabled /\ w = moved
    <2>1. hit = [ found EXCEPT !.drives =
                    IF m.hit = "as_is" THEN @ ELSE m.hit = "on" ]
      OBVIOUS
    <2> QED BY <2>1 DEF Prepared
  <1>2. found \in NpcRecord /\ drives \in BOOLEAN
    BY DEF NpcInv, NpcRecord
  <1> HIDE DEF drives, w
  <1>3. /\ hit \in NpcRecord /\ SameCar(found, hit)
        /\ hit.stopAt = found.stopAt
    BY <1>2 DEF NpcRecord, SameCar
  <1>4. NpcInv(hit) /\ drive \in BOOLEAN
    BY <1>3, SameCarInv
  <1> HIDE DEF hit, drive
  <1>5. /\ NpcInv(v) /\ v.pos = found.pos
        /\ found.plan # "none" => PlanKept(found, v)
    <2>1. CASE drive
      <3>1. /\ NpcInv(v) /\ v.pos = hit.pos
            /\ hit.plan # "none" => PlanKept(hit, v)
        BY <1>4, <2>1, NavigatedCar
      <3> QED BY <1>3, <3>1 DEF SameCar, PlanKept
    <2>2. CASE ~drive
      BY <1>3, <1>4, <2>2 DEF SameCar, PlanKept
    <2> QED BY <1>4, <2>1, <2>2
  <1>6. ~drive => SameCar(hit, v)
    BY DEF SameCar
  <1> HIDE DEF v
  <1>7. backing => /\ NpcInv(Backed(v, m)) /\ Backed(v, m).plan = v.plan
                   /\ Backed(v, m).begin = v.begin
    BY <1>5, BackedCar
  <1>8. /\ NpcInv(backed) /\ backed.plan = v.plan /\ backed.begin = v.begin
    BY <1>5, <1>7
  <1>9. CASE w = found
    <2>1. NpcInv(w) /\ ~(found.plan # "none" /\ w.plan = "none")
      BY <1>9
    <2> QED BY <2>1 DEF w
  <1>10. CASE enabled /\ w = Completed(v, moved, m, reversed)
    <2>1. NpcInv(w) /\ (w.plan = v.plan \/ w.pos >= v.begin + work.plan)
      <3>1. CASE reversed
        <4>1. backing /\ moved = Backed(v, m) /\ reversed = TRUE
          BY <3>1
        <4> HIDE DEF moved, reversed
        <4> QED BY <1>5, <1>10, <4>1, ReversedCar
      <3>2. CASE ~reversed
        <4>1. reversed = FALSE /\ moved = Stepped(backed, m, drive)
              /\ backed.pos = v.pos
          BY <3>2
        <4> HIDE DEF moved, reversed, backed
        <4>2. StepOf(backed, moved)
          BY <1>4, <1>8, <4>1, SteppedCar
        <4>3. /\ NpcInv(Completed(v, moved, m, FALSE))
              /\ \/ Completed(v, moved, m, FALSE).plan = backed.plan
                 \/ Completed(v, moved, m, FALSE).pos
                      >= backed.begin + work.plan
          BY <1>8, <4>1, <4>2, CompletedCar
        <4> QED BY <1>8, <1>10, <4>1, <4>3
      <3> QED BY <3>1, <3>2
    <2> QED BY <1>5, <2>1 DEF PlanKept, w
  <1>11. CASE ~enabled /\ w = moved
    <2>1. ~drive
      BY <1>11 DEF drive
    <2>2. w = Stepped(v, m, drive)
      BY <1>11, <2>1
    <2> HIDE DEF moved, reversed, backed, backing
    <2>3. w \in NpcRecord /\ w.stopAt = v.stopAt /\ SameCar(v, w)
      BY <1>4, <1>5, <2>1, <2>2, SteppedCar DEF StepOf
    <2>4. NpcInv(w)
      BY <1>5, <2>3, SameCarInv
    <2>5. found.plan # "none" => w.plan = found.plan
      BY <1>3, <1>6, <2>1, <2>3 DEF SameCar
    <2> QED BY <2>4, <2>5 DEF w
  <1> QED BY <1>1, <1>9, <1>10, <1>11

-----------------------------------------------------------------------------
(* The cars of a run.                                                      *)

\* The workload of a run is one of those it may have.
LEMMA WorkOfRun ==
    ASSUME work \in Workloads
    PROVE  /\ WorkOK
           /\ \A m \in work.meets \cup work.idle : m \in Meets
PROOF
  BY NpcAssumption DEF WorkOK

\* A new car is sound.
LEMMA NewCarInv == NpcInv(NewCar)
PROOF
  <1>1. NewCar \in NpcRecord
    BY NpcAssumption DEF NewCar, NpcRecord
  <1>2. RetreatBound(NewCar) >= 0
    BY NpcAssumption DEF RetreatBound
  <1> QED BY <1>1, <1>2
          DEF NewCar, NpcInv, RoomIsLeft, ReverseHasAWay, WithinPlan,
              RecoversToBeginning

\* What a tick does to the cars, whether the player drives or not.
LEMMA TickCars ==
    ASSUME NavigationInv, NEW enabled \in BOOLEAN,
           NEW m \in [Npcs -> Meets], Tick(enabled, m)
    PROVE  /\ NavigationInv'
           /\ \A n \in Npcs :
                npc[n].plan # "none" /\ npc'[n].plan = "none" =>
                  \/ npc[n].pos = npc[n].begin
                  \/ npc'[n].pos >= npc[n].begin + work.plan
PROOF
  <1> DEFINE turn == TurnIf(enabled)
  <1>1. /\ work' = work /\ work \in Workloads /\ Npcs' = Npcs
        /\ npc' = [ n \in Npcs |->
                      Prepared(npc[n], m[n], enabled, turn = n) ]
    BY DEF Tick, NavigationInv, Npcs
  <1>2. WorkOK
    BY <1>1, WorkOfRun
  <1> HIDE DEF turn
  <1>3. \A n \in Npcs :
          /\ NpcInv(npc'[n])
          /\ npc[n].plan # "none" /\ npc'[n].plan = "none" =>
               \/ npc[n].pos = npc[n].begin
               \/ npc'[n].pos >= npc[n].begin + work.plan
    <2> TAKE n \in Npcs
    <2>1. NpcInv(npc[n]) /\ m[n] \in Meets /\ (turn = n) \in BOOLEAN
      BY DEF NavigationInv
    <2>2. npc'[n] = Prepared(npc[n], m[n], enabled, turn = n)
      BY <1>1
    <2> DEFINE mine == turn = n
    <2>3. mine \in BOOLEAN /\ npc'[n] = Prepared(npc[n], m[n], enabled, mine)
      BY <2>1, <2>2
    <2> HIDE DEF mine
    <2> QED BY <1>2, <2>1, <2>3, PreparedCar
  <1>4. \A n \in Npcs : NpcInv(npc[n])'
    BY <1>1, <1>3 DEF NpcInv, RoomIsLeft, RetreatBound, ReverseHasAWay,
                      WithinPlan, RecoversToBeginning
  <1>5. NavigationInv'
    BY <1>1, <1>4 DEF NavigationInv
  <1> QED BY <1>3, <1>5

LEMMA NavigationInvInit == Init => NavigationInv
PROOF
  BY NewCarInv DEF Init, NavigationInv

LEMMA NavigationInvStep == NavigationInv /\ [Next]_vars => NavigationInv'
PROOF
  <1> SUFFICES ASSUME NavigationInv, [Next]_vars PROVE NavigationInv'
    OBVIOUS
  <1>1. CASE npc' = npc /\ work' = work
    BY <1>1 DEF NavigationInv, Npcs, NpcInv, RoomIsLeft, RetreatBound,
                ReverseHasAWay, WithinPlan, RecoversToBeginning
  <1>2. ASSUME NEW m \in [Npcs -> work.meets], Tick(TRUE, m)
        PROVE  NavigationInv'
    <2>1. m \in [Npcs -> Meets]
      BY WorkOfRun DEF NavigationInv
    <2> QED BY <1>2, <2>1, TickCars
  <1>3. ASSUME NEW m \in [Npcs -> work.idle], Tick(FALSE, m)
        PROVE  NavigationInv'
    <2>1. m \in [Npcs -> Meets]
      BY WorkOfRun DEF NavigationInv
    <2> QED BY <1>3, <2>1, TickCars
  <1>4. ASSUME NEW enabled \in BOOLEAN, UndoneTick(enabled)
        PROVE  NavigationInv'
    BY <1>1, <1>4 DEF UndoneTick
  <1>5. CASE Rebuild
    <2>1. /\ npc' = [n \in Npcs |-> NewCar] /\ work' = work
          /\ Npcs' = Npcs
      BY <1>5 DEF Rebuild, Npcs
    <2>2. \A n \in Npcs : npc'[n] = NewCar
      BY <2>1
    <2>3. \A n \in Npcs : NpcInv(npc[n])'
      BY <2>1, <2>2, NewCarInv
         DEF NpcInv, RoomIsLeft, RetreatBound, ReverseHasAWay, WithinPlan,
             RecoversToBeginning
    <2> QED BY <2>1, <2>3 DEF NavigationInv
  <1>6. CASE UNCHANGED vars
    BY <1>1, <1>6 DEF vars
  <1> QED BY <1>2, <1>3, <1>4, <1>5, <1>6 DEF Next

\* A car keeps the limit of its retreat.
LEMMA NavigationInvLimited == NavigationInv => RetreatIsLimited
PROOF
  <1> SUFFICES ASSUME NavigationInv, NEW n \in Npcs
               PROVE  npc[n].backed <= RetreatBound(npc[n])
    BY DEF RetreatIsLimited, RetreatBound
  <1>1. /\ npc[n].backed = npc[n].total
        /\ npc[n].total + npc[n].remaining <= RetreatBound(npc[n])
        /\ npc[n].total \in Nat /\ npc[n].remaining \in Nat
        /\ RetreatBound(npc[n]) \in Nat
    BY NpcAssumption
       DEF NavigationInv, NpcInv, NpcRecord, RoomIsLeft, RetreatBound
  <1> QED BY <1>1

\* A step of the cars ends a plan on a lane.
PlanEnds ==
    Rebuild \/ \A n \in Npcs :
      npc[n].plan # "none" /\ npc'[n].plan = "none" =>
        \/ npc[n].pos = npc[n].begin
        \/ npc'[n].pos >= npc[n].begin + work.plan

LEMMA NavigationStepPlans == NavigationInv /\ [Next]_vars => [PlanEnds]_vars
PROOF
  <1> SUFFICES ASSUME NavigationInv, Next PROVE PlanEnds
    OBVIOUS
  <1>1. ASSUME NEW m \in [Npcs -> work.meets], Tick(TRUE, m)
        PROVE  PlanEnds
    <2>1. m \in [Npcs -> Meets]
      BY WorkOfRun DEF NavigationInv
    <2> QED BY <1>1, <2>1, TickCars DEF PlanEnds
  <1>2. ASSUME NEW m \in [Npcs -> work.idle], Tick(FALSE, m)
        PROVE  PlanEnds
    <2>1. m \in [Npcs -> Meets]
      BY WorkOfRun DEF NavigationInv
    <2> QED BY <1>2, <2>1, TickCars DEF PlanEnds
  <1>3. ASSUME NEW enabled \in BOOLEAN, UndoneTick(enabled)
        PROVE  PlanEnds
    BY <1>3 DEF UndoneTick, PlanEnds
  <1> QED BY <1>1, <1>2, <1>3 DEF Next, PlanEnds

\* The inductive invariant of the cars' navigation: what a reverse may still
\* take, where a plan is, and how a car recovers from one.
THEOREM NavigationInvariant == Spec => []NavigationInv
PROOF
  BY NavigationInvInit, NavigationInvStep, PTL DEF Spec

\* However a car escapes from what blocks it, out of its lane or out of the
\* middle of a plan, with reverses that break off or are frozen, it never
\* backs further than the limit before it is free to go on.
THEOREM RetreatsAreLimited == Spec => []RetreatIsLimited
PROOF
  BY NavigationInvariant, NavigationInvLimited, PTL

\* A lane change or a bypass ends where it leads to, or where it began: no
\* car drops its plan beside its lane.
THEOREM PlansEnd == Spec => PlansEndOnALane
PROOF
  <1>1. Spec => [][PlanEnds]_vars
    BY NavigationInvariant, NavigationStepPlans, PTL DEF Spec
  <1> QED BY <1>1 DEF PlansEndOnALane, PlanEnds

-----------------------------------------------------------------------------
(* A car that is hit.                                                      *)

Blow == [sum : Nat, live : BOOLEAN]

PastRecord ==
    [ rest : Nat, since : Nat, hardest : Nat, rushed : BOOLEAN, hits : Nat,
      blows : Seq(Blow) ]

HitCar(c) == c \in CarRecord /\ c.window # <<>>

Stopped == {"Settling", "Holding", "Recovering"}

\* What a car has still to wait, and what it has waited for.
WaitsEnough(c, p) ==
    /\ c.phase \in Stopped => c.severity >= p.hardest
    /\ c.quiet <= p.since
    /\ c.phase = "Settling" => c.hold = Hold(c.severity)
    /\ c.phase = "Holding" => c.hold + p.rest >= Hold(c.severity)

RecoveryInv ==
    /\ trial \in Trials /\ HitCar(car)
    /\ past \in PastRecord /\ past.blows # <<>>
    /\ WaitsEnough(car, past)
    /\ ResumesOnlyAfterRest

\* The harder the blow, the longer the hold.
LEMMA HoldGrows ==
    ASSUME NEW s \in Nat, NEW t \in Nat
    PROVE  /\ Hold(s) \in Nat /\ Hold(s) # 0
           /\ s <= t => Hold(s) <= Hold(t)
           /\ Hold(s) <= Hold(Disabling)
PROOF
  <1>1. /\ HoldPerUnit \in Nat /\ MinimumHold \in Nat \ {0}
        /\ Disabling \in Nat
    BY RecoveryAssumption
  <1>2. ASSUME NEW h \in Nat, NEW j \in Nat, NEW k \in Nat, j <= k
        PROVE  h * j \in Nat /\ h * j <= h * k
    <2>1. PICK d \in Nat : k = j + d
      BY <1>2, k - j \in Nat, k = j + (k - j)
    <2>2. h * k = h * j + h * d /\ h * d \in Nat /\ h * j \in Nat
      BY <2>1
    <2> QED BY <2>2
  <1>3. /\ Lesser(s, Disabling) \in Nat /\ Lesser(t, Disabling) \in Nat
        /\ Lesser(Disabling, Disabling) = Disabling
        /\ Lesser(s, Disabling) <= Disabling
        /\ s <= t => Lesser(s, Disabling) <= Lesser(t, Disabling)
    BY <1>1 DEF Lesser
  <1>4. /\ HoldPerUnit * Lesser(s, Disabling) \in Nat
        /\ HoldPerUnit * Lesser(t, Disabling) \in Nat
        /\ HoldPerUnit * Disabling \in Nat
        /\ HoldPerUnit * Lesser(s, Disabling) <= HoldPerUnit * Disabling
        /\ s <= t => HoldPerUnit * Lesser(s, Disabling)
                       <= HoldPerUnit * Lesser(t, Disabling)
    BY <1>1, <1>2, <1>3
  <1> QED BY <1>1, <1>3, <1>4 DEF Hold

\* What is added to the last of a sequence.
LEMMA LastChanged ==
    ASSUME NEW S, NEW x \in Seq(S), x # <<>>, NEW e \in S
    PROVE  /\ [x EXCEPT ![Len(x)] = e] \in Seq(S)
           /\ [x EXCEPT ![Len(x)] = e] # <<>>
           /\ x[Len(x)] \in S
PROOF
  <1>1. Len(x) \in 1..Len(x) /\ Len(x) \in Nat
    BY EmptySeq
  <1>2. /\ [x EXCEPT ![Len(x)] = e] \in Seq(S)
        /\ Len([x EXCEPT ![Len(x)] = e]) = Len(x)
    BY <1>1, ExceptSeq
  <1> QED BY <1>1, <1>2, EmptySeq, ElementOfSeq

\* The window of a car slides on.
LEMMA SlidWindow ==
    ASSUME NEW window \in Seq(Nat), window # <<>>, NEW dt \in {0, 1}
    PROVE  /\ Slid(window, dt) \in Seq(Nat) /\ Slid(window, dt) # <<>>
           /\ RunOut(window, dt) \in Nat
PROOF
  <1> DEFINE longer == IF dt = 1 THEN Append(window, 0) ELSE window
  <1>1. Window \in Nat \ {0} /\ Len(window) \in Nat
    BY RecoveryAssumption, LenProperties
  <1>2. longer \in Seq(Nat) /\ longer # <<>>
    <2>1. Append(window, 0) \in Seq(Nat) /\ Append(window, 0) # <<>>
      BY AppendProperties
    <2> QED BY <2>1
  <1>3. Slid(window, dt) \in {longer, Tail(longer)}
        /\ (Slid(window, dt) = longer \/ Len(longer) > Window + 1)
    BY DEF Slid
  <1> HIDE DEF longer
  <1>4. Len(longer) > Window + 1 => Tail(longer) \in Seq(Nat)
                                    /\ Tail(longer) # <<>>
    <2> SUFFICES ASSUME Len(longer) > Window + 1
                 PROVE  Tail(longer) \in Seq(Nat) /\ Tail(longer) # <<>>
      OBVIOUS
    <2>1. Tail(longer) \in Seq(Nat) /\ Len(Tail(longer)) = Len(longer) - 1
      BY <1>2, HeadTailProperties
    <2>2. Len(longer) \in Nat
      BY <1>2, LenProperties
    <2>3. ASSUME NEW k \in Nat, NEW j, k > Window + 1, j = k - 1 PROVE j # 0
      BY <1>1, <2>3
    <2>4. Len(Tail(longer)) # 0
      BY <2>1, <2>2, <2>3
    <2> QED BY <2>1, <2>4, EmptySeq
  <1>5. RunOut(window, dt) \in Nat
    <2>1. Head(window) \in Nat
      BY HeadTailProperties
    <2> QED BY <2>1 DEF RunOut
  <1> QED BY <1>2, <1>3, <1>4, <1>5

\* A hit that the driver notices.
Felt(c, blow) == blow > 0 /\ c.sum >= Reaction

Unmoved(c, d) ==
    /\ d.slides = c.slides /\ d.tumbles = c.tumbles
    /\ d.displaced = c.displaced /\ d.grace = c.grace

\* What a car notes of a tick.
LEMMA ObservedCar ==
    ASSUME NEW c, HitCar(c), NEW dt \in {0, 1}, NEW blow \in Nat
    PROVE  LET o == Observed(c, dt, blow)
           IN  /\ HitCar(o) /\ Unmoved(c, o)
               /\ o.phase = c.phase /\ o.hold = c.hold
               /\ o.severity = c.severity
               /\ Felt(o, blow) => /\ o.quiet = 0 /\ o.episode = TRUE
                                   /\ o.peak >= o.sum
               /\ ~Felt(o, blow) => o.quiet = Lesser(Window, c.quiet + dt)
PROOF
  <1> DEFINE window   == Slid(c.window, dt)
             sum      == Greater(0, c.sum + blow - RunOut(c.window, dt))
             contact  == blow > 0 /\ sum >= Noise
             reactive == contact /\ sum >= Reaction
             opens    == IF c.phase = "Disabled" THEN reactive ELSE contact
             episode  == c.episode \/ opens
             peak     == IF episode THEN Greater(c.peak, sum) ELSE c.peak
             shown    == c.shown \/ (episode /\ peak >= Presentation)
             filled   == [window EXCEPT ![Len(window)] = @ + blow]
             quiet    == IF reactive THEN 0 ELSE Lesser(Window, c.quiet + dt)
             calm     == IF contact THEN 0 ELSE Lesser(Window, c.calm + dt)
             events   == IF shown /\ ~c.shown
                           THEN Lesser(MaxEvents, c.events + 1) ELSE c.events
             o        == [ c EXCEPT !.window = filled, !.sum = sum,
                             !.episode = episode, !.peak = peak,
                             !.quiet = quiet, !.calm = calm, !.shown = shown,
                             !.events = events ]
  <1>1. /\ Window \in Nat \ {0} /\ Noise \in Nat \ {0} /\ Reaction \in Nat
        /\ Noise <= Reaction /\ MaxEvents \in Nat
    BY RecoveryAssumption
  <1>2. /\ c \in CarRecord /\ c.window \in Seq(Nat) /\ c.window # <<>>
        /\ c.sum \in Nat /\ c.quiet \in 0..Window /\ c.calm \in 0..Window
        /\ c.episode \in BOOLEAN /\ c.shown \in BOOLEAN /\ c.peak \in Nat
        /\ c.events \in Nat
    BY DEF HitCar, CarRecord
  <1>3. /\ window \in Seq(Nat) /\ window # <<>>
        /\ RunOut(c.window, dt) \in Nat
    BY <1>2, SlidWindow
  <1>4. sum \in Nat
    BY <1>2, <1>3 DEF Greater
  <1>5. filled \in Seq(Nat) /\ filled # <<>>
    <2> HIDE DEF window
    <2>1. window[Len(window)] \in Nat
      BY <1>3, LastChanged
    <2>2. window[Len(window)] + blow \in Nat
      BY <2>1
    <2> QED BY <1>3, <2>2, LastChanged
  <1>6. Observed(c, dt, blow) = o
    BY DEF Observed
  <1> HIDE DEF window, sum, filled
  <1>7. /\ episode \in BOOLEAN /\ peak \in Nat /\ shown \in BOOLEAN
        /\ contact \in BOOLEAN /\ reactive \in BOOLEAN
        /\ episode = TRUE => peak >= sum
    BY <1>2, <1>4 DEF Greater
  <1>8. quiet \in 0..Window /\ calm \in 0..Window /\ events \in Nat
    <2>1. ASSUME NEW w \in Nat, NEW k \in Nat, NEW d \in {0, 1}
          PROVE  Lesser(w, k + d) \in 0..w
      BY DEF Lesser
    <2>2. /\ Lesser(Window, c.quiet + dt) \in 0..Window
          /\ Lesser(Window, c.calm + dt) \in 0..Window
      <3>1. Window \in Nat /\ c.quiet \in Nat /\ c.calm \in Nat
        BY <1>1, <1>2
      <3> QED BY <2>1, <3>1
    <2>3. Lesser(MaxEvents, c.events + 1) \in Nat
      <3>1. MaxEvents \in Nat /\ c.events \in Nat
        BY <1>1, <1>2
      <3> QED BY <3>1 DEF Lesser
    <2> QED BY <1>1, <1>2, <2>2, <2>3
  <1>9. reactive <=> (blow > 0 /\ sum >= Reaction)
    BY <1>1, <1>4
  <1>10. reactive => episode = TRUE
    OBVIOUS
  <1>11. /\ reactive => quiet = 0
         /\ ~reactive => quiet = Lesser(Window, c.quiet + dt)
    OBVIOUS
  <1> HIDE DEF reactive, contact, opens, episode, peak, shown, quiet, calm,
               events
  <1>12. o \in CarRecord
    BY <1>2, <1>4, <1>5, <1>7, <1>8 DEF CarRecord
  <1>13. /\ o.window = filled /\ o.sum = sum /\ o.episode = episode
         /\ o.peak = peak /\ o.quiet = quiet
         /\ o.phase = c.phase /\ o.hold = c.hold /\ o.severity = c.severity
         /\ o.grace = c.grace /\ o.slides = c.slides
         /\ o.tumbles = c.tumbles /\ o.displaced = c.displaced
    BY <1>2 DEF CarRecord
  <1> HIDE DEF o
  <1>14. Felt(o, blow) <=> reactive
    BY <1>9, <1>13 DEF Felt
  <1>15. HitCar(o) /\ Unmoved(c, o)
    BY <1>5, <1>12, <1>13 DEF HitCar, Unmoved
  <1> QED BY <1>6, <1>7, <1>10, <1>11, <1>13, <1>14, <1>15

\* What differs in the car only in what it is charged for and shows.
SameWait(c, d) ==
    /\ d.phase = c.phase /\ d.hold = c.hold /\ d.severity = c.severity
    /\ d.quiet = c.quiet /\ d.sum = c.sum

\* The damage of an episode.
LEMMA ChargedCar ==
    ASSUME NEW c, HitCar(c)
    PROVE  /\ HitCar(Charged(c)) /\ Unmoved(c, Charged(c))
           /\ SameWait(c, Charged(c))
           /\ Charged(c).peak = c.peak /\ Charged(c).episode = c.episode
PROOF
  <1> DEFINE charge == Charge(c.peak)
             damage == Lesser(c.damage + Greater(0, charge - c.charged), Full)
             d == [c EXCEPT !.damage = damage, !.charged = charge]
  <1>1. /\ c \in CarRecord /\ c.peak \in Nat /\ c.damage \in Nat
        /\ c.charged \in Nat /\ c.window # <<>>
    BY DEF HitCar, CarRecord
  <1>2. Onset \in Nat /\ Disabling \in Nat /\ Onset < Disabling
    BY RecoveryAssumption
  <1>3. Full \in Nat
    BY <1>2 DEF Full
  <1>4. charge \in Nat
    BY <1>1, <1>2, <1>3 DEF Charge, Lesser
  <1>5. Charged(c) = c \/ Charged(c) = d
    BY DEF Charged
  <1> HIDE DEF charge
  <1>6. damage \in Nat
    BY <1>1, <1>3, <1>4 DEF Lesser, Greater
  <1> HIDE DEF damage
  <1>7. d \in CarRecord
    BY <1>1, <1>4, <1>6 DEF CarRecord
  <1>8. /\ d.window = c.window /\ d.sum = c.sum /\ d.episode = c.episode
        /\ d.peak = c.peak /\ d.quiet = c.quiet
        /\ d.phase = c.phase /\ d.hold = c.hold /\ d.severity = c.severity
        /\ d.grace = c.grace /\ d.slides = c.slides
        /\ d.tumbles = c.tumbles /\ d.displaced = c.displaced
    BY <1>1 DEF CarRecord
  <1> QED BY <1>1, <1>5, <1>7, <1>8 DEF HitCar, Unmoved, SameWait

\* The end of an episode.
LEMMA ClosedCar ==
    ASSUME NEW c, HitCar(c), NEW blow
    PROVE  LET d == EpisodeClosed(c, blow)
           IN  HitCar(d) /\ Unmoved(c, d) /\ SameWait(c, d)
PROOF
  <1> DEFINE d == [ c EXCEPT !.episode = FALSE, !.shown = FALSE, !.peak = 0,
                             !.charged = 0 ]
  <1>1. c \in CarRecord /\ c.window # <<>>
    BY DEF HitCar
  <1>2. EpisodeClosed(c, blow) = c \/ EpisodeClosed(c, blow) = d
    BY DEF EpisodeClosed
  <1>3. d \in CarRecord
    BY <1>1 DEF CarRecord
  <1>4. /\ d.window = c.window /\ d.sum = c.sum /\ d.quiet = c.quiet
        /\ d.phase = c.phase /\ d.hold = c.hold /\ d.severity = c.severity
        /\ d.grace = c.grace /\ d.slides = c.slides
        /\ d.tumbles = c.tumbles /\ d.displaced = c.displaced
    BY <1>1 DEF CarRecord
  <1> QED BY <1>1, <1>2, <1>3, <1>4 DEF HitCar, Unmoved, SameWait

\* A hit that the driver notices stops the car.
LEMMA StoppedCar ==
    ASSUME NEW c, HitCar(c), c.phase # "Disabled"
    PROVE  LET d == AfterHit(c)
           IN  /\ HitCar(d) /\ Unmoved(c, d)
               /\ d.quiet = c.quiet /\ d.sum = c.sum
               /\ d.severity >= c.peak
               /\ c.phase # "Driving" => d.severity >= c.severity
               /\ d.phase = IF c.phase \in Motors THEN "Settling" ELSE c.phase
               /\ c.phase \in Motors => d.hold = Hold(d.severity)
               /\ c.phase = "Holding" =>
                    d.hold = c.hold + Hold(d.severity) - Hold(c.severity)
               /\ c.phase = "Settling" => d.hold = c.hold
PROOF
  <1> DEFINE severity == IF c.phase = "Driving" THEN c.peak
                                                ELSE Greater(c.severity, c.peak)
             phase == IF c.phase \in {"Driving", "Recovering"} THEN "Settling"
                                                               ELSE c.phase
             hold == IF c.phase \in {"Driving", "Recovering"}
                       THEN Hold(severity)
                     ELSE IF c.phase = "Holding"
                       THEN c.hold + Hold(severity) - Hold(c.severity)
                     ELSE c.hold
             d == [ c EXCEPT !.severity = severity, !.phase = phase,
                             !.hold = hold ]
  <1>1. /\ c \in CarRecord /\ c.window # <<>> /\ c.peak \in Nat
        /\ c.severity \in Nat /\ c.hold \in Nat /\ c.phase \in Phases
    BY DEF HitCar, CarRecord
  <1>2. /\ severity \in Nat /\ severity >= c.peak
        /\ c.phase # "Driving" => severity >= c.severity
    BY <1>1 DEF Greater
  <1>3. phase \in Phases
    BY <1>1 DEF Phases
  <1>4. AfterHit(c) = d
    BY <1>1 DEF AfterHit
  <1> HIDE DEF severity
  <1>5. /\ Hold(severity) \in Nat /\ Hold(c.severity) \in Nat
        /\ c.severity <= severity => Hold(c.severity) <= Hold(severity)
    BY <1>1, <1>2, HoldGrows
  <1>6. hold \in Nat
    BY <1>1, <1>2, <1>5
  <1>7. /\ c.phase \in Motors => hold = Hold(severity)
        /\ c.phase = "Holding" =>
             hold = c.hold + Hold(severity) - Hold(c.severity)
        /\ c.phase = "Settling" => hold = c.hold
        /\ phase = IF c.phase \in Motors THEN "Settling" ELSE c.phase
    BY DEF Motors
  <1> HIDE DEF hold, phase
  <1>8. d \in CarRecord
    BY <1>1, <1>2, <1>3, <1>6 DEF CarRecord
  <1>9. /\ d.window = c.window /\ d.sum = c.sum /\ d.quiet = c.quiet
        /\ d.phase = phase /\ d.hold = hold /\ d.severity = severity
        /\ d.grace = c.grace /\ d.slides = c.slides
        /\ d.tumbles = c.tumbles /\ d.displaced = c.displaced
    BY <1>1 DEF CarRecord
  <1> HIDE DEF d
  <1> QED BY <1>1, <1>2, <1>4, <1>7, <1>8, <1>9 DEF HitCar, Unmoved

\* Of a past that may let it drive again.
RestedEnough(p) == p.rest >= Hold(p.hardest) /\ p.since >= Window

\* The past q of a car c has what its hold asks for, after the past p.
MayProgress(c, p, q, dt, settled) ==
    /\ c.phase \in Stopped => c.severity >= q.hardest
    /\ c.quiet <= q.since
    /\ c.phase = "Holding" => c.hold + p.rest >= Hold(c.severity)
    /\ c.phase = "Holding" /\ settled =>
         q.rest >= Lesser(Hold(Disabling), p.rest + dt)

\* A car that holds counts the time it rests, and drives after the last of it.
LEMMA ProgressedCar ==
    ASSUME NEW c, HitCar(c), c.phase # "Disabled",
           NEW p \in PastRecord, NEW q \in PastRecord,
           NEW dt \in {0, 1}, NEW settled \in BOOLEAN
    PROVE  LET d == Progressed(c, dt, settled)
           IN  /\ HitCar(d) /\ Unmoved(c, d)
               /\ d.sum = c.sum /\ d.phase # "Disabled"
               /\ c.phase # "Driving" => d.phase # "Driving"
               /\ MayProgress(c, p, q, dt, settled) =>
                    /\ WaitsEnough(d, q)
                    /\ c.phase \notin Motors /\ d.phase \in Motors =>
                         RestedEnough(q)
PROOF
  <1> DEFINE d == Progressed(c, dt, settled)
  <1>1. /\ c \in CarRecord /\ c.window # <<>> /\ c.severity \in Nat
        /\ c.hold \in Nat /\ c.phase \in Phases /\ c.quiet \in 0..Window
        /\ Window \in Nat \ {0}
    BY RecoveryAssumption DEF HitCar, CarRecord
  <1>2. /\ p.rest \in Nat /\ q.rest \in Nat /\ q.since \in Nat
        /\ q.hardest \in Nat
    BY DEF PastRecord
  <1>3. /\ Hold(c.severity) \in Nat /\ Hold(c.severity) <= Hold(Disabling)
        /\ Hold(q.hardest) \in Nat /\ Hold(Disabling) \in Nat
        /\ q.hardest <= c.severity => Hold(q.hardest) <= Hold(c.severity)
    BY <1>1, <1>2, HoldGrows, RecoveryAssumption
  <1>4. CASE c.phase = "Settling"
    <2> DEFINE e == [ c EXCEPT !.hold = Hold(c.severity),
                               !.phase = IF settled THEN "Holding" ELSE @ ]
    <2>1. d = e
      BY <1>4 DEF Progressed
    <2>2. e \in CarRecord
      BY <1>1, <1>3 DEF CarRecord, Phases
    <2>3. /\ e.window = c.window /\ e.sum = c.sum /\ e.quiet = c.quiet
          /\ e.severity = c.severity /\ e.hold = Hold(c.severity)
          /\ e.grace = c.grace /\ e.slides = c.slides
          /\ e.tumbles = c.tumbles /\ e.displaced = c.displaced
          /\ e.phase = IF settled THEN "Holding" ELSE "Settling"
      BY <1>1, <1>4 DEF CarRecord
    <2> HIDE DEF d, e
    <2>4. MayProgress(c, p, q, dt, settled) => WaitsEnough(e, q)
      BY <1>1, <1>2, <1>3, <1>4, <2>3 DEF WaitsEnough, Stopped, MayProgress
    <2> QED BY <1>1, <1>4, <2>1, <2>2, <2>3, <2>4 DEF HitCar, Unmoved, d, Motors
  <1>5. CASE c.phase = "Holding" /\ settled
    <2> DEFINE hold == Greater(0, c.hold - dt)
               drives == hold = 0 /\ c.quiet >= Window
               e == [ c EXCEPT !.hold = hold,
                               !.phase = IF drives THEN "Recovering" ELSE @ ]
    <2>1. d = e
      BY <1>5 DEF Progressed
    <2>2. hold \in Nat /\ hold >= c.hold - dt
      BY <1>1 DEF Greater
    <2>3. MayProgress(c, p, q, dt, settled) => hold + q.rest >= Hold(c.severity)
      BY SMTT(30), <1>1, <1>2, <1>3, <1>5, <2>2 DEF Lesser, MayProgress
    <2>4. MayProgress(c, p, q, dt, settled) /\ drives =>
            q.rest >= Hold(c.severity) /\ q.since >= Window
      BY <1>1, <1>2, <1>3, <2>3 DEF MayProgress
    <2> HIDE DEF hold, drives
    <2>5. e \in CarRecord
      BY <1>1, <2>2 DEF CarRecord, Phases
    <2>6. /\ e.window = c.window /\ e.sum = c.sum /\ e.quiet = c.quiet
          /\ e.severity = c.severity /\ e.hold = hold
          /\ e.grace = c.grace /\ e.slides = c.slides
          /\ e.tumbles = c.tumbles /\ e.displaced = c.displaced
          /\ e.phase = IF drives THEN "Recovering" ELSE "Holding"
      BY <1>1, <1>5 DEF CarRecord
    <2> HIDE DEF d, e
    <2>7. MayProgress(c, p, q, dt, settled) => WaitsEnough(e, q)
      BY <1>1, <1>2, <1>3, <1>5, <2>3, <2>6
         DEF WaitsEnough, Stopped, MayProgress
    <2>8. MayProgress(c, p, q, dt, settled) /\ e.phase \in Motors =>
            RestedEnough(q)
      BY <1>1, <1>2, <1>3, <1>5, <2>4, <2>6
         DEF RestedEnough, Stopped, Motors, MayProgress
    <2> QED BY <1>1, <1>5, <2>1, <2>5, <2>6, <2>7, <2>8
            DEF HitCar, Unmoved, d
  <1>6. CASE c.phase \in {"Holding", "Recovering"} /\ ~settled
    <2> DEFINE e == [ c EXCEPT !.phase = "Settling", !.hold = Hold(c.severity) ]
    <2>1. d = e
      BY <1>6 DEF Progressed
    <2>2. e \in CarRecord
      BY <1>1, <1>3 DEF CarRecord, Phases
    <2>3. /\ e.window = c.window /\ e.sum = c.sum /\ e.quiet = c.quiet
          /\ e.severity = c.severity /\ e.hold = Hold(c.severity)
          /\ e.grace = c.grace /\ e.slides = c.slides
          /\ e.tumbles = c.tumbles /\ e.displaced = c.displaced
          /\ e.phase = "Settling"
      BY <1>1 DEF CarRecord
    <2> HIDE DEF d, e
    <2>4. MayProgress(c, p, q, dt, settled) => WaitsEnough(e, q)
      BY <1>1, <1>2, <1>3, <1>6, <2>3 DEF WaitsEnough, Stopped, MayProgress
    <2> QED BY <1>1, <1>6, <2>1, <2>2, <2>3, <2>4 DEF HitCar, Unmoved, d, Motors
  <1>7. CASE \/ c.phase = "Driving"
             \/ c.phase = "Recovering" /\ settled
    <2>1. d = c
      BY <1>7 DEF Progressed
    <2>2. MayProgress(c, p, q, dt, settled) => WaitsEnough(c, q)
      BY <1>7 DEF WaitsEnough, Stopped, MayProgress
    <2> QED BY <1>7, <2>1, <2>2 DEF Unmoved, Motors
  <1> QED BY <1>1, <1>4, <1>5, <1>6, <1>7 DEF Phases

\* The past q follows the past p, of a car c that a tick makes t.
Follows(p, q, c, t, dt, blow, settled) ==
    /\ q.since >= IF Felt(t, blow) THEN 0 ELSE Lesser(Window, p.since + dt)
    /\ c.phase # "Driving" /\ ~Felt(t, blow) => q.hardest <= p.hardest
    /\ c.phase # "Driving" /\ Felt(t, blow) =>
         q.hardest <= Greater(p.hardest, t.sum)
    /\ c.phase = "Driving" /\ Felt(t, blow) => q.hardest <= t.sum
    /\ c.phase = "Holding" /\ settled =>
         q.rest >= Lesser(Hold(Disabling), p.rest + dt)

\* What a step of a car c to d may not do, whose past is then q.
KeepsWaiting(c, d, q) ==
    /\ HitCar(d) /\ WaitsEnough(d, q)
    /\ c.phase = "Disabled" => d.phase = "Disabled"
    /\ c.phase # "Driving" => d.phase # "Driving"
    /\ c.phase \notin Motors /\ d.phase \in Motors => RestedEnough(q)

\* tick() of impact_recovery.cpp lets nobody drive too early.
LEMMA TickedCar ==
    ASSUME NEW c, HitCar(c), NEW p \in PastRecord, NEW q \in PastRecord,
           NEW dt \in {0, 1}, NEW blow \in Nat, NEW settled \in BOOLEAN,
           NEW t, t = Ticked(c, dt, blow, settled)
    PROVE  /\ HitCar(t) /\ Unmoved(c, t)
           /\ WaitsEnough(c, p) /\ Follows(p, q, c, t, dt, blow, settled) =>
                KeepsWaiting(c, t, q)
PROOF
  <1> DEFINE o == Observed(c, dt, blow)
             Waited == /\ WaitsEnough(c, p)
                       /\ Follows(p, q, c, t, dt, blow, settled)
  <1>1. /\ c.quiet \in 0..Window /\ c.phase \in Phases /\ Window \in Nat \ {0}
        /\ c.severity \in Nat /\ c.hold \in Nat
    BY RecoveryAssumption DEF HitCar, CarRecord
  <1>2. /\ p.rest \in Nat /\ p.since \in Nat /\ p.hardest \in Nat
        /\ q.rest \in Nat /\ q.since \in Nat /\ q.hardest \in Nat
    BY DEF PastRecord
  <1>3. /\ HitCar(o) /\ Unmoved(c, o)
        /\ o.phase = c.phase /\ o.hold = c.hold
        /\ o.severity = c.severity
        /\ Felt(o, blow) => /\ o.quiet = 0 /\ o.episode = TRUE
                            /\ o.peak >= o.sum
        /\ ~Felt(o, blow) => o.quiet = Lesser(Window, c.quiet + dt)
    BY ObservedCar
  <1> HIDE DEF o
  <1>4. /\ o.quiet \in Nat /\ o.sum \in Nat /\ o.peak \in Nat
        /\ o.severity \in Nat /\ o.hold \in Nat
    BY <1>3 DEF HitCar, CarRecord
  <1>5. Waited /\ Felt(t, blow) = Felt(o, blow) => o.quiet <= q.since
    <2> SUFFICES ASSUME Waited PROVE Felt(t, blow) = Felt(o, blow) =>
                                       o.quiet <= q.since
      OBVIOUS
    <2>1. c.quiet <= p.since
      BY DEF WaitsEnough
    <2>2. Lesser(Window, c.quiet + dt) <= Lesser(Window, p.since + dt)
      BY <1>1, <1>2, <2>1 DEF Lesser
    <2>3. Felt(t, blow) => q.since >= 0
      BY <1>2
    <2>4. ~Felt(t, blow) => q.since >= Lesser(Window, p.since + dt)
      BY DEF Follows
    <2>5. /\ Lesser(Window, c.quiet + dt) \in Nat
          /\ Lesser(Window, p.since + dt) \in Nat
      BY <1>1, <1>2 DEF Lesser
    <2> QED BY <1>2, <1>3, <2>2, <2>3, <2>4, <2>5
  <1>6. CASE c.phase = "Disabled"
    <2>1. t = EpisodeClosed(o, blow)
      BY <1>6 DEF Ticked, o
    <2>2. HitCar(t) /\ Unmoved(o, t) /\ SameWait(o, t)
      BY <1>3, <2>1, ClosedCar
    <2>3. t.phase = "Disabled" /\ t.quiet = o.quiet /\ t.sum = o.sum
      BY <1>3, <1>6, <2>2 DEF SameWait
    <2>4. Felt(t, blow) = Felt(o, blow)
      BY <2>3 DEF Felt
    <2>5. Waited => WaitsEnough(t, q)
      BY <1>5, <2>3, <2>4 DEF WaitsEnough, Stopped
    <2>6. Unmoved(c, t)
      BY <1>3, <2>2 DEF Unmoved
    <2> QED BY <2>2, <2>3, <2>5, <2>6 DEF KeepsWaiting, Motors
  <1>7. CASE c.phase # "Disabled"
    <2> DEFINE d == Charged(o)
    <2>1. /\ HitCar(d) /\ Unmoved(o, d) /\ SameWait(o, d)
          /\ d.peak = o.peak /\ d.episode = o.episode
      BY <1>3, ChargedCar
    <2>2. t = Decided(d, dt, blow, settled)
      BY <1>7 DEF Ticked, o
    <2> HIDE DEF d
    <2>3. /\ d.phase = c.phase /\ d.hold = c.hold /\ d.severity = c.severity
          /\ d.quiet = o.quiet /\ d.sum = o.sum /\ Unmoved(c, d)
          /\ Felt(d, blow) = Felt(o, blow)
      BY <1>3, <2>1 DEF SameWait, Unmoved, Felt
    <2>4. CASE d.episode /\ d.peak >= Disabling
      <3> DEFINE severity == Greater(d.severity, d.peak)
      <3>1. t = [ d EXCEPT !.phase = "Disabled", !.hold = 0,
                           !.severity = severity ]
        BY <2>2, <2>4 DEF Decided
      <3>2. severity \in Nat
        BY <1>1, <1>4, <2>1, <2>3 DEF Greater
      <3> HIDE DEF severity
      <3>3. d \in CarRecord /\ d.window # <<>>
        BY <2>1 DEF HitCar
      <3>4. t \in CarRecord
        <4>1. ASSUME NEW f \in Phases, NEW v \in Nat, d \in CarRecord
              PROVE  [ d EXCEPT !.phase = f, !.hold = 0,
                                !.severity = v ] \in CarRecord
          BY <4>1 DEF CarRecord
        <4>2. "Disabled" \in Phases
          BY DEF Phases
        <4> QED BY <3>1, <3>2, <3>3, <4>1, <4>2
      <3>5. /\ t.window = d.window /\ t.sum = d.sum /\ t.quiet = d.quiet
            /\ t.phase = "Disabled" /\ t.grace = d.grace /\ t.slides = d.slides
            /\ t.tumbles = d.tumbles /\ t.displaced = d.displaced
        BY <3>1, <3>3 DEF CarRecord
      <3>6. Felt(t, blow) = Felt(o, blow)
        BY <2>3, <3>5 DEF Felt
      <3>7. Waited => WaitsEnough(t, q)
        BY <1>5, <2>3, <3>5, <3>6 DEF WaitsEnough, Stopped
      <3>8. HitCar(t) /\ Unmoved(c, t)
        BY <2>3, <3>3, <3>4, <3>5 DEF HitCar, Unmoved
      <3> QED BY <3>5, <3>7, <3>8 DEF KeepsWaiting, Motors
    <2>5. CASE ~(d.episode /\ d.peak >= Disabling)
      <3> DEFINE b == IF Felt(d, blow) THEN AfterHit(d) ELSE d
                 e == Progressed(b, dt, settled)
      <3>1. t = EpisodeClosed(e, blow)
        BY <2>2, <2>5 DEF Decided, Felt
      <3>2. /\ HitCar(b) /\ Unmoved(c, b) /\ b.quiet = o.quiet
            /\ b.sum = o.sum /\ b.phase # "Disabled"
            /\ Felt(d, blow) => /\ b.severity >= o.peak
                                /\ c.phase # "Driving" =>
                                     b.severity >= c.severity
                                /\ b.phase = IF c.phase \in Motors
                                               THEN "Settling" ELSE c.phase
                                /\ c.phase = "Holding" =>
                                     b.hold = c.hold + Hold(b.severity)
                                                - Hold(c.severity)
            /\ ~Felt(d, blow) => b = d
        <4>1. CASE Felt(d, blow)
          <5>1. b = AfterHit(d)
            BY <4>1
          <5> HIDE DEF b
          <5>2. d.phase # "Disabled"
            BY <1>7, <2>3
          <5>3. /\ HitCar(b) /\ Unmoved(d, b)
                /\ b.quiet = d.quiet /\ b.sum = d.sum
                /\ b.severity >= d.peak
                /\ d.phase # "Driving" => b.severity >= d.severity
                /\ b.phase = IF d.phase \in Motors THEN "Settling" ELSE d.phase
                /\ d.phase = "Holding" =>
                     b.hold = d.hold + Hold(b.severity) - Hold(d.severity)
            BY <2>1, <5>1, <5>2, StoppedCar
          <5>4. Unmoved(c, b)
            BY <2>3, <5>3 DEF Unmoved
          <5>5. b.phase # "Disabled"
            BY <5>2, <5>3
          <5> QED BY <2>1, <2>3, <4>1, <5>3, <5>4, <5>5
        <4>2. CASE ~Felt(d, blow)
          BY <1>7, <2>1, <2>3, <4>2
        <4> QED BY <4>1, <4>2
      <3> HIDE DEF b
      <3>3. b.severity \in Nat /\ b.quiet \in Nat /\ b.hold \in Nat
        <4>1. HitCar(b)
          BY <3>2
        <4> QED BY <4>1 DEF HitCar, CarRecord
      <3>4. /\ HitCar(e) /\ Unmoved(b, e) /\ e.sum = b.sum
            /\ e.phase # "Disabled"
            /\ b.phase # "Driving" => e.phase # "Driving"
            /\ MayProgress(b, p, q, dt, settled) =>
                 /\ WaitsEnough(e, q)
                 /\ b.phase \notin Motors /\ e.phase \in Motors =>
                      RestedEnough(q)
        BY <3>2, ProgressedCar
      <3> HIDE DEF e
      <3>5. HitCar(t) /\ Unmoved(e, t) /\ SameWait(e, t)
        BY <3>1, <3>4, ClosedCar
      <3>6. t.sum = o.sum /\ Felt(t, blow) = Felt(o, blow)
        BY <3>2, <3>4, <3>5 DEF SameWait, Felt
      <3>7. Waited => MayProgress(b, p, q, dt, settled)
        <4> SUFFICES ASSUME Waited PROVE MayProgress(b, p, q, dt, settled)
          OBVIOUS
        <4>1. b.phase \in Stopped => b.severity >= q.hardest
          <5>1. c.phase \in Stopped => c.severity >= p.hardest
            BY DEF WaitsEnough
          <5>2. CASE Felt(d, blow)
            <6>1. Felt(t, blow)
              BY <2>3, <3>6, <5>2
            <6>2. b.severity >= o.sum
              BY <1>3, <1>4, <2>3, <3>2, <3>3, <5>2
            <6>3. c.phase # "Driving" => c.phase \in Stopped
              BY <1>1, <1>7 DEF Phases, Stopped
            <6>4. c.phase # "Driving" => b.severity >= c.severity
              BY <3>2, <5>2
            <6> QED BY <1>1, <1>2, <1>4, <3>3, <3>6, <5>1, <6>1, <6>2, <6>3,
                       <6>4 DEF Follows, Greater
          <5>3. CASE ~Felt(d, blow)
            <6>1. ~Felt(t, blow) /\ b = d
              BY <2>3, <3>2, <3>6, <5>3
            <6> QED BY <1>1, <1>2, <2>3, <5>1, <6>1 DEF Follows, Stopped
          <5> QED BY <5>2, <5>3
        <4>2. b.quiet <= q.since
          BY <1>5, <3>2, <3>6
        <4>3. b.phase = "Holding" => /\ c.phase = "Holding"
                                     /\ b.hold + p.rest >= Hold(b.severity)
          <5>1. c.phase = "Holding" => c.hold + p.rest >= Hold(c.severity)
            BY DEF WaitsEnough
          <5>2. b.phase = "Holding" => c.phase = "Holding"
            BY <2>3, <3>2 DEF Motors
          <5>3. Hold(b.severity) \in Nat /\ Hold(c.severity) \in Nat
            BY <1>1, <3>3, HoldGrows
          <5> QED BY <1>1, <1>2, <2>3, <3>2, <5>1, <5>2, <5>3
        <4> QED BY <4>1, <4>2, <4>3 DEF MayProgress, Follows
      <3>8. Waited => WaitsEnough(t, q)
        <4>1. Waited => WaitsEnough(e, q)
          BY <3>4, <3>7
        <4> QED BY <3>5, <4>1 DEF WaitsEnough, SameWait
      <3>9. Unmoved(c, t)
        BY <3>2, <3>4, <3>5 DEF Unmoved
      <3>10. c.phase # "Driving" => t.phase # "Driving"
        <4>1. c.phase # "Driving" => b.phase # "Driving"
          BY <2>3, <3>2
        <4> QED BY <3>4, <3>5, <4>1 DEF SameWait
      <3>11. Waited /\ c.phase \notin Motors /\ t.phase \in Motors =>
               RestedEnough(q)
        <4>1. c.phase \notin Motors => b.phase \notin Motors
          BY <2>3, <3>2
        <4> QED BY <3>4, <3>5, <3>7, <4>1 DEF SameWait
      <3> QED BY <1>7, <3>5, <3>8, <3>9, <3>10, <3>11 DEF KeepsWaiting
    <2> QED BY <2>4, <2>5
  <1> QED BY <1>6, <1>7

\* Of the driving of a car nothing changes.
SameDrive(c, d) ==
    /\ d.phase = c.phase /\ d.hold = c.hold
    /\ d.severity = c.severity /\ d.quiet = c.quiet /\ d.sum = c.sum

\* update() of runtime_collision_reaction.cpp stops the car, or gives it a
\* driver.
LEMMA ReactedCar ==
    ASSUME NEW c, HitCar(c), NEW next, HitCar(next), NEW moves \in BOOLEAN
    PROVE  LET d == Reacted(c, next, moves)
           IN  /\ HitCar(d) /\ SameDrive(next, d)
               /\ d.tumbles = next.tumbles /\ d.displaced = next.displaced
PROOF
  <1> DEFINE d == Reacted(c, next, moves)
             boards == [next EXCEPT !.grace = Boarding]
             stops  == [next EXCEPT !.grace = 0, !.slides = moves]
  <1>1. Boarding \in Nat
    BY RecoveryAssumption
  <1>2. next \in CarRecord /\ next.window # <<>>
    BY DEF HitCar
  <1>3. boards \in CarRecord /\ stops \in CarRecord
    BY <1>1, <1>2 DEF CarRecord
  <1>4. /\ boards.window = next.window /\ SameDrive(next, boards)
        /\ boards.tumbles = next.tumbles /\ boards.displaced = next.displaced
    BY <1>2 DEF CarRecord, SameDrive
  <1>5. /\ stops.window = next.window /\ SameDrive(next, stops)
        /\ stops.tumbles = next.tumbles /\ stops.displaced = next.displaced
    BY <1>2 DEF CarRecord, SameDrive
  <1>6. d = next \/ d = boards \/ d = stops
    BY DEF Reacted
  <1>7. SameDrive(next, next)
    BY DEF SameDrive
  <1> HIDE DEF d, boards, stops
  <1>8. /\ HitCar(d) /\ SameDrive(next, d)
        /\ d.tumbles = next.tumbles /\ d.displaced = next.displaced
    BY <1>2, <1>3, <1>4, <1>5, <1>6, <1>7 DEF HitCar
  <1> QED BY <1>8 DEF d

\* The past of a car is long enough for what the tick made of it.
LEMMA UpdatedCar ==
    ASSUME NEW c, HitCar(c), NEW p \in PastRecord, NEW q \in PastRecord,
           NEW dt \in {0, 1}, NEW blow \in Nat, NEW moves \in BOOLEAN,
           NEW u, u = Updated(c, dt, blow, moves)
    PROVE  /\ HitCar(u) /\ u.tumbles = c.tumbles /\ u.displaced = c.displaced
           /\ /\ WaitsEnough(c, p)
              /\ Follows(p, q, c, u, dt, blow, Settled(c, moves))
              => KeepsWaiting(c, u, q)
PROOF
  <1> DEFINE settled == Settled(c, moves)
             t == Ticked(c, dt, blow, settled)
  <1>1. settled \in BOOLEAN
    BY DEF Settled
  <1>2. u = Reacted(c, t, moves)
    BY DEF Updated
  <1> HIDE DEF settled
  <1>3. /\ HitCar(t) /\ Unmoved(c, t)
        /\ WaitsEnough(c, p) /\ Follows(p, q, c, t, dt, blow, settled) =>
             KeepsWaiting(c, t, q)
    BY <1>1, TickedCar
  <1> HIDE DEF t
  <1>4. /\ HitCar(u) /\ SameDrive(t, u)
        /\ u.tumbles = t.tumbles /\ u.displaced = t.displaced
    <2>1. HitCar(t)
      BY <1>3
    <2>2. LET d == Reacted(c, t, moves)
          IN  /\ HitCar(d) /\ SameDrive(t, d)
              /\ d.tumbles = t.tumbles /\ d.displaced = t.displaced
      BY <2>1, ReactedCar
    <2> QED BY <1>2, <2>2
  <1>5. Follows(p, q, c, u, dt, blow, settled) =>
          Follows(p, q, c, t, dt, blow, settled)
    BY <1>4 DEF Follows, Felt, SameDrive
  <1>6. KeepsWaiting(c, t, q) => KeepsWaiting(c, u, q)
    BY <1>4 DEF KeepsWaiting, SameDrive, WaitsEnough
  <1> QED BY <1>3, <1>4, <1>5, <1>6 DEF Unmoved, settled

\* integrate_offset() moves the car, and nothing else.
LEMMA IntegratedCar ==
    ASSUME NEW c, HitCar(c), NEW m \in Impacts
    PROVE  LET d == Integrated(c, m)
           IN  HitCar(d) /\ SameDrive(c, d)
PROOF
  <1> DEFINE d == Integrated(c, m)
             strayed == c.displaced \/ c.slides
             back == c.phase \in {"Driving", "Recovering"} /\ m.returned
             away == strayed /\ ~back
             goes == c.slides /\ ~m.rests /\ ~(back /\ c.phase = "Recovering")
             holds == [c EXCEPT !.slides = FALSE]
             boards == [c EXCEPT !.slides = FALSE, !.grace = c.grace - 1]
             slides == [c EXCEPT !.displaced = away, !.slides = goes]
  <1>1. /\ c \in CarRecord /\ c.window # <<>> /\ c.grace \in Nat
        /\ c.slides \in BOOLEAN /\ c.displaced \in BOOLEAN
    BY DEF HitCar, CarRecord
  <1>2. away \in BOOLEAN /\ goes \in BOOLEAN
    BY <1>1
  <1>3. \/ d = holds
        \/ c.grace > 0 /\ d = boards
        \/ d = slides
    BY <1>1 DEF Integrated
  <1> HIDE DEF away, goes
  <1>4. holds \in CarRecord /\ slides \in CarRecord
    BY <1>1, <1>2 DEF CarRecord
  <1>5. c.grace > 0 => boards \in CarRecord
    <2>1. c.grace > 0 => c.grace - 1 \in Nat
      BY <1>1
    <2> QED BY <1>1, <2>1 DEF CarRecord
  <1>6. /\ holds.window = c.window /\ SameDrive(c, holds)
        /\ boards.window = c.window /\ SameDrive(c, boards)
        /\ slides.window = c.window /\ SameDrive(c, slides)
    BY <1>1 DEF CarRecord, SameDrive
  <1> HIDE DEF d, holds, boards, slides
  <1>7. HitCar(d) /\ SameDrive(c, d)
    BY <1>1, <1>3, <1>4, <1>5, <1>6 DEF HitCar
  <1> QED BY <1>7 DEF d

\* A car that cannot go where it would stays where it is.
LEMMA HaltedCar ==
    ASSUME NEW before, HitCar(before), NEW c, HitCar(c), NEW m \in Impacts
    PROVE  LET d == Halted(before, c, m)
           IN  HitCar(d) /\ SameDrive(c, d)
PROOF
  <1> DEFINE away == before.displaced \/ c.phase = "Driving"
             tilts == before.tumbles /\ ~m.rests
             d == [ c EXCEPT !.displaced = away, !.slides = FALSE,
                             !.tumbles = tilts ]
  <1>1. c \in CarRecord /\ c.window # <<>>
    BY DEF HitCar
  <1>2. away \in BOOLEAN /\ tilts \in BOOLEAN
    BY DEF HitCar, CarRecord
  <1>3. Halted(before, c, m) = d
    BY DEF Halted
  <1> HIDE DEF away, tilts
  <1>4. d \in CarRecord
    BY <1>1, <1>2 DEF CarRecord
  <1>5. d.window = c.window /\ SameDrive(c, d)
    BY <1>1 DEF CarRecord, SameDrive
  <1> HIDE DEF d
  <1> QED BY <1>1, <1>3, <1>4, <1>5 DEF HitCar

\* A car that overturned never drives again.
LEMMA OverturnedCar ==
    ASSUME NEW c, HitCar(c), NEW m \in Impacts, NEW q, WaitsEnough(c, q)
    PROVE  LET d == Overturned(c, m)
           IN  /\ HitCar(d) /\ WaitsEnough(d, q)
               /\ d.phase = c.phase \/ d.phase = "Disabled"
PROOF
  <1> DEFINE d == [c EXCEPT !.phase = "Disabled", !.hold = 0]
  <1>1. c \in CarRecord /\ c.window # <<>>
    BY DEF HitCar
  <1>2. Overturned(c, m) = c \/ Overturned(c, m) = d
    BY DEF Overturned
  <1>3. d \in CarRecord
    <2>1. "Disabled" \in Phases
      BY DEF Phases
    <2> QED BY <1>1, <2>1 DEF CarRecord
  <1>4. /\ d.window = c.window /\ d.phase = "Disabled" /\ d.quiet = c.quiet
    BY <1>1 DEF CarRecord
  <1> HIDE DEF d
  <1>5. WaitsEnough(d, q)
    BY <1>4 DEF WaitsEnough, Stopped
  <1> QED BY <1>1, <1>2, <1>3, <1>4, <1>5 DEF HitCar

\* finish_recovery() lets it go on, on its lane.
LEMMA FinishedCar ==
    ASSUME NEW c, HitCar(c), NEW q, WaitsEnough(c, q)
    PROVE  LET d == Finished(c)
           IN  /\ HitCar(d) /\ WaitsEnough(d, q)
               /\ \/ d = c
                  \/ /\ c.phase = "Recovering" /\ d.phase = "Driving"
                     /\ d.displaced = FALSE
PROOF
  <1> DEFINE d == [c EXCEPT !.phase = "Driving", !.hold = 0, !.grace = 0]
  <1>1. c \in CarRecord /\ c.window # <<>> /\ c.displaced \in BOOLEAN
    BY DEF HitCar, CarRecord
  <1>2. \/ Finished(c) = c
        \/ Finished(c) = d /\ c.phase = "Recovering" /\ c.displaced = FALSE
    BY <1>1 DEF Finished
  <1>3. d \in CarRecord
    <2>1. "Driving" \in Phases
      BY DEF Phases
    <2> QED BY <1>1, <2>1 DEF CarRecord
  <1>4. /\ d.window = c.window /\ d.phase = "Driving" /\ d.quiet = c.quiet
        /\ d.displaced = c.displaced
    BY <1>1 DEF CarRecord
  <1> HIDE DEF d
  <1>5. WaitsEnough(d, q)
    BY <1>4 DEF WaitsEnough, Stopped
  <1> QED BY <1>1, <1>2, <1>3, <1>4, <1>5 DEF HitCar

\* Where a car goes is no question of when it may drive, but on its lane.
LEMMA MovedCar ==
    ASSUME NEW c, HitCar(c), NEW s, HitCar(s), NEW m \in Impacts,
           NEW q, WaitsEnough(s, q)
    PROVE  LET d == Moved(c, s, m)
           IN  /\ HitCar(d) /\ WaitsEnough(d, q)
               /\ \/ d.phase = s.phase
                  \/ /\ s.phase = "Recovering" /\ d.phase = "Driving"
                     /\ d.displaced = FALSE
PROOF
  <1> DEFINE i == Integrated(s, m)
             h == Halted(c, i, m)
             d == Moved(c, s, m)
  <1>1. HitCar(i) /\ SameDrive(s, i)
    BY IntegratedCar
  <1> HIDE DEF i
  <1>2. HitCar(h) /\ SameDrive(i, h)
    BY <1>1, HaltedCar
  <1> HIDE DEF h
  <1>3. d = s \/ d = Finished(i) \/ d = Finished(h)
    BY DEF Moved, i, h
  <1> HIDE DEF d
  <1>4. WaitsEnough(i, q) /\ WaitsEnough(h, q)
    BY <1>1, <1>2 DEF SameDrive, WaitsEnough
  <1>5. i.phase = s.phase /\ h.phase = s.phase
    BY <1>1, <1>2 DEF SameDrive
  <1>6. ASSUME NEW e, HitCar(e), WaitsEnough(e, q), e.phase = s.phase,
               d = Finished(e)
        PROVE  /\ HitCar(d) /\ WaitsEnough(d, q)
               /\ \/ d.phase = s.phase
                  \/ /\ s.phase = "Recovering" /\ d.phase = "Driving"
                     /\ d.displaced = FALSE
    <2>1. /\ HitCar(Finished(e)) /\ WaitsEnough(Finished(e), q)
          /\ \/ Finished(e) = e
             \/ /\ e.phase = "Recovering" /\ Finished(e).phase = "Driving"
                /\ Finished(e).displaced = FALSE
      BY <1>6, FinishedCar
    <2> QED BY <1>6, <2>1
  <1>7. /\ HitCar(d) /\ WaitsEnough(d, q)
        /\ \/ d.phase = s.phase
           \/ /\ s.phase = "Recovering" /\ d.phase = "Driving"
              /\ d.displaced = FALSE
    BY <1>1, <1>2, <1>3, <1>4, <1>5, <1>6
  <1> QED BY <1>7 DEF d

\* What a step of a car from c to d may be, of which q is the past.
Allowed(c, d, q) == HitCar(d) /\ WaitsEnough(d, q) /\ ~Rushes(c, d, q)

LEMMA AllowedByWait ==
    ASSUME NEW c, HitCar(c), NEW d, NEW q \in PastRecord,
           HitCar(d), WaitsEnough(d, q),
           c.phase = "Disabled" => d.phase = "Disabled",
           c.phase \notin Motors /\ d.phase \in Motors => RestedEnough(q),
           c.phase # "Driving" /\ d.phase = "Driving" => d.displaced = FALSE
    PROVE  Allowed(c, d, q)
PROOF
  <1>1. q.hardest \in Nat /\ q.rest \in Nat /\ q.since \in Nat
    BY DEF PastRecord
  <1>2. Hold(q.hardest) \in Nat /\ Window \in Nat
    BY <1>1, HoldGrows, RecoveryAssumption
  <1>3. RestedEnough(q) => ~(q.rest < Hold(q.hardest) \/ q.since < Window)
    BY <1>1, <1>2 DEF RestedEnough
  <1>4. c.phase \notin Motors /\ d.phase \in Motors => c.phase # "Disabled"
    BY DEF Motors
  <1> QED BY <1>3, <1>4 DEF Allowed, Rushes

\* The past of a car after the time of a tick.
LEMMA RestedPast ==
    ASSUME NEW p \in PastRecord, p.blows # <<>>, NEW c, HitCar(c),
           NEW m \in Impacts
    PROVE  LET q == Rested(p, c, m)
           IN  /\ q \in PastRecord /\ q.blows # <<>> /\ q.rushed = p.rushed
               /\ q.since = Lesser(Window, p.since + 1)
               /\ c.phase # "Driving" => q.hardest = p.hardest
               /\ /\ c.phase \notin Motors
                  /\ ~c.slides /\ ~(c.tumbles /\ ~m.lands)
                  => q.rest = Lesser(Hold(Disabling), p.rest + 1)
PROOF
  <1> DEFINE blow == [sum |-> 0, live |-> FALSE]
             rest == IF c.phase \in Motors \/ c.slides
                          \/ (c.tumbles /\ ~m.lands) THEN 0
                     ELSE Lesser(Hold(Disabling), p.rest + 1)
             since == Lesser(Window, p.since + 1)
             hardest == IF c.phase = "Driving" THEN 0 ELSE p.hardest
             blows == IF trial.listed THEN Append(p.blows, blow) ELSE p.blows
             q == [ p EXCEPT !.rest = rest, !.since = since,
                             !.hardest = hardest, !.blows = blows ]
  <1>1. /\ p.rest \in Nat /\ p.since \in Nat /\ p.hardest \in Nat
        /\ p.blows \in Seq(Blow)
    BY DEF PastRecord
  <1>2. Window \in Nat /\ Disabling \in Nat
    BY RecoveryAssumption
  <1>3. Hold(Disabling) \in Nat
    BY <1>2, HoldGrows
  <1>4. rest \in Nat /\ since \in Nat /\ hardest \in Nat
    BY <1>1, <1>2, <1>3 DEF Lesser
  <1>5. blows \in Seq(Blow) /\ blows # <<>>
    <2>1. blow \in Blow
      BY DEF Blow
    <2> HIDE DEF blow
    <2>2. Append(p.blows, blow) \in Seq(Blow) /\ Append(p.blows, blow) # <<>>
      BY <1>1, <2>1, AppendProperties
    <2> QED BY <1>1, <2>2
  <1>6. Rested(p, c, m) = q
    BY DEF Rested
  <1>7. /\ c.phase # "Driving" => hardest = p.hardest
        /\ c.phase \notin Motors /\ ~c.slides /\ ~(c.tumbles /\ ~m.lands) =>
             rest = Lesser(Hold(Disabling), p.rest + 1)
    OBVIOUS
  <1> HIDE DEF rest, hardest, blows
  <1>8. q \in PastRecord
    BY <1>4, <1>5 DEF PastRecord
  <1>9. /\ q.rest = rest /\ q.since = since /\ q.hardest = hardest
        /\ q.blows = blows /\ q.rushed = p.rushed
    BY DEF PastRecord
  <1> HIDE DEF q
  <1> QED BY <1>5, <1>6, <1>7, <1>8, <1>9

\* The time of a tick, and what moves the car in it, hurry nobody.
LEMMA MetCar ==
    ASSUME NEW c, HitCar(c), NEW p \in PastRecord, p.blows # <<>>,
           WaitsEnough(c, p), NEW m \in Impacts
    PROVE  LET q == IF Counts(m) THEN Rested(p, c, m) ELSE p
           IN  /\ q \in PastRecord /\ q.blows # <<>> /\ q.rushed = p.rushed
               /\ Allowed(c, Met(c, m), q)
PROOF
  <1>1. CASE ~Counts(m)
    <2>1. Allowed(c, c, p)
      BY AllowedByWait
    <2> QED BY <1>1, <2>1 DEF Met
  <1>2. CASE Counts(m)
    <2> DEFINE q == Rested(p, c, m)
               stands == c.tumbles /\ ~m.lands
               b == [c EXCEPT !.tumbles = stands]
               u == Updated(b, 1, 0, m.moves)
               o == Overturned(u, m)
               d == Moved(c, o, m)
    <2>1. /\ q \in PastRecord /\ q.blows # <<>> /\ q.rushed = p.rushed
          /\ q.since = Lesser(Window, p.since + 1)
          /\ c.phase # "Driving" => q.hardest = p.hardest
          /\ c.phase \notin Motors /\ ~c.slides /\ ~(c.tumbles /\ ~m.lands) =>
               q.rest = Lesser(Hold(Disabling), p.rest + 1)
      BY RestedPast
    <2>2. Met(c, m) = d
      BY <1>2 DEF Met, Readied
    <2> HIDE DEF q
    <2>3. m.moves \in BOOLEAN
      BY DEF Impacts
    <2>4. /\ c \in CarRecord /\ c.window # <<>> /\ stands \in BOOLEAN
      BY DEF HitCar, CarRecord
    <2>5. /\ b \in CarRecord /\ b.window = c.window /\ SameDrive(c, b)
          /\ b.slides = c.slides /\ b.tumbles = stands
      <3> HIDE DEF stands
      <3> QED BY <2>4 DEF CarRecord, SameDrive
    <2> HIDE DEF b
    <2>6. HitCar(b) /\ WaitsEnough(b, p)
      BY <2>4, <2>5 DEF HitCar, SameDrive, WaitsEnough
    <2>7. Follows(p, q, b, u, 1, 0, Settled(b, m.moves))
      <3>1. ~Felt(u, 0)
        BY DEF Felt
      <3>2. b.phase = "Holding" /\ Settled(b, m.moves) =>
              ~c.slides /\ ~(c.tumbles /\ ~m.lands)
        BY <2>5 DEF Settled
      <3>3. b.phase = c.phase
        BY <2>5 DEF SameDrive
      <3>4. b.phase = "Holding" /\ Settled(b, m.moves) =>
              q.rest >= Lesser(Hold(Disabling), p.rest + 1)
        <4>1. p.rest \in Nat
          BY DEF PastRecord
        <4>2. Hold(Disabling) \in Nat
          BY HoldGrows, RecoveryAssumption
        <4>3. Lesser(Hold(Disabling), p.rest + 1) \in Nat
          BY <4>1, <4>2 DEF Lesser
        <4> QED BY <2>1, <3>2, <3>3, <4>3 DEF Motors
      <3>5. q.since >= Lesser(Window, p.since + 1)
        <4>1. q.since \in Nat
          BY <2>1 DEF PastRecord
        <4> QED BY <2>1, <4>1
      <3>6. c.phase # "Driving" => q.hardest <= p.hardest
        <4>1. p.hardest \in Nat
          BY DEF PastRecord
        <4> QED BY <2>1, <4>1
      <3> QED BY <3>1, <3>3, <3>4, <3>5, <3>6 DEF Follows
    <2>8. KeepsWaiting(b, u, q)
      BY <2>1, <2>3, <2>6, <2>7, UpdatedCar
    <2> HIDE DEF u
    <2>9. HitCar(u) /\ WaitsEnough(u, q)
      BY <2>8 DEF KeepsWaiting
    <2>10. /\ HitCar(o) /\ WaitsEnough(o, q)
           /\ o.phase = u.phase \/ o.phase = "Disabled"
      BY <2>9, OverturnedCar
    <2> HIDE DEF o
    <2>11. /\ HitCar(d) /\ WaitsEnough(d, q)
           /\ \/ d.phase = o.phase
              \/ /\ o.phase = "Recovering" /\ d.phase = "Driving"
                 /\ d.displaced = FALSE
      BY <2>10, MovedCar
    <2> HIDE DEF d
    <2>12. /\ c.phase = "Disabled" => u.phase = "Disabled"
           /\ c.phase # "Driving" => u.phase # "Driving"
           /\ c.phase \notin Motors /\ u.phase \in Motors => RestedEnough(q)
      BY <2>5, <2>8 DEF KeepsWaiting, SameDrive
    <2>13. Allowed(c, d, q)
      <3>1. c.phase = "Disabled" => d.phase = "Disabled"
        BY <2>10, <2>11, <2>12
      <3>2. c.phase \notin Motors /\ d.phase \in Motors => RestedEnough(q)
        BY <2>10, <2>11, <2>12 DEF Motors
      <3>3. c.phase # "Driving" /\ d.phase = "Driving" => d.displaced = FALSE
        BY <2>10, <2>11, <2>12
      <3> QED BY <2>1, <2>11, <3>1, <3>2, <3>3, AllowedByWait
    <2> QED BY <1>2, <2>1, <2>2, <2>13 DEF q
  <1> QED BY <1>1, <1>2

\* The past of a car after a blow.
LEMMA StruckPast ==
    ASSUME NEW p \in PastRecord, p.blows # <<>>, NEW c, HitCar(c),
           NEW m \in Impacts, NEW sum \in Nat
    PROVE  LET q == Struck(p, c, m, sum)
           IN  /\ q \in PastRecord /\ q.blows # <<>> /\ q.rushed = p.rushed
               /\ sum < Reaction => q.since = p.since /\ q.hardest = p.hardest
               /\ sum >= Reaction =>
                    q.hardest = IF c.phase = "Driving" THEN sum
                                ELSE Greater(p.hardest, sum)
               /\ /\ ~m.moves /\ ~c.tumbles /\ ~m.topples
                  /\ c.phase \notin Motors
                  => q.rest = p.rest
PROOF
  <1> DEFINE felt == sum >= Reaction
             last == p.blows[Len(p.blows)]
             blow == [ sum |-> last.sum + m.blow,
                       live |-> last.live \/ c.phase # "Disabled" ]
             rest == IF m.moves \/ c.tumbles \/ m.topples
                          \/ (felt /\ c.phase \in Motors) THEN 0 ELSE p.rest
             since == IF felt THEN 0 ELSE p.since
             hardest == IF ~felt THEN p.hardest
                        ELSE IF c.phase = "Driving" THEN sum
                        ELSE Greater(p.hardest, sum)
             blows == IF ~trial.listed THEN p.blows
                      ELSE [p.blows EXCEPT ![Len(p.blows)] = blow]
             q == [ p EXCEPT !.rest = rest, !.since = since,
                             !.hardest = hardest, !.blows = blows ]
  <1>1. /\ p.rest \in Nat /\ p.since \in Nat /\ p.hardest \in Nat
        /\ p.blows \in Seq(Blow)
    BY DEF PastRecord
  <1>2. Reaction \in Nat /\ m.blow \in Nat
    BY RecoveryAssumption DEF Impacts
  <1>3. rest \in Nat /\ since \in Nat /\ hardest \in Nat
    BY <1>1, <1>2 DEF Greater
  <1>4. blows \in Seq(Blow) /\ blows # <<>>
    <2>1. last \in Blow
      BY <1>1, LastChanged
    <2> HIDE DEF last
    <2>2. blow \in Blow
      <3>1. last.sum + m.blow \in Nat
        BY <1>2, <2>1 DEF Blow
      <3>2. (last.live \/ c.phase # "Disabled") \in BOOLEAN
        OBVIOUS
      <3> QED BY <3>1, <3>2 DEF Blow
    <2> HIDE DEF blow
    <2>3. /\ [p.blows EXCEPT ![Len(p.blows)] = blow] \in Seq(Blow)
          /\ [p.blows EXCEPT ![Len(p.blows)] = blow] # <<>>
      BY <1>1, <2>2, LastChanged
    <2> QED BY <1>1, <2>3
  <1>5. Struck(p, c, m, sum) = q
    BY DEF Struck
  <1>6. /\ sum < Reaction => since = p.since /\ hardest = p.hardest
        /\ sum >= Reaction =>
             hardest = IF c.phase = "Driving" THEN sum
                       ELSE Greater(p.hardest, sum)
        /\ ~m.moves /\ ~c.tumbles /\ ~m.topples /\ c.phase \notin Motors =>
             rest = p.rest
    BY <1>2
  <1> HIDE DEF rest, since, hardest, blows
  <1>7. q \in PastRecord
    BY <1>3, <1>4 DEF PastRecord
  <1>8. /\ q.rest = rest /\ q.since = since /\ q.hardest = hardest
        /\ q.blows = blows /\ q.rushed = p.rushed
    BY DEF PastRecord
  <1> HIDE DEF q
  <1> QED BY <1>4, <1>5, <1>6, <1>7, <1>8

\* The past of a car after the contacts of a tick that found it as in c.
StruckOrNot(p, c, m, sum) ==
    IF m.blow > 0 /\ Solved(m) THEN Struck(p, c, m, sum) ELSE p

\* The contacts of a tick hurry nobody either.
LEMMA ContactedCar ==
    ASSUME NEW c, HitCar(c), NEW p \in PastRecord, p.blows # <<>>,
           WaitsEnough(c, p), NEW m \in Impacts
    PROVE  LET d == Contacted(c, m)
               q == StruckOrNot(p, c, m, d.sum)
           IN  /\ q \in PastRecord /\ q.blows # <<>> /\ q.rushed = p.rushed
               /\ Allowed(c, d, q)
PROOF
  <1>1. /\ m.blow \in Nat /\ m.moves \in BOOLEAN /\ m.topples \in BOOLEAN
        /\ m.shifted \in BOOLEAN
    BY DEF Impacts
  <1>2. /\ p.rest \in Nat /\ p.since \in Nat /\ p.hardest \in Nat
    BY DEF PastRecord
  <1>3. /\ Window \in Nat /\ Reaction \in Nat
        /\ Hold(Disabling) \in Nat
    BY HoldGrows, RecoveryAssumption
  <1>4. CASE m.blow = 0
    <2>1. Allowed(c, c, p)
      BY AllowedByWait
    <2>2. StruckOrNot(p, c, m, c.sum) = p /\ Contacted(c, m) = c
      BY <1>4 DEF Contacted, StruckOrNot
    <2> QED BY <2>1, <2>2
  <1>5. CASE m.blow # 0 /\ ~Solved(m)
    <2> DEFINE u == Updated(c, 0, 0, FALSE)
    <2>1. Contacted(c, m) = u /\ StruckOrNot(p, c, m, u.sum) = p
      BY <1>5 DEF Contacted, StruckOrNot
    <2>2. Follows(p, p, c, u, 0, 0, Settled(c, FALSE))
      <3>1. p.since >= Lesser(Window, p.since + 0)
        BY <1>2, <1>3 DEF Lesser
      <3>2. p.rest >= Lesser(Hold(Disabling), p.rest + 0)
        BY <1>2, <1>3 DEF Lesser
      <3>3. ~Felt(u, 0) /\ p.hardest <= p.hardest
        BY <1>2 DEF Felt
      <3> HIDE DEF u
      <3> QED BY <3>1, <3>2, <3>3 DEF Follows
    <2>3. KeepsWaiting(c, u, p)
      BY <2>2, UpdatedCar
    <2> HIDE DEF u
    <2>4. Allowed(c, u, p)
      BY <2>3, AllowedByWait DEF KeepsWaiting
    <2> QED BY <2>1, <2>4
  <1>6. CASE m.blow # 0 /\ Solved(m)
    <2> DEFINE away == c.displaced \/ m.shifted
               tilts == c.tumbles \/ m.topples
               b == [ c EXCEPT !.slides = m.moves, !.displaced = away,
                               !.tumbles = tilts ]
               u == Updated(b, 0, m.blow, m.moves)
               q == Struck(p, c, m, u.sum)
    <2>1. Contacted(c, m) = u /\ StruckOrNot(p, c, m, u.sum) = q
      BY <1>1, <1>6 DEF Contacted, StruckOrNot
    <2>2. /\ c \in CarRecord /\ c.window # <<>> /\ away \in BOOLEAN
          /\ tilts \in BOOLEAN
      BY DEF HitCar, CarRecord
    <2>3. /\ b \in CarRecord /\ b.window = c.window /\ SameDrive(c, b)
          /\ b.slides = m.moves /\ b.tumbles = tilts
      <3> HIDE DEF away, tilts
      <3> QED BY <1>1, <2>2 DEF CarRecord, SameDrive
    <2> HIDE DEF b
    <2>4. HitCar(b) /\ WaitsEnough(b, p) /\ b.phase = c.phase
      BY <2>2, <2>3 DEF HitCar, SameDrive, WaitsEnough
    <2>5. HitCar(u)
      BY <1>1, <2>4, UpdatedCar
    <2>6. u.sum \in Nat
      BY <2>5 DEF HitCar, CarRecord
    <2>7. /\ q \in PastRecord /\ q.blows # <<>> /\ q.rushed = p.rushed
          /\ u.sum < Reaction => q.since = p.since /\ q.hardest = p.hardest
          /\ u.sum >= Reaction =>
               q.hardest = IF c.phase = "Driving" THEN u.sum
                           ELSE Greater(p.hardest, u.sum)
          /\ /\ ~m.moves /\ ~c.tumbles /\ ~m.topples
             /\ c.phase \notin Motors
             => q.rest = p.rest
      BY <2>6, StruckPast
    <2> HIDE DEF q
    <2>8. Follows(p, q, b, u, 0, m.blow, Settled(b, m.moves))
      <3>1. Felt(u, m.blow) <=> u.sum >= Reaction
        BY <1>1, <1>6 DEF Felt
      <3>2. q.since \in Nat /\ q.hardest \in Nat /\ q.rest \in Nat
        BY <2>7 DEF PastRecord
      <3>3. q.since >= IF Felt(u, m.blow) THEN 0
                                          ELSE Lesser(Window, p.since + 0)
        BY <1>2, <1>3, <2>6, <2>7, <3>1, <3>2 DEF Lesser
      <3>4. /\ ~Felt(u, m.blow) => q.hardest <= p.hardest
            /\ c.phase # "Driving" /\ Felt(u, m.blow) =>
                 q.hardest <= Greater(p.hardest, u.sum)
            /\ c.phase = "Driving" /\ Felt(u, m.blow) => q.hardest <= u.sum
        BY <1>2, <1>3, <2>6, <2>7, <3>1, <3>2
      <3>5. b.phase = "Holding" /\ Settled(b, m.moves) => q.rest = p.rest
        BY <2>3, <2>4, <2>7 DEF Settled, Motors
      <3>6. p.rest >= Lesser(Hold(Disabling), p.rest + 0)
        BY <1>2, <1>3 DEF Lesser
      <3> QED BY <2>4, <3>3, <3>4, <3>5, <3>6 DEF Follows
    <2>9. KeepsWaiting(b, u, q)
      BY <1>1, <2>4, <2>7, <2>8, UpdatedCar
    <2> HIDE DEF u
    <2>10. Allowed(c, u, q)
      <3>1. /\ HitCar(u) /\ WaitsEnough(u, q)
            /\ c.phase = "Disabled" => u.phase = "Disabled"
            /\ c.phase # "Driving" => u.phase # "Driving"
            /\ c.phase \notin Motors /\ u.phase \in Motors => RestedEnough(q)
        BY <2>4, <2>9 DEF KeepsWaiting
      <3> QED BY <2>7, <3>1, AllowedByWait
    <2> QED BY <2>1, <2>7, <2>10
  <1> QED BY <1>4, <1>5, <1>6

\* A car that was never hit has nothing to wait for.
LEMMA UnhitWaits ==
    /\ HitCar(UnhitCar) /\ WaitsEnough(UnhitCar, NoPast)
    /\ NoPast \in PastRecord /\ NoPast.blows # <<>> /\ ~NoPast.rushed
PROOF
  <1>1. Window \in Nat
    BY RecoveryAssumption
  <1>2. <<0>> \in Seq(Nat) /\ <<0>> # <<>>
    OBVIOUS
  <1>3. UnhitCar \in CarRecord /\ UnhitCar.window # <<>>
    BY <1>1, <1>2 DEF UnhitCar, CarRecord, Phases
  <1>4. [sum |-> 0, live |-> FALSE] \in Blow
    BY DEF Blow
  <1>5. /\ <<[sum |-> 0, live |-> FALSE]>> \in Seq(Blow)
        /\ <<[sum |-> 0, live |-> FALSE]>> # <<>>
    BY <1>4
  <1>6. NoPast \in PastRecord /\ NoPast.blows # <<>> /\ ~NoPast.rushed
    BY <1>1, <1>5 DEF NoPast, PastRecord
  <1>7. WaitsEnough(UnhitCar, NoPast)
    BY <1>1 DEF WaitsEnough, UnhitCar, NoPast, Stopped
  <1> QED BY <1>3, <1>6, <1>7 DEF HitCar

\* A tick preserves the invariant: its time first, its contacts after.
LEMMA RecoveryInvTick ==
    ASSUME RecoveryInv, NEW m \in trial.meets, RunTick(m)
    PROVE  RecoveryInv'
PROOF
  <1> DEFINE rested  == IF Counts(m) THEN Rested(past, car, m) ELSE past
             between == Met(car, m)
             later   == Contacted(between, m)
             struck  == StruckOrNot(rested, between, m, later.sum)
             rushed  == \/ struck.rushed
                        \/ Rushes(car, between, rested)
                        \/ Rushes(between, later, struck)
             hits    == IF m.blow > 0 THEN struck.hits + 1 ELSE struck.hits
  <1>1. /\ HitCar(car) /\ past \in PastRecord /\ past.blows # <<>>
        /\ WaitsEnough(car, past) /\ past.rushed = FALSE /\ trial \in Trials
    BY DEF RecoveryInv, ResumesOnlyAfterRest, PastRecord
  <1>2. m \in Impacts
    BY <1>1, TrialAssumption
  <1>3. /\ car' = later /\ trial' = trial
        /\ past' = [struck EXCEPT !.rushed = rushed, !.hits = hits]
    BY DEF RunTick, After, Noted, Judged, StruckOrNot
  <1>4. /\ rested \in PastRecord /\ rested.blows # <<>>
        /\ rested.rushed = past.rushed /\ Allowed(car, between, rested)
    BY <1>1, <1>2, MetCar
  <1> HIDE DEF rested, between
  <1>5. HitCar(between) /\ WaitsEnough(between, rested)
    BY <1>4 DEF Allowed
  <1>6. /\ struck \in PastRecord /\ struck.blows # <<>>
        /\ struck.rushed = rested.rushed /\ Allowed(between, later, struck)
    BY <1>2, <1>4, <1>5, ContactedCar
  <1> HIDE DEF later, struck
  <1>7. rushed = FALSE
    BY <1>1, <1>4, <1>6 DEF Allowed
  <1>8. hits \in Nat
    BY <1>6 DEF PastRecord
  <1> HIDE DEF rushed, hits
  <1>9. /\ past' \in PastRecord /\ past'.blows # <<>>
        /\ past'.rushed = FALSE
        /\ past'.rest = struck.rest /\ past'.since = struck.since
        /\ past'.hardest = struck.hardest
    BY <1>3, <1>6, <1>7, <1>8 DEF PastRecord
  <1>10. HitCar(later) /\ WaitsEnough(later, past')
    BY <1>6, <1>9 DEF Allowed, WaitsEnough
  <1>11. ~past'.rushed
    BY <1>9
  <1> QED BY <1>1, <1>3, <1>9, <1>10, <1>11
          DEF RecoveryInv, HitCar, WaitsEnough, ResumesOnlyAfterRest

LEMMA RecoveryInvStep ==
    ASSUME RecoveryInv, [RecoveryNext]_recoveryVars PROVE RecoveryInv'
PROOF
  <1>1. ASSUME NEW m \in trial.meets, RunTick(m) PROVE RecoveryInv'
    BY <1>1, RecoveryInvTick
  <1>2. CASE Rebuilt
    <2>1. car' = UnhitCar /\ past' = NoPast /\ trial' \in Trials
      BY <1>2 DEF Rebuilt, RecoveryInv
    <2> QED BY <2>1, UnhitWaits
            DEF RecoveryInv, HitCar, WaitsEnough, ResumesOnlyAfterRest
  <1>3. CASE UNCHANGED recoveryVars
    BY <1>3 DEF recoveryVars, RecoveryInv, HitCar, WaitsEnough,
                ResumesOnlyAfterRest
  <1> QED BY <1>1, <1>2, <1>3 DEF RecoveryNext

\* The invariant of a car that is hit: what it holds for is at least the
\* hardest blow, and what it still holds and what it rested make up the hold.
THEOREM RecoveryInvariant == RecoverySpec => []RecoveryInv
PROOF
  <1>1. RecoveryInit => RecoveryInv
    BY UnhitWaits DEF RecoveryInit, RecoveryInv, ResumesOnlyAfterRest
  <1>2. RecoveryInv /\ [RecoveryNext]_recoveryVars => RecoveryInv'
    BY RecoveryInvStep
  <1> QED BY <1>1, <1>2, PTL DEF RecoverySpec

\* The state of a hit car has its type.
\* (ImpactRecoveryState and RuntimeCollisionReaction, their members)
THEOREM RecoveryTypes == RecoverySpec => []TypeOK
PROOF
  <1>1. RecoveryInv => TypeOK
    BY DEF RecoveryInv, HitCar, TypeOK
  <1> QED BY <1>1, RecoveryInvariant, PTL

\* No car drives again before it has rested for as long as its hardest blow
\* asks for, none goes on away from its lane, and no disabled one ever.
\* (ImpactRecoveryState::tick, RuntimeCollisionReaction, prepare_lane_npc)
THEOREM CarsResumeOnlyAfterRest == RecoverySpec => []ResumesOnlyAfterRest
PROOF
  <1>1. RecoveryInv => ResumesOnlyAfterRest
    BY DEF RecoveryInv
  <1> QED BY <1>1, RecoveryInvariant, PTL

-----------------------------------------------------------------------------
(* What the blows of a car amount to.                                      *)

\* What a tick adds to the history before anything hits the car.
Silence == [sum |-> 0, live |-> FALSE]

History(x) == x \in Seq(Blow) /\ x # <<>>

\* y is x with a blow of v more in its last tick, met by a car that was, or
\* was not, disabled.
BlowAdded(x, y, v, live) ==
    /\ v \in Nat \ {0} /\ live \in BOOLEAN
    /\ y = [ x EXCEPT ![Len(x)] =
               [sum |-> @.sum + v, live |-> @.live \/ live] ]

LEMMA HistoryIs ==
    ASSUME NEW x, History(x)
    PROVE  /\ Len(x) \in Nat \ {0} /\ DOMAIN x = 1..Len(x)
           /\ Len(x) \in 1..Len(x) /\ IsFiniteSet(1..Len(x))
           /\ \A n \in 1..Len(x) : x[n].sum \in Nat /\ x[n].live \in BOOLEAN
PROOF
  <1>1. Len(x) \in Nat \ {0} /\ DOMAIN x = 1..Len(x)
    BY EmptySeq, LenProperties DEF History
  <1>2. IsFiniteSet(1..Len(x))
    BY <1>1, FS_Interval
  <1>3. \A n \in 1..Len(x) : x[n] \in Blow
    BY ElementOfSeq DEF History
  <1> QED BY <1>1, <1>2, <1>3 DEF Blow

\* The ticks that a sum reaches back over.
Reach(n) == Greater(1, n - Window) .. n

Felts(x) == [k \in DOMAIN x |-> x[k].sum]

LEMMA ReachIs ==
    ASSUME NEW n \in Nat \ {0}
    PROVE  /\ IsFiniteSet(Reach(n)) /\ Reach(n) \subseteq 1..n /\ n \in Reach(n)
           /\ n > Window => Reach(n) = n - Window .. n
           /\ n <= Window => Reach(n) = 1..n
           /\ n = Window => Reach(n) = 1..n
PROOF
  <1>1. Window \in Nat \ {0}
    BY RecoveryAssumption
  <1>2. /\ Greater(1, n - Window) \in Int /\ Greater(1, n - Window) >= 1
        /\ Greater(1, n - Window) <= n
        /\ n > Window => Greater(1, n - Window) = n - Window
        /\ n <= Window => Greater(1, n - Window) = 1
    BY <1>1 DEF Greater
  <1>3. IsFiniteSet(Greater(1, n - Window) .. n)
    BY <1>2, FS_Interval
  <1> QED BY <1>1, <1>2, <1>3 DEF Reach

LEMMA SumIs ==
    ASSUME NEW x, NEW n
    PROVE  Sum(x, n) = SumFunctionOnSet(Felts(x), Reach(n))
  BY DEF Sum, Felts, Reach

\* A sum depends on the blows up to its tick only, and is a natural number.
LEMMA SumAgrees ==
    ASSUME NEW x, History(x), NEW y, History(y),
           NEW n \in 1..Len(x), n \in 1..Len(y),
           \A k \in 1..n : y[k].sum = x[k].sum
    PROVE  Sum(x, n) \in Nat /\ Sum(y, n) = Sum(x, n)
PROOF
  <1>1. /\ DOMAIN x = 1..Len(x) /\ DOMAIN y = 1..Len(y)
        /\ Len(x) \in Nat /\ Len(y) \in Nat
        /\ \A k \in 1..Len(x) : x[k].sum \in Nat
    BY HistoryIs
  <1>2. n \in Nat \ {0} /\ IsFiniteSet(Reach(n)) /\ Reach(n) \subseteq 1..n
    BY <1>1, ReachIs
  <1>3. \A k \in Reach(n) :
          Felts(x)[k] \in Nat /\ Felts(x)[k] = Felts(y)[k]
    BY <1>1, <1>2 DEF Felts
  <1> QED BY <1>2, <1>3, SumsAgree, SumIs

LEMMA SumIsNatural ==
    ASSUME NEW x, History(x), NEW n \in 1..Len(x)
    PROVE  Sum(x, n) \in Nat
  BY SumAgrees

\* The sum after a tick of silence is without what has run out.
LEMMA SumSlides ==
    ASSUME NEW x, History(x), NEW y, y = Append(x, Silence)
    PROVE  /\ History(y) /\ Len(y) = Len(x) + 1
           /\ \A k \in 1..Len(x) : y[k] = x[k]
           /\ y[Len(x) + 1] = Silence
           /\ Sum(x, Len(x)) = Sum(y, Len(x) + 1)
                + (IF Len(x) > Window THEN x[Len(x) - Window].sum ELSE 0)
PROOF
  <1> DEFINE l == Len(x)
             m == l + 1
             f == Felts(y)
             R == Reach(l) \ {l - Window}
  <1>1. Silence \in Blow
    BY DEF Silence, Blow
  <1>2. /\ y \in Seq(Blow) /\ y # <<>> /\ Len(y) = m
        /\ \A k \in 1..l : y[k] = x[k]
        /\ y[m] = Silence
    BY <1>1, AppendProperties DEF History
  <1>3. /\ l \in Nat \ {0} /\ DOMAIN x = 1..l
        /\ \A k \in 1..l : x[k].sum \in Nat
    BY HistoryIs
  <1>4. History(y)
    BY <1>2 DEF History
  <1>5. /\ Window \in Nat \ {0} /\ m \in Nat \ {0} /\ l \in 1..l /\ l \in 1..m
    BY <1>3, RecoveryAssumption
  <1>6. DOMAIN y = 1..m
    BY <1>2, <1>4, HistoryIs
  <1>7. /\ f[m] = 0 /\ \A k \in 1..l : f[k] = x[k].sum /\ f[k] \in Nat
    BY <1>2, <1>3, <1>5, <1>6 DEF Felts, Silence
  <1>8. Sum(x, l) = Sum(y, l)
    BY <1>2, <1>4, <1>5, SumAgrees
  <1> HIDE DEF l, f
  <1>9. /\ IsFiniteSet(Reach(l)) /\ Reach(l) \subseteq 1..l
        /\ l > Window => Reach(l) = l - Window .. l
        /\ l <= Window => Reach(l) = 1..l
        /\ m > Window => Reach(m) = m - Window .. m
        /\ m <= Window => Reach(m) = 1..m
        /\ m = Window => Reach(m) = 1..m
    BY <1>3, <1>5, ReachIs
  <1>10. /\ IsFiniteSet(R) /\ R \subseteq 1..l
         /\ l - Window \notin R /\ m \notin R
    BY <1>3, <1>9, FS_Subset
  <1>11. Reach(m) = R \cup {m}
    <2>1. CASE l > Window
      <3>1. /\ Reach(l) = l - Window .. l /\ Reach(m) = m - Window .. m
            /\ m - Window = l - Window + 1 /\ m = l + 1
        BY <1>3, <1>5, <1>9, <2>1
      <3>2. Window \in Nat /\ l \in Nat
        BY <1>3, <1>5
      <3> HIDE DEF l, m
      <3>3. \A k \in Int : k \in Reach(m) <=> k >= l - Window + 1 /\ k <= l + 1
        BY ONLY <3>1, <3>2
      <3>4. \A k \in Int : k \in R \cup {m}
                              <=> k >= l - Window + 1 /\ k <= l + 1
        BY <2>1, <3>1, <3>2
      <3>5. Reach(m) \subseteq Int /\ R \cup {m} \subseteq Int
        BY <3>1, <3>2
      <3> QED BY <3>3, <3>4, <3>5
    <2>2. CASE l = Window
      BY <1>3, <1>5, <1>9, <2>2
    <2>3. CASE l < Window
      BY <1>3, <1>5, <1>9, <2>3
    <2> QED BY <1>3, <1>5, <2>1, <2>2, <2>3
  <1>12. IF l > Window THEN Reach(l) = R \cup {l - Window} /\ l - Window \in 1..l
                       ELSE Reach(l) = R
    BY <1>3, <1>5, <1>9
  <1> HIDE DEF R, m
  <1>13. SumFunctionOnSet(f, R \cup {m}) = f[m] + SumFunctionOnSet(f, R)
    <2>1. ASSUME NEW k \in R \cup {m} PROVE f[k] \in Nat
      <3>1. CASE k = m
        BY <1>7, <3>1
      <3>2. CASE k \in 1..l
        BY <1>7, <3>2
      <3> QED BY <1>10, <3>1, <3>2
    <2> QED BY <1>10, <2>1, SumWithOneMore
  <1>14. SumFunctionOnSet(f, R) \in Nat
    BY <1>7, <1>10, SumsAgree
  <1>15. Sum(y, m) = SumFunctionOnSet(f, R)
    <2>1. Sum(y, m) = SumFunctionOnSet(f, R \cup {m})
      BY <1>11, SumIs DEF f
    <2> QED BY <1>7, <1>13, <1>14, <2>1
  <1>16. CASE l > Window
    <2>1. SumFunctionOnSet(f, R \cup {l - Window})
            = f[l - Window] + SumFunctionOnSet(f, R)
      BY <1>7, <1>10, <1>12, <1>16, SumWithOneMore
    <2>2. Sum(x, l) = f[l - Window] + Sum(y, m)
      BY <1>8, <1>12, <1>15, <1>16, <2>1, SumIs DEF f
    <2>3. f[l - Window] = x[l - Window].sum /\ f[l - Window] \in Nat
      BY <1>7, <1>12, <1>16
    <2> QED BY <1>2, <1>4, <1>14, <1>15, <1>16, <2>2, <2>3 DEF m, l
  <1>17. CASE ~(l > Window)
    <2>1. Sum(x, l) = Sum(y, m)
      BY <1>8, <1>12, <1>15, <1>17, SumIs DEF f
    <2> QED BY <1>2, <1>4, <1>14, <1>15, <1>17, <2>1 DEF m, l
  <1> QED BY <1>16, <1>17

\* A blow adds to the sum of its tick.
LEMMA SumGrows ==
    ASSUME NEW x, History(x), NEW y, NEW v, NEW live, BlowAdded(x, y, v, live)
    PROVE  /\ History(y) /\ Len(y) = Len(x)
           /\ \A k \in 1..Len(x) : k # Len(x) => y[k] = x[k]
           /\ y[Len(x)].sum = x[Len(x)].sum + v
           /\ y[Len(x)].live = (x[Len(x)].live \/ live)
           /\ Sum(y, Len(x)) = Sum(x, Len(x)) + v
PROOF
  <1> DEFINE l == Len(x)
             last == x[l]
             blow == [sum |-> last.sum + v, live |-> last.live \/ live]
             f == Felts(x)
             g == Felts(y)
             R == Reach(l) \ {l}
  <1>0. /\ v \in Nat \ {0} /\ live \in BOOLEAN
        /\ y = [x EXCEPT ![l] = blow]
    BY DEF BlowAdded
  <1>1. /\ l \in Nat \ {0} /\ DOMAIN x = 1..l /\ l \in 1..l
        /\ \A k \in 1..l : x[k].sum \in Nat /\ x[k].live \in BOOLEAN
    BY HistoryIs
  <1>2. blow \in Blow
    BY <1>0, <1>1 DEF Blow
  <1>3. /\ blow.sum = x[l].sum + v /\ blow.live = (x[l].live \/ live)
    OBVIOUS
  <1> HIDE DEF blow
  <1>4. /\ y \in Seq(Blow) /\ Len(y) = l /\ y # <<>>
        /\ y[l] = blow /\ \A k \in 1..l : k # l => y[k] = x[k]
    <2>1. x \in Seq(Blow) /\ x # <<>>
      BY DEF History
    <2>2. y \in Seq(Blow) /\ Len(y) = l
      BY <1>0, <1>1, <1>2, <2>1, ExceptSeq
    <2>3. y # <<>>
      BY <1>1, <2>2
    <2>4. y[l] = blow /\ \A k \in 1..l : k # l => y[k] = x[k]
      BY <1>0, <1>1, <2>1
    <2> QED BY <2>2, <2>3, <2>4
  <1>5. History(y) /\ DOMAIN y = 1..l
    BY <1>4, HistoryIs DEF History
  <1>6. /\ IsFiniteSet(R) /\ l \notin R /\ R \cup {l} = Reach(l)
        /\ R \subseteq 1..l
    BY <1>1, ReachIs, FS_Subset
  <1>7. /\ \A k \in 1..l : f[k] \in Nat /\ g[k] \in Nat
        /\ \A k \in R : g[k] = f[k]
        /\ g[l] = f[l] + v
    BY <1>0, <1>1, <1>3, <1>4, <1>5, <1>6 DEF Felts
  <1> HIDE DEF R, f, g, l
  <1>8. /\ SumFunctionOnSet(f, R \cup {l}) = f[l] + SumFunctionOnSet(f, R)
        /\ SumFunctionOnSet(g, R \cup {l}) = g[l] + SumFunctionOnSet(g, R)
    BY <1>1, <1>6, <1>7, SumWithOneMore
  <1>9. /\ SumFunctionOnSet(f, R) \in Nat
        /\ SumFunctionOnSet(f, R) = SumFunctionOnSet(g, R)
    BY <1>6, <1>7, SumsAgree
  <1>10. Sum(x, l) = f[l] + SumFunctionOnSet(f, R)
         /\ Sum(y, l) = f[l] + v + SumFunctionOnSet(f, R)
    BY <1>6, <1>7, <1>8, <1>9, SumIs DEF f, g
  <1>11. Sum(y, l) = Sum(x, l) + v
    BY <1>0, <1>1, <1>7, <1>9, <1>10
  <1> QED BY <1>3, <1>4, <1>5, <1>11 DEF l

-----------------------------------------------------------------------------
(* The episodes of a history.                                              *)

Contacts(x) == {n \in DOMAIN x : IsContact(x, n)}

\* Episodes and their contacts, without the window in ticks.
LEMMA EpisodesAre ==
    ASSUME NEW x, History(x)
    PROVE  /\ Contacts(x) \subseteq 1..Len(x) /\ Contacts(x) \subseteq Nat
           /\ Beginnings(x) \subseteq Contacts(x)
           /\ IsFiniteSet(Beginnings(x))
           /\ \A n : n \in Beginnings(x) <=>
                /\ n \in Contacts(x)
                /\ \A k \in Contacts(x) : k < n => k <= n - Window
           /\ \A b, n : n \in ContactsOf(x, b) <=>
                /\ n \in Contacts(x) /\ n >= b
                /\ \A k \in Beginnings(x) : k <= n => k <= b
PROOF
  <1>1. /\ DOMAIN x = 1..Len(x) /\ Len(x) \in Nat /\ IsFiniteSet(1..Len(x))
    BY HistoryIs
  <1>2. Contacts(x) \subseteq 1..Len(x) /\ Contacts(x) \subseteq Nat
    BY <1>1 DEF Contacts
  <1>3. ASSUME NEW n \in 1..Len(x)
        PROVE  (\A k \in Greater(1, n - Window + 1) .. n - 1 : ~IsContact(x, k))
                 <=> \A k \in Contacts(x) : k < n => k <= n - Window
    <2>0. Window \in Nat \ {0}
      BY RecoveryAssumption
    <2>1. \A k \in Greater(1, n - Window + 1) .. n - 1 :
            k \in DOMAIN x /\ k < n /\ ~(k <= n - Window)
      BY <1>1, <2>0 DEF Greater
    <2>2. \A k \in Contacts(x) : k < n /\ ~(k <= n - Window) =>
            k \in Greater(1, n - Window + 1) .. n - 1 /\ IsContact(x, k)
      BY <1>1, <2>0 DEF Greater, Contacts
    <2> QED BY <2>1, <2>2 DEF Contacts
  <1>4. \A n : n \in Beginnings(x) <=>
          /\ n \in Contacts(x)
          /\ \A k \in Contacts(x) : k < n => k <= n - Window
    BY <1>1, <1>3 DEF Beginnings, BeginsEpisode, Contacts
  <1>5. \A b, n : n \in ContactsOf(x, b) <=>
          /\ n \in Contacts(x) /\ n >= b
          /\ \A k \in Beginnings(x) : k <= n => k <= b
    BY DEF ContactsOf, Contacts
  <1>6. Beginnings(x) \subseteq Contacts(x) /\ IsFiniteSet(Beginnings(x))
    BY <1>1, <1>2, <1>4, FS_Subset
  <1> QED BY <1>2, <1>4, <1>5, <1>6

\* The last episode.
IsLast(x, b) == b \in Beginnings(x) /\ \A n \in Beginnings(x) : n <= b

\* Every contact belongs to an episode.
LEMMA ContactHasEpisode ==
    ASSUME NEW x, History(x), NEW n \in Contacts(x)
    PROVE  \E b \in Beginnings(x) : n \in ContactsOf(x, b)
PROOF
  <1>1. Contacts(x) \subseteq Nat /\ Contacts(x) # {} /\ n \in Nat
    BY EpisodesAre
  <1>2. PICK k \in Contacts(x) : \A j \in Contacts(x) : k <= j
    BY <1>1, LeastOfNaturals
  <1>3. k \in Beginnings(x) /\ k <= n /\ k \in Nat
    BY <1>1, <1>2, EpisodesAre
  <1> DEFINE B == {b \in Beginnings(x) : b <= n}
  <1>4. B \in SUBSET Nat /\ B # {} /\ \A b \in B : b <= n
    BY <1>1, <1>3, EpisodesAre
  <1>5. PICK b \in B : \A j \in B : j <= b
    BY <1>1, <1>4, GreatestOfNaturals
  <1>6. b \in Beginnings(x) /\ n >= b /\ b \in Nat
    BY <1>1, <1>4
  <1>7. \A j \in Beginnings(x) : j <= n => j <= b
    BY <1>5
  <1> QED BY <1>6, <1>7, EpisodesAre

LEMMA LastExists ==
    ASSUME NEW x, History(x), Contacts(x) # {}
    PROVE  \E b : IsLast(x, b)
PROOF
  <1>1. PICK n \in Contacts(x) : TRUE
    OBVIOUS
  <1>2. PICK b \in Beginnings(x) : n \in ContactsOf(x, b)
    BY ContactHasEpisode
  <1>3. /\ Beginnings(x) \in SUBSET Nat /\ Beginnings(x) # {}
        /\ Len(x) \in Nat /\ \A j \in Beginnings(x) : j <= Len(x)
    BY <1>2, EpisodesAre, HistoryIs
  <1>4. PICK l \in Beginnings(x) : \A j \in Beginnings(x) : j <= l
    BY ONLY <1>3, GreatestOfNaturals
  <1> QED BY <1>4 DEF IsLast

\* How hard the hardest of the contacts S is.
IsHardest(x, S, m) ==
    /\ m \in Nat
    /\ m = 0 \/ \E n \in S : m = Sum(x, n)
    /\ \A n \in S : Sum(x, n) <= m

LEMMA HardestExists ==
    ASSUME NEW x, History(x), NEW S \in SUBSET (1..Len(x))
    PROVE  \E m \in Nat : IsHardest(x, S, m)
PROOF
  <1> DEFINE l == Len(x)
             T(j) == {n \in S : n <= j}
             N == {j \in 0..l : \E m \in Nat : IsHardest(x, T(j), m)}
  <1>1. l \in Nat /\ \A n \in 1..l : Sum(x, n) \in Nat
    BY HistoryIs, SumIsNatural
  <1>0. \A n \in S : n \in Nat /\ n >= 1 /\ n <= l /\ Sum(x, n) \in Nat
    <2>1. \A n \in S : n \in 1..l
      OBVIOUS
    <2> QED BY <1>1, <2>1
  <1>2. 0 \in N
    <2>1. T(0) = {}
      <3>1. ASSUME NEW n \in S, n <= 0 PROVE FALSE
        BY <1>0, <3>1
      <3> QED BY <3>1
    <2>2. IsHardest(x, T(0), 0)
      BY <2>1 DEF IsHardest
    <2>3. 0 \in Nat /\ 0 \in 0..l
      BY <1>1
    <2> HIDE DEF T
    <2> QED BY <2>2, <2>3
  <1>3. ASSUME NEW j \in 0..l - 1, j \in N PROVE j + 1 \in N
    <2>1. PICK m \in Nat : IsHardest(x, T(j), m)
      BY <1>3
    <2>2. j + 1 \in 1..l /\ j + 1 \in 0..l /\ Sum(x, j + 1) \in Nat
      BY <1>1
    <2>3. \A n \in T(j + 1) : n \in T(j) \/ n = j + 1
      BY <1>1
    <2>4. T(j) \subseteq T(j + 1) /\ (j + 1 \in S => j + 1 \in T(j + 1))
          /\ (j + 1 \notin S => j + 1 \notin T(j + 1))
          /\ \A n \in T(j) : Sum(x, n) \in Nat
      <3>1. j \in Nat
        BY <1>1
      <3>2. \A n \in S : n <= j => n <= j + 1
        BY <1>0, <3>1
      <3>3. j + 1 <= j + 1
        BY <3>1
      <3> QED BY <1>0, <3>2, <3>3
    <2> HIDE DEF T
    <2>5. CASE j + 1 \in S /\ Sum(x, j + 1) > m
      <3>1. IsHardest(x, T(j + 1), Sum(x, j + 1))
        BY <2>1, <2>2, <2>3, <2>4, <2>5 DEF IsHardest
      <3> QED BY <2>2, <3>1
    <2>6. CASE ~(j + 1 \in S /\ Sum(x, j + 1) > m)
      <3>1. IsHardest(x, T(j + 1), m)
        BY <2>1, <2>2, <2>3, <2>4, <2>6 DEF IsHardest
      <3> QED BY <2>2, <3>1
    <2> QED BY <2>5, <2>6
  <1>4. \A j : j \in N => \E m \in Nat : IsHardest(x, T(j), m)
    OBVIOUS
  <1>5. T(l) = S
    BY <1>0
  <1>a. 0 \in Int /\ l \in Int /\ l \in 0..l
    BY <1>1
  <1> HIDE DEF N, T, l
  <1>6. \A j \in 0..l : j \in N
    BY ONLY <1>a, <1>2, <1>3, IntervalInduction
  <1> QED BY <1>a, <1>4, <1>5, <1>6

LEMMA HardestIs ==
    ASSUME NEW x, History(x), NEW S \in SUBSET (1..Len(x))
    PROVE  /\ IsHardest(x, S, HardestSum(x, S)) /\ HardestSum(x, S) \in Nat
           /\ \A m : IsHardest(x, S, m) => m = HardestSum(x, S)
PROOF
  <1> DEFINE T == {Sum(x, n) : n \in S} \cup {0}
  <1>1. \A n \in S : Sum(x, n) \in Nat
    <2>1. \A n \in S : n \in 1..Len(x)
      OBVIOUS
    <2> QED BY <2>1, SumIsNatural
  <1>2. ASSUME NEW m, IsHardest(x, S, m) PROVE HardestSum(x, S) = m
    <2>0. \A t : t \in T <=> t = 0 \/ \E n \in S : t = Sum(x, n)
      OBVIOUS
    <2> HIDE DEF T
    <2>1. m \in T /\ \A n \in T : m >= n
      BY <1>1, <1>2, <2>0 DEF IsHardest
    <2>2. \A t \in T : t \in Nat
      BY <1>1, <2>0
    <2>3. \A n \in T : (\A k \in T : n >= k) => n = m
      BY <2>1, <2>2
    <2>4. Max(T) = m
      BY <2>1, <2>3 DEF Max
    <2> QED BY <2>4 DEF HardestSum, T
  <1>3. PICK m \in Nat : IsHardest(x, S, m)
    BY HardestExists
  <1> QED BY <1>2, <1>3

\* The damage that a sum does.
LEMMA ChargeIs ==
    /\ Full \in Nat \ {0} /\ Charge(0) = 0
    /\ \A p \in Nat : Charge(p) \in Nat /\ Charge(p) <= Full
    /\ \A p \in Nat : p >= Disabling => Charge(p) = Full
    /\ \A p, q \in Nat : p <= q => Charge(p) <= Charge(q)
  BY RecoveryAssumption DEF Charge, Full, Lesser

\* The contacts of an episode that show, those that damage, and how hard the
\* hardest of the first ones is.
LiveContacts(x, b) == {n \in ContactsOf(x, b) : x[n].live}

Shows(x, b) == HardestSum(x, ShownContacts(x, b))

Opens(x, n) == x[n].live \/ Sum(x, n) >= Reaction

LEMMA EpisodeIs ==
    ASSUME NEW x, History(x), NEW b
    PROVE  /\ ContactsOf(x, b) \in SUBSET (1..Len(x))
           /\ ShownContacts(x, b) \in SUBSET (1..Len(x))
           /\ LiveContacts(x, b) \in SUBSET (1..Len(x))
           /\ \A n : n \in ShownContacts(x, b) <=>
                /\ n \in ContactsOf(x, b)
                /\ \E o \in ContactsOf(x, b) : Opens(x, o) /\ o <= n
           /\ EpisodeCharge(x, b) = Charge(HardestSum(x, LiveContacts(x, b)))
           /\ EpisodeCharge(x, b) \in Nat /\ EpisodeCharge(x, b) <= Full
           /\ Shows(x, b) \in Nat
PROOF
  <1>1. ContactsOf(x, b) \in SUBSET (1..Len(x))
    BY EpisodesAre
  <1>2. \A n : n \in ShownContacts(x, b) <=>
          /\ n \in ContactsOf(x, b)
          /\ \E o \in ContactsOf(x, b) : Opens(x, o) /\ o <= n
    BY DEF ShownContacts, Opens
  <1>3. /\ ShownContacts(x, b) \in SUBSET (1..Len(x))
        /\ LiveContacts(x, b) \in SUBSET (1..Len(x))
    BY <1>1, <1>2 DEF LiveContacts
  <1>4. EpisodeCharge(x, b) = Charge(HardestSum(x, LiveContacts(x, b)))
    BY DEF EpisodeCharge, LiveContacts
  <1>5. HardestSum(x, LiveContacts(x, b)) \in Nat /\ Shows(x, b) \in Nat
    BY <1>3, HardestIs DEF Shows
  <1> QED BY <1>1, <1>2, <1>3, <1>4, <1>5, ChargeIs

\* x and y are the same in the ticks K.
SameAt(x, y, K) ==
    \A n \in K : Sum(y, n) = Sum(x, n) /\ y[n].live = x[n].live

\* An episode is what its contacts are.
LEMMA HardestAgrees ==
    ASSUME NEW x, NEW y, NEW S, SameAt(x, y, S)
    PROVE  HardestSum(y, S) = HardestSum(x, S)
PROOF
  <1>1. {Sum(y, n) : n \in S} = {Sum(x, n) : n \in S}
    BY DEF SameAt
  <1> QED BY <1>1 DEF HardestSum

LEMMA EpisodeAgrees ==
    ASSUME NEW x, History(x), NEW y, History(y), NEW b,
           ContactsOf(y, b) = ContactsOf(x, b),
           SameAt(x, y, ContactsOf(x, b))
    PROVE  /\ ShownContacts(y, b) = ShownContacts(x, b)
           /\ Shows(y, b) = Shows(x, b)
           /\ EpisodeCharge(y, b) = EpisodeCharge(x, b)
PROOF
  <1> DEFINE K == ContactsOf(x, b)
  <1>1. \A n \in K : Opens(y, n) <=> Opens(x, n)
    BY DEF SameAt, Opens
  <1>2. ShownContacts(y, b) = ShownContacts(x, b)
    <2>1. \A n : n \in ShownContacts(y, b) <=>
            /\ n \in ContactsOf(y, b)
            /\ \E o \in ContactsOf(y, b) : Opens(y, o) /\ o <= n
      BY EpisodeIs
    <2>2. \A n : n \in ShownContacts(x, b) <=>
            /\ n \in ContactsOf(x, b)
            /\ \E o \in ContactsOf(x, b) : Opens(x, o) /\ o <= n
      BY EpisodeIs
    <2>3. \A n : n \in ShownContacts(y, b) <=> n \in ShownContacts(x, b)
      BY <1>1, <2>1, <2>2
    <2> QED BY <2>3
  <1>3. LiveContacts(y, b) = LiveContacts(x, b)
    BY DEF SameAt, LiveContacts
  <1>4. ShownContacts(x, b) \subseteq K /\ LiveContacts(x, b) \subseteq K
    BY EpisodeIs DEF LiveContacts
  <1>5. /\ SameAt(x, y, ShownContacts(x, b))
        /\ SameAt(x, y, LiveContacts(x, b))
    BY <1>4 DEF SameAt
  <1>6. /\ HardestSum(y, ShownContacts(x, b)) = HardestSum(x, ShownContacts(x, b))
        /\ HardestSum(y, LiveContacts(x, b)) = HardestSum(x, LiveContacts(x, b))
    BY <1>5, HardestAgrees
  <1> QED BY <1>2, <1>3, <1>6, EpisodeIs DEF Shows

\* If it was met by a car that drives, all of it shows and damages.
LEMMA EpisodeAllLive ==
    ASSUME NEW x, History(x), NEW b, \A n \in ContactsOf(x, b) : x[n].live
    PROVE  /\ ShownContacts(x, b) = ContactsOf(x, b)
           /\ EpisodeCharge(x, b) = Charge(Shows(x, b))
PROOF
  <1>1. \A n \in ContactsOf(x, b) : Opens(x, n) /\ n \in Nat
    <2>1. ContactsOf(x, b) \subseteq 1..Len(x)
      BY EpisodeIs
    <2> QED BY <2>1 DEF Opens
  <1>2. ShownContacts(x, b) = ContactsOf(x, b)
    <2>1. \A n \in ContactsOf(x, b) : n <= n
      BY <1>1
    <2> QED BY <1>1, <2>1, EpisodeIs
  <1>3. LiveContacts(x, b) = ContactsOf(x, b)
    BY DEF LiveContacts
  <1> QED BY <1>2, <1>3, EpisodeIs DEF Shows

Total(x) == SumFunctionOnSet(Charges(x), Beginnings(x))

\* What a history amounts to.
LEMMA AmountsAre ==
    ASSUME NEW x, History(x)
    PROVE  /\ Total(x) \in Nat
           /\ \A b \in Beginnings(x) :
                /\ Charges(x)[b] = EpisodeCharge(x, b) /\ Charges(x)[b] \in Nat
                /\ Total(x) >= EpisodeCharge(x, b)
           /\ \A b : b \in Presented(x) <=>
                b \in Beginnings(x) /\ Shows(x, b) >= Presentation
           /\ IsFiniteSet(Presented(x)) /\ Cardinality(Presented(x)) \in Nat
PROOF
  <1>1. IsFiniteSet(Beginnings(x))
    BY EpisodesAre
  <1>2. ASSUME NEW b \in Beginnings(x)
        PROVE  /\ Charges(x)[b] = EpisodeCharge(x, b)
               /\ Charges(x)[b] \in Nat
    BY EpisodeIs DEF Charges
  <1>3. Total(x) \in Nat
    BY <1>1, <1>2, SumsAgree DEF Total
  <1>4. ASSUME NEW b \in Beginnings(x) PROVE Total(x) >= Charges(x)[b]
    <2> DEFINE R == Beginnings(x) \ {b}
    <2>1. /\ IsFiniteSet(R) /\ b \notin R /\ R \cup {b} = Beginnings(x)
          /\ \A n \in R : Charges(x)[n] \in Nat
      BY <1>1, <1>2, FS_RemoveElement
    <2> HIDE DEF R
    <2>2. SumFunctionOnSet(Charges(x), R) \in Nat
      BY <2>1, SumsAgree
    <2>3. \A n \in R \cup {b} : Charges(x)[n] \in Nat
      BY <1>2, <2>1
    <2>4. SumFunctionOnSet(Charges(x), R \cup {b})
            = Charges(x)[b] + SumFunctionOnSet(Charges(x), R)
      BY <2>1, <2>3, SumWithOneMore
    <2> QED BY <1>2, <2>1, <2>2, <2>4 DEF Total
  <1>5. \A b : b \in Presented(x) <=>
          b \in Beginnings(x) /\ Shows(x, b) >= Presentation
    BY DEF Presented, Shows
  <1>6. IsFiniteSet(Presented(x)) /\ Cardinality(Presented(x)) \in Nat
    BY <1>1, <1>5, FS_Subset, FS_CardinalityType
  <1> QED BY <1>2, <1>3, <1>4, <1>5, <1>6

\* y tells of the same contacts as x.
SameStory(x, y) ==
    /\ History(x) /\ History(y) /\ Contacts(y) = Contacts(x)
    /\ SameAt(x, y, Contacts(x))

LEMMA StorySame ==
    ASSUME NEW x, NEW y, SameStory(x, y)
    PROVE  /\ Beginnings(y) = Beginnings(x)
           /\ \A b : /\ ShownContacts(y, b) = ShownContacts(x, b)
                     /\ Shows(y, b) = Shows(x, b)
           /\ Total(y) = Total(x) /\ Presented(y) = Presented(x)
PROOF
  <1>0. /\ History(x) /\ History(y) /\ Contacts(y) = Contacts(x)
        /\ SameAt(x, y, Contacts(x))
    BY DEF SameStory
  <1>1. Beginnings(y) = Beginnings(x)
    <2>1. \A n : n \in Beginnings(y) <=>
            /\ n \in Contacts(x)
            /\ \A k \in Contacts(x) : k < n => k <= n - Window
      BY <1>0, EpisodesAre
    <2>2. \A n : n \in Beginnings(x) <=>
            /\ n \in Contacts(x)
            /\ \A k \in Contacts(x) : k < n => k <= n - Window
      BY <1>0, EpisodesAre
    <2> QED BY <2>1, <2>2
  <1>2. ASSUME NEW b
        PROVE  /\ ShownContacts(y, b) = ShownContacts(x, b)
               /\ Shows(y, b) = Shows(x, b)
               /\ EpisodeCharge(y, b) = EpisodeCharge(x, b)
    <2>1. \A n : n \in ContactsOf(y, b) <=>
            /\ n \in Contacts(x) /\ n >= b
            /\ \A k \in Beginnings(x) : k <= n => k <= b
      BY <1>0, <1>1, EpisodesAre
    <2>2. \A n : n \in ContactsOf(x, b) <=>
            /\ n \in Contacts(x) /\ n >= b
            /\ \A k \in Beginnings(x) : k <= n => k <= b
      BY <1>0, EpisodesAre
    <2>3. ContactsOf(y, b) = ContactsOf(x, b)
      BY <2>1, <2>2
    <2>4. SameAt(x, y, ContactsOf(x, b))
      BY <1>0, <2>2 DEF SameAt
    <2> QED BY <1>0, <2>3, <2>4, EpisodeAgrees
  <1>3. Charges(y) = Charges(x)
    BY <1>1, <1>2 DEF Charges
  <1>4. Presented(y) = Presented(x)
    BY <1>1, <1>2 DEF Presented, Shows
  <1> QED BY <1>1, <1>2, <1>3, <1>4 DEF Total

\* y tells of one contact more, in its last tick l, or of a harder one.
Touched(x, y, l) ==
    /\ History(x) /\ History(y) /\ l \in Nat
    /\ Contacts(y) = Contacts(x) \cup {l}
    /\ \A n \in Contacts(x) : n <= l
    /\ SameAt(x, y, Contacts(x) \ {l})
    /\ l \in Contacts(x) =>
         Sum(x, l) <= Sum(y, l) /\ (x[l].live => y[l].live)
    /\ Sum(y, l) \in Nat

\* The other episodes are as they were.
OthersSame(x, y, B) ==
    \A a \in B : Shows(y, a) = Shows(x, a)
                   /\ EpisodeCharge(y, a) = EpisodeCharge(x, a)

LEMMA TouchedIs ==
    ASSUME NEW x, NEW y, NEW l, Touched(x, y, l)
    PROVE  /\ History(x) /\ History(y) /\ l \in Nat
           /\ Window \in Nat \ {0}
           /\ Contacts(y) = Contacts(x) \cup {l}
           /\ Contacts(x) \subseteq Nat
           /\ \A n \in Contacts(x) : n <= l
           /\ \A n : n \in Beginnings(y) <=>
                /\ n \in Contacts(x) \/ n = l
                /\ \A k \in Contacts(x) \cup {l} : k < n => k <= n - Window
           /\ \A n : n \in Beginnings(x) <=>
                /\ n \in Contacts(x)
                /\ \A k \in Contacts(x) : k < n => k <= n - Window
           /\ \A b, n : n \in ContactsOf(y, b) <=>
                /\ n \in Contacts(x) \/ n = l
                /\ n >= b /\ \A k \in Beginnings(y) : k <= n => k <= b
           /\ \A b, n : n \in ContactsOf(x, b) <=>
                /\ n \in Contacts(x)
                /\ n >= b /\ \A k \in Beginnings(x) : k <= n => k <= b
PROOF
  <1>1. /\ History(x) /\ History(y) /\ l \in Nat
        /\ Contacts(y) = Contacts(x) \cup {l}
        /\ \A n \in Contacts(x) : n <= l
    BY DEF Touched
  <1>2. \A n : n \in Contacts(y) <=> n \in Contacts(x) \/ n = l
    BY <1>1
  <1>3. /\ \A n : n \in Beginnings(y) <=>
             /\ n \in Contacts(y)
             /\ \A k \in Contacts(y) : k < n => k <= n - Window
        /\ \A b, n : n \in ContactsOf(y, b) <=>
             /\ n \in Contacts(y) /\ n >= b
             /\ \A k \in Beginnings(y) : k <= n => k <= b
    BY <1>1, EpisodesAre
  <1>4. /\ Contacts(x) \subseteq Nat
        /\ \A n : n \in Beginnings(x) <=>
             /\ n \in Contacts(x)
             /\ \A k \in Contacts(x) : k < n => k <= n - Window
        /\ \A b, n : n \in ContactsOf(x, b) <=>
             /\ n \in Contacts(x) /\ n >= b
             /\ \A k \in Beginnings(x) : k <= n => k <= b
    BY <1>1, EpisodesAre
  <1> QED BY <1>1, <1>2, <1>3, <1>4, RecoveryAssumption

\* After a window without contact it begins an episode.
LEMMA StoryBegun ==
    ASSUME NEW x, NEW y, NEW l, Touched(x, y, l),
           \A n \in Contacts(x) : n <= l - Window
    PROVE  /\ l \notin Contacts(x) /\ l \notin Beginnings(x)
           /\ Beginnings(y) = Beginnings(x) \cup {l} /\ IsLast(y, l)
           /\ ContactsOf(y, l) = {l} /\ OthersSame(x, y, Beginnings(x))
PROOF
  <1>1. /\ History(x) /\ History(y) /\ l \in Nat /\ Window \in Nat \ {0}
        /\ Contacts(y) = Contacts(x) \cup {l} /\ Contacts(x) \subseteq Nat
    BY TouchedIs
  <1>2. /\ \A n \in Contacts(x) : n < l /\ ~(l < n) /\ n <= l - Window
        /\ l \notin Contacts(x)
    BY <1>1
  <1>3. \A n : n \in Beginnings(y) <=> n \in Beginnings(x) \/ n = l
    <2>1. \A n : n \in Beginnings(y) <=>
            /\ n \in Contacts(x) \/ n = l
            /\ \A k \in Contacts(x) \cup {l} : k < n => k <= n - Window
      BY TouchedIs
    <2>2. \A n : n \in Beginnings(x) <=>
            /\ n \in Contacts(x)
            /\ \A k \in Contacts(x) : k < n => k <= n - Window
      BY TouchedIs
    <2>3. ~(l < l)
      BY <1>1
    <2> QED BY <1>2, <2>1, <2>2, <2>3
  <1>4. /\ l \notin Beginnings(x) /\ Beginnings(x) \subseteq Contacts(x)
    BY <1>1, <1>2, EpisodesAre
  <1>5. IsLast(y, l)
    BY <1>1, <1>2, <1>3, <1>4 DEF IsLast
  <1>6. /\ \A b, n : n \in ContactsOf(y, b) <=>
             /\ n \in Contacts(x) \/ n = l
             /\ n >= b /\ \A k \in Beginnings(y) : k <= n => k <= b
        /\ \A b, n : n \in ContactsOf(x, b) <=>
             /\ n \in Contacts(x)
             /\ n >= b /\ \A k \in Beginnings(x) : k <= n => k <= b
    BY TouchedIs
  <1>7. ContactsOf(y, l) = {l}
    <2>1. l >= l /\ \A k \in Beginnings(y) : k <= l
      BY <1>1, <1>5 DEF IsLast
    <2>2. \A n \in Contacts(x) : ~(n >= l)
      BY <1>1, <1>2
    <2> QED BY <1>6, <2>1, <2>2
  <1>8. ASSUME NEW a \in Beginnings(x)
        PROVE  /\ Shows(y, a) = Shows(x, a)
               /\ EpisodeCharge(y, a) = EpisodeCharge(x, a)
    <2>1. ~(l <= a) /\ l <= l
      BY <1>1, <1>2, <1>4
    <2>2. l \notin ContactsOf(y, a)
      BY <1>3, <1>6, <2>1
    <2>3. \A n \in Contacts(x) : ~(l <= n)
      BY <1>1, <1>2
    <2>4. \A n \in Contacts(x) :
            n \in ContactsOf(y, a) <=> n \in ContactsOf(x, a)
      BY <1>3, <1>6, <2>3
    <2>5. ContactsOf(y, a) = ContactsOf(x, a)
      <3>1. \A n : n \in ContactsOf(y, a) => n \in Contacts(x)
        BY <1>6, <2>2
      <3>2. \A n : n \in ContactsOf(x, a) => n \in Contacts(x)
        BY <1>6
      <3> QED BY <2>4, <3>1, <3>2
    <2>6. SameAt(x, y, ContactsOf(x, a))
      BY <1>2, <1>6 DEF SameAt, Touched
    <2> QED BY <1>1, <2>5, <2>6, EpisodeAgrees
  <1> QED BY <1>2, <1>3, <1>4, <1>5, <1>7, <1>8 DEF OthersSame

\* Within a window of a contact it joins the last episode.
LEMMA StoryJoined ==
    ASSUME NEW x, NEW y, NEW l, Touched(x, y, l),
           NEW j \in Contacts(x), j > l - Window, NEW b, IsLast(x, b)
    PROVE  /\ Beginnings(y) = Beginnings(x) /\ IsLast(y, b)
           /\ ContactsOf(y, b) = ContactsOf(x, b) \cup {l}
           /\ OthersSame(x, y, Beginnings(x) \ {b})
PROOF
  <1>1. /\ History(x) /\ History(y) /\ l \in Nat /\ Window \in Nat \ {0}
        /\ Contacts(y) = Contacts(x) \cup {l} /\ Contacts(x) \subseteq Nat
        /\ \A n \in Contacts(x) : n <= l
    BY TouchedIs
  <1>2. Beginnings(y) = Beginnings(x)
    <2>1. \A n : n \in Beginnings(y) <=>
            /\ n \in Contacts(x) \/ n = l
            /\ \A k \in Contacts(x) \cup {l} : k < n => k <= n - Window
      BY TouchedIs
    <2>2. \A n : n \in Beginnings(x) <=>
            /\ n \in Contacts(x)
            /\ \A k \in Contacts(x) : k < n => k <= n - Window
      BY TouchedIs
    <2>3. \A n \in Contacts(x) : ~(l < n)
      BY <1>1
    <2>4. \A n \in Contacts(x) : n \in Beginnings(y) <=> n \in Beginnings(x)
      BY <2>1, <2>2, <2>3
    <2>5. l \notin Contacts(x) => l \notin Beginnings(y)
      <3>1. l \notin Contacts(x) => j < l /\ ~(j <= l - Window)
        BY <1>1
      <3> QED BY <2>1, <3>1
    <2> QED BY <2>1, <2>2, <2>4, <2>5
  <1>3. /\ IsLast(y, b) /\ b \in Nat /\ b \in Beginnings(x) /\ b <= l
        /\ \A k \in Beginnings(x) : k <= b /\ k \in Nat
    BY <1>1, <1>2, EpisodesAre DEF IsLast
  <1>6. /\ \A a, n : n \in ContactsOf(y, a) <=>
             /\ n \in Contacts(x) \/ n = l
             /\ n >= a /\ \A k \in Beginnings(x) : k <= n => k <= a
        /\ \A a, n : n \in ContactsOf(x, a) <=>
             /\ n \in Contacts(x)
             /\ n >= a /\ \A k \in Beginnings(x) : k <= n => k <= a
    BY <1>2, TouchedIs
  <1>7. ContactsOf(y, b) = ContactsOf(x, b) \cup {l}
    <2>1. l >= b
      BY <1>1, <1>3
    <2>2. l \in ContactsOf(y, b)
      BY <1>3, <1>6, <2>1
    <2>3. \A n : n # l => (n \in ContactsOf(y, b) <=> n \in ContactsOf(x, b))
      BY <1>6
    <2> QED BY <2>2, <2>3
  <1>8. ASSUME NEW a \in Beginnings(x) \ {b}
        PROVE  /\ Shows(y, a) = Shows(x, a)
               /\ EpisodeCharge(y, a) = EpisodeCharge(x, a)
    <2>1. ~(b <= a) /\ b <= l
      BY <1>1, <1>3
    <2>2. l \notin ContactsOf(y, a) /\ l \notin ContactsOf(x, a)
      BY <1>3, <1>6, <2>1
    <2>3. \A n : n # l => (n \in ContactsOf(y, a) <=> n \in ContactsOf(x, a))
      BY <1>6
    <2>5. ContactsOf(y, a) = ContactsOf(x, a)
      BY <2>2, <2>3
    <2>6. SameAt(x, y, ContactsOf(x, a))
      BY <1>6, <2>2 DEF SameAt, Touched
    <2> QED BY <1>1, <2>5, <2>6, EpisodeAgrees
  <1> QED BY <1>2, <1>3, <1>7, <1>8 DEF OthersSame

\* What a contact adds to what the last episode shows.
LEMMA ShowsGrow ==
    ASSUME NEW x, NEW y, NEW l, Touched(x, y, l), NEW b,
           ContactsOf(y, b) = ContactsOf(x, b) \cup {l}
    PROVE  LET shown == ShownContacts(x, b) # {} \/ Opens(y, l)
           IN  /\ (ShownContacts(y, b) # {}) <=> shown
               /\ shown => Shows(y, b) = Greater(Shows(x, b), Sum(y, l))
               /\ ~shown => Shows(y, b) = 0
PROOF
  <1>1. /\ History(x) /\ History(y) /\ l \in Nat
        /\ Contacts(x) \subseteq Nat /\ \A n \in Contacts(x) : n <= l
        /\ SameAt(x, y, Contacts(x) \ {l}) /\ Sum(y, l) \in Nat
        /\ l \in Contacts(x) =>
             Sum(x, l) <= Sum(y, l) /\ (x[l].live => y[l].live)
    BY TouchedIs DEF Touched
  <1> DEFINE K == ContactsOf(x, b)
             S == ShownContacts(x, b)
             T == ShownContacts(y, b)
  <1>2. /\ \A n : n \in S <=> n \in K /\ \E o \in K : Opens(x, o) /\ o <= n
        /\ S \in SUBSET (1..Len(x)) /\ Shows(x, b) \in Nat
    BY <1>1, EpisodeIs
  <1>3. /\ \A n : n \in T <=>
             n \in K \cup {l} /\ \E o \in K \cup {l} : Opens(y, o) /\ o <= n
        /\ T \in SUBSET (1..Len(y)) /\ Shows(y, b) \in Nat
    BY <1>1, EpisodeIs
  <1>4. K \subseteq Contacts(x)
    BY <1>1, EpisodesAre
  <1>5. \A n \in K : n <= l /\ n \in Nat
    BY <1>1, <1>4
  <1>6. \A n \in K : n # l => /\ Opens(y, n) <=> Opens(x, n)
                              /\ Sum(y, n) = Sum(x, n)
    BY <1>1, <1>4 DEF SameAt, Opens
  <1>7. l \in K /\ Opens(x, l) => Opens(y, l)
    <2>1. l \in K => l \in Contacts(x) /\ Sum(x, l) \in Nat
      <3>1. Contacts(x) \subseteq 1..Len(x)
        BY <1>1, EpisodesAre
      <3> QED BY <1>1, <1>4, <3>1, SumIsNatural
    <2> QED BY <1>1, <2>1, RecoveryAssumption DEF Opens
  <1> DEFINE shown == S # {} \/ Opens(y, l)
  <1>8. ASSUME shown PROVE \A n : n \in T <=> n \in S \/ n = l
    <2>0. l <= l
      BY <1>1
    <2>1. l \in T
      <3>1. CASE Opens(y, l)
        BY <1>3, <2>0, <3>1
      <3>2. CASE S # {}
        <4>1. PICK o \in K : Opens(x, o)
          BY <1>2, <3>2
        <4>2. Opens(y, o) /\ o <= l
          BY <1>5, <1>6, <1>7, <4>1
        <4> QED BY <1>3, <4>1, <4>2
      <3> QED BY <1>8, <3>1, <3>2
    <2>2. ASSUME NEW n \in S PROVE n \in T
      <3>1. PICK o \in K : Opens(x, o) /\ o <= n
        BY <1>2
      <3>2. Opens(y, o)
        BY <1>6, <1>7, <3>1
      <3>3. n \in K
        BY <1>2
      <3> QED BY <1>3, <3>1, <3>2, <3>3
    <2>3. ASSUME NEW n \in T, n # l PROVE n \in S
      <3>1. n \in K /\ n <= l /\ n \in Nat
        BY <1>3, <1>5, <2>3
      <3>2. PICK o \in K \cup {l} : Opens(y, o) /\ o <= n
        BY <1>3
      <3>3. o # l
        BY <1>1, <2>3, <3>1, <3>2
      <3>4. o \in K /\ Opens(x, o)
        BY <1>6, <3>2, <3>3
      <3> QED BY <1>2, <3>1, <3>2, <3>4
    <2> QED BY <2>1, <2>2, <2>3
  <1>9. ASSUME ~shown PROVE T = {}
    <2>1. ASSUME NEW n \in T PROVE FALSE
      <3>1. PICK o \in K \cup {l} : Opens(y, o)
        BY <1>3
      <3>2. o \in K /\ Opens(x, o) /\ o <= o
        BY <1>5, <1>6, <1>9, <3>1
      <3>3. o \in S
        BY <1>2, <3>2
      <3> QED BY <1>9, <3>3
    <2> QED BY <2>1
  <1>10. /\ IsHardest(x, S, Shows(x, b))
         /\ \A m : IsHardest(y, T, m) => m = Shows(y, b)
    BY <1>1, <1>2, <1>3, HardestIs DEF Shows
  <1>11. \A n \in S : n \in K
    BY <1>2
  <1> HIDE DEF S, T, K
  <1>12. ASSUME shown PROVE IsHardest(y, T, Greater(Shows(x, b), Sum(y, l)))
    <2> DEFINE p == Shows(x, b)
               s == Sum(y, l)
               m == Greater(p, s)
    <2>1. /\ p \in Nat /\ s \in Nat /\ m \in Nat /\ p <= m /\ s <= m
          /\ p > s => m = p
          /\ ~(p > s) => m = s
      BY <1>1, <1>2 DEF Greater
    <2>2. /\ p = 0 \/ \E n \in S : p = Sum(x, n)
          /\ \A n \in S : Sum(x, n) <= p
      BY <1>10 DEF IsHardest
    <2> HIDE DEF p, s, m
    <2>3. l \in T /\ \A n \in S : n \in T
      BY <1>8, <1>12
    <2>4. ASSUME NEW n \in T PROVE Sum(y, n) <= m
      <3>1. CASE n = l
        BY <2>1, <3>1 DEF s
      <3>2. CASE n # l
        <4>1. n \in S /\ Sum(y, n) = Sum(x, n) /\ Sum(x, n) <= p
          BY <1>6, <1>8, <1>11, <1>12, <2>2, <2>4, <3>2
        <4>2. Sum(x, n) \in Nat
          BY <1>1, <1>2, <4>1, SumIsNatural DEF S
        <4> QED BY <2>1, <4>1, <4>2
      <3> QED BY <3>1, <3>2
    <2>5. m = 0 \/ \E n \in T : m = Sum(y, n)
      <3>1. CASE ~(p > s)
        BY <2>1, <2>3, <3>1 DEF s
      <3>2. CASE p > s
        <4>1. PICK n \in S : p = Sum(x, n)
          BY <2>1, <2>2, <3>2
        <4>2. n # l
          <5>1. n = l => l \in Contacts(x)
            BY <1>4, <1>11 DEF K
          <5> QED BY <1>1, <2>1, <3>2, <4>1, <5>1 DEF s
        <4>3. Sum(y, n) = m
          BY <1>6, <1>11, <2>1, <3>2, <4>1, <4>2
        <4> QED BY <2>3, <4>3
      <3> QED BY <3>1, <3>2
    <2>6. IsHardest(y, T, m)
      BY <2>1, <2>4, <2>5 DEF IsHardest
    <2> QED BY <2>6 DEF m, p, s
  <1>13. shown => Shows(y, b) = Greater(Shows(x, b), Sum(y, l))
    BY <1>10, <1>12
  <1>14. ~shown => Shows(y, b) = 0
    <2>1. ASSUME ~shown PROVE IsHardest(y, T, 0)
      BY <1>9, <2>1 DEF IsHardest
    <2> QED BY <1>10, <2>1
  <1>15. (T # {}) <=> shown
    BY <1>8, <1>9
  <1> QED BY <1>13, <1>14, <1>15 DEF S, T

\* What it shows of an episode that it begins.
LEMMA ShowsBegin ==
    ASSUME NEW y, History(y), NEW l \in 1..Len(y), ContactsOf(y, l) = {l}
    PROVE  /\ (ShownContacts(y, l) # {}) <=> Opens(y, l)
           /\ Shows(y, l) = IF Opens(y, l) THEN Sum(y, l) ELSE 0
PROOF
  <1>1. /\ \A n : n \in ShownContacts(y, l) <=>
             n \in {l} /\ \E o \in {l} : Opens(y, o) /\ o <= n
        /\ ShownContacts(y, l) \in SUBSET (1..Len(y))
    BY EpisodeIs
  <1>2. l <= l /\ l \in Nat /\ Sum(y, l) \in Nat
    BY SumIsNatural
  <1>3. \A m : IsHardest(y, ShownContacts(y, l), m) => m = Shows(y, l)
    BY <1>1, HardestIs DEF Shows
  <1>4. CASE Opens(y, l)
    <2>1. ShownContacts(y, l) = {l}
      BY <1>1, <1>2, <1>4
    <2>2. IsHardest(y, {l}, Sum(y, l))
      BY <1>2 DEF IsHardest
    <2> QED BY <1>3, <1>4, <2>1, <2>2
  <1>5. CASE ~Opens(y, l)
    <2>1. ShownContacts(y, l) = {}
      BY <1>1, <1>5
    <2>2. IsHardest(y, {}, 0)
      BY DEF IsHardest
    <2> QED BY <1>3, <1>5, <2>1, <2>2
  <1> QED BY <1>4, <1>5

\* A contact that meets a disabled car does no damage, and one that disables
\* it does all of it.
LEMMA ChargeOfDead ==
    ASSUME NEW x, NEW y, NEW l, Touched(x, y, l), NEW b,
           ContactsOf(y, b) = ContactsOf(x, b) \cup {l},
           ~y[l].live
    PROVE  EpisodeCharge(y, b) = EpisodeCharge(x, b)
PROOF
  <1>1. /\ History(x) /\ History(y)
        /\ SameAt(x, y, Contacts(x) \ {l})
        /\ l \in Contacts(x) => (x[l].live => y[l].live)
    BY DEF Touched
  <1>2. ContactsOf(x, b) \subseteq Contacts(x)
    BY <1>1, EpisodesAre
  <1>3. LiveContacts(y, b) = LiveContacts(x, b)
    BY <1>1, <1>2 DEF LiveContacts, SameAt
  <1>4. l \notin LiveContacts(x, b)
    BY <1>1, <1>2 DEF LiveContacts
  <1>5. SameAt(x, y, LiveContacts(x, b))
    BY <1>1, <1>2, <1>4 DEF LiveContacts, SameAt
  <1>6. HardestSum(y, LiveContacts(x, b)) = HardestSum(x, LiveContacts(x, b))
    BY <1>5, HardestAgrees
  <1> QED BY <1>1, <1>3, <1>6, EpisodeIs

LEMMA ChargeOfNone ==
    ASSUME NEW y, History(y), NEW b, \A n \in ContactsOf(y, b) : ~y[n].live
    PROVE  EpisodeCharge(y, b) = 0
PROOF
  <1>1. LiveContacts(y, b) = {}
    BY DEF LiveContacts
  <1>2. IsHardest(y, {}, 0)
    BY DEF IsHardest
  <1>3. HardestSum(y, {}) = 0
    BY <1>2, HardestIs
  <1> QED BY <1>1, <1>3, EpisodeIs, ChargeIs

LEMMA ChargeOfBreak ==
    ASSUME NEW y, History(y), NEW b, NEW n \in ContactsOf(y, b),
           y[n].live, Sum(y, n) >= Disabling
    PROVE  EpisodeCharge(y, b) = Full
PROOF
  <1> DEFINE S == LiveContacts(y, b)
  <1>1. n \in S /\ S \in SUBSET (1..Len(y))
    BY EpisodeIs DEF LiveContacts
  <1> HIDE DEF S
  <1>2. IsHardest(y, S, HardestSum(y, S)) /\ HardestSum(y, S) \in Nat
    BY <1>1, HardestIs
  <1>3. Sum(y, n) <= HardestSum(y, S) /\ Sum(y, n) \in Nat
    BY <1>1, <1>2, SumIsNatural DEF IsHardest
  <1>4. HardestSum(y, S) >= Disabling
    BY <1>2, <1>3, RecoveryAssumption
  <1> QED BY <1>2, <1>4, EpisodeIs, ChargeIs DEF S

\* What a new episode adds to the whole.
LEMMA AmountsBegun ==
    ASSUME NEW x, History(x), NEW y, History(y), NEW l, l \notin Beginnings(x),
           Beginnings(y) = Beginnings(x) \cup {l},
           OthersSame(x, y, Beginnings(x))
    PROVE  /\ Total(y) = Total(x) + EpisodeCharge(y, l)
           /\ Cardinality(Presented(y)) = Cardinality(Presented(x))
                + (IF Shows(y, l) >= Presentation THEN 1 ELSE 0)
PROOF
  <1> DEFINE B == Beginnings(x)
  <1>1. /\ IsFiniteSet(B) /\ Total(x) \in Nat
        /\ \A b \in B : Charges(x)[b] = EpisodeCharge(x, b) /\ Charges(x)[b] \in Nat
        /\ \A b : b \in Presented(x) <=> b \in B /\ Shows(x, b) >= Presentation
        /\ IsFiniteSet(Presented(x)) /\ Cardinality(Presented(x)) \in Nat
    BY EpisodesAre, AmountsAre
  <1>2. /\ \A b \in B \cup {l} :
             Charges(y)[b] = EpisodeCharge(y, b) /\ Charges(y)[b] \in Nat
        /\ \A b : b \in Presented(y) <=>
             b \in B \cup {l} /\ Shows(y, b) >= Presentation
    BY AmountsAre
  <1> HIDE DEF B
  <1>3. \A b \in B : Charges(x)[b] \in Nat /\ Charges(x)[b] = Charges(y)[b]
    BY <1>1, <1>2 DEF OthersSame, B
  <1>4. SumFunctionOnSet(Charges(x), B) = SumFunctionOnSet(Charges(y), B)
    BY <1>1, <1>3, SumsAgree
  <1>5. SumFunctionOnSet(Charges(y), B \cup {l})
          = Charges(y)[l] + SumFunctionOnSet(Charges(y), B)
    BY <1>1, <1>2, SumWithOneMore DEF B
  <1>6. Total(y) = Total(x) + EpisodeCharge(y, l)
    <2>1. Total(x) = SumFunctionOnSet(Charges(x), B)
      BY DEF Total, B
    <2>2. Total(y) = SumFunctionOnSet(Charges(y), B \cup {l})
      BY DEF Total, B
    <2>3. EpisodeCharge(y, l) = Charges(y)[l] /\ Charges(y)[l] \in Nat
      BY <1>2
    <2> QED BY <1>1, <1>4, <1>5, <2>1, <2>2, <2>3
  <1>7. \A b \in B : Shows(y, b) = Shows(x, b)
    BY DEF OthersSame, B
  <1>8. l \notin Presented(x)
    BY <1>1 DEF B
  <1>9. CASE Shows(y, l) >= Presentation
    <2>1. \A b : b \in Presented(y) <=> b \in Presented(x) \cup {l}
      BY <1>1, <1>2, <1>7, <1>9
    <2>2. Presented(y) = Presented(x) \cup {l}
      BY <2>1
    <2>3. Cardinality(Presented(x) \cup {l}) = Cardinality(Presented(x)) + 1
      BY <1>1, <1>8, FS_AddElement
    <2> QED BY <1>6, <1>9, <2>2, <2>3
  <1>10. CASE ~(Shows(y, l) >= Presentation)
    <2>1. \A b : b \in Presented(y) <=> b \in Presented(x)
      BY <1>1, <1>2, <1>7, <1>10
    <2>2. Presented(y) = Presented(x)
      BY <2>1
    <2> QED BY <1>1, <1>6, <1>10, <2>2
  <1> QED BY <1>9, <1>10

\* And what one adds that goes on.
LEMMA AmountsRaised ==
    ASSUME NEW x, History(x), NEW y, History(y), NEW b, IsLast(x, b),
           Beginnings(y) = Beginnings(x),
           OthersSame(x, y, Beginnings(x) \ {b}), Shows(y, b) >= Shows(x, b)
    PROVE  /\ Total(y) + EpisodeCharge(x, b) = Total(x) + EpisodeCharge(y, b)
           /\ Cardinality(Presented(y)) = Cardinality(Presented(x))
                + (IF Shows(y, b) >= Presentation /\ ~(Shows(x, b) >= Presentation)
                     THEN 1 ELSE 0)
PROOF
  <1> DEFINE B == Beginnings(x)
             R == B \ {b}
  <1>0. Shows(x, b) \in Nat /\ Shows(y, b) \in Nat /\ Presentation \in Nat
    BY EpisodeIs, RecoveryAssumption
  <1>1. /\ IsFiniteSet(B) /\ Total(x) \in Nat /\ b \in B
        /\ \A n \in B : Charges(x)[n] = EpisodeCharge(x, n) /\ Charges(x)[n] \in Nat
        /\ \A n : n \in Presented(x) <=> n \in B /\ Shows(x, n) >= Presentation
        /\ IsFiniteSet(Presented(x)) /\ Cardinality(Presented(x)) \in Nat
    BY EpisodesAre, AmountsAre DEF IsLast
  <1>2. /\ \A n \in B :
             Charges(y)[n] = EpisodeCharge(y, n) /\ Charges(y)[n] \in Nat
        /\ \A n : n \in Presented(y) <=> n \in B /\ Shows(y, n) >= Presentation
    BY AmountsAre
  <1>3. \A n \in R : /\ Charges(x)[n] \in Nat /\ Charges(x)[n] = Charges(y)[n]
                     /\ Shows(y, n) = Shows(x, n)
    BY <1>1, <1>2 DEF OthersSame
  <1>4. IsFiniteSet(R) /\ b \notin R /\ R \cup {b} = B
    BY <1>1, FS_RemoveElement
  <1>5. Total(x) = SumFunctionOnSet(Charges(x), B)
        /\ Total(y) = SumFunctionOnSet(Charges(y), B)
    BY DEF Total
  <1> HIDE DEF R, B
  <1>6. /\ SumFunctionOnSet(Charges(x), R) = SumFunctionOnSet(Charges(y), R)
        /\ SumFunctionOnSet(Charges(x), R) \in Nat
    BY <1>3, <1>4, SumsAgree
  <1>7. /\ \A n \in R \cup {b} : Charges(x)[n] \in Nat
        /\ \A n \in R \cup {b} : Charges(y)[n] \in Nat
    BY <1>1, <1>2, <1>4
  <1>8. /\ SumFunctionOnSet(Charges(x), B)
             = Charges(x)[b] + SumFunctionOnSet(Charges(x), R)
        /\ SumFunctionOnSet(Charges(y), B)
             = Charges(y)[b] + SumFunctionOnSet(Charges(y), R)
    BY <1>4, <1>7, SumWithOneMore
  <1>9. Total(y) + EpisodeCharge(x, b) = Total(x) + EpisodeCharge(y, b)
    BY <1>1, <1>2, <1>5, <1>6, <1>8
  <1>10. \A n : n \in B <=> n \in R \/ n = b
    BY <1>4
  <1>11. CASE Shows(y, b) >= Presentation /\ ~(Shows(x, b) >= Presentation)
    <2>1. \A n : n \in Presented(y) <=> n \in Presented(x) \cup {b}
      BY <1>1, <1>2, <1>3, <1>10, <1>11
    <2>2. Presented(y) = Presented(x) \cup {b} /\ b \notin Presented(x)
      BY <1>1, <1>11, <2>1
    <2>3. Cardinality(Presented(x) \cup {b}) = Cardinality(Presented(x)) + 1
      BY <1>1, <2>2, FS_AddElement
    <2> QED BY <1>9, <1>11, <2>2, <2>3
  <1>12. CASE ~(Shows(y, b) >= Presentation /\ ~(Shows(x, b) >= Presentation))
    <2>0. Shows(y, b) >= Presentation <=> Shows(x, b) >= Presentation
      BY <1>0, <1>12
    <2>1. \A n : n \in Presented(y) <=> n \in Presented(x)
      BY <1>1, <1>2, <1>3, <1>10, <2>0
    <2>2. Presented(y) = Presented(x)
      BY <2>1
    <2> QED BY <1>1, <1>9, <1>12, <2>2
  <1> QED BY <1>11, <1>12

-----------------------------------------------------------------------------
(* What a car remembers of its history.                                    *)

Remembers(c, x) ==
    /\ Len(c.window) = Lesser(Len(x), Window + 1)
    /\ \A i \in 1..Len(c.window) :
         c.window[i] = x[Len(x) - Len(c.window) + i].sum
    /\ c.sum = Sum(x, Len(x))

\* For how long nothing has touched it.
CalmFor(c, x) ==
    /\ \A n \in Contacts(x) : n <= Len(x) - c.calm
    /\ c.calm < Window => Len(x) - c.calm \in Contacts(x)

\* What it shows of the last episode, while that goes on.
InEpisode(c, x) ==
    /\ c.calm = Window => c.episode = FALSE
    /\ \A b : IsLast(x, b) /\ c.calm < Window =>
         /\ c.episode = (ShownContacts(x, b) # {})
         /\ c.peak = Shows(x, b)
    /\ c.episode = FALSE => c.peak = 0
    /\ c.episode = TRUE => c.peak >= Noise /\ c.sum <= c.peak
    /\ c.shown = (c.peak >= Presentation)

\* It is charged for what it shows until it is disabled, and afterwards only
\* for what disabled it.
ChargedFor(c, x) ==
    /\ c.phase # "Disabled" =>
         /\ \A n \in 1..Len(x) : x[n].sum > 0 => x[n].live
         /\ c.peak < Disabling /\ c.charged = Charge(c.peak)
    /\ c.phase = "Disabled" /\ x[Len(x)].live =>
         Len(x) \in Contacts(x) /\ Sum(x, Len(x)) >= Disabling

Counted(c, x) ==
    /\ c.damage = Lesser(Full, Total(x))
    /\ c.events = Lesser(MaxEvents, Cardinality(Presented(x)))

Account(c, x) ==
    /\ History(x) /\ Remembers(c, x) /\ CalmFor(c, x) /\ InEpisode(c, x)
    /\ ChargedFor(c, x) /\ Counted(c, x)

\* What differs in the car only in how it drives.
SameAccount(c, d) ==
    /\ d.window = c.window /\ d.sum = c.sum /\ d.calm = c.calm
    /\ d.episode = c.episode /\ d.shown = c.shown /\ d.peak = c.peak
    /\ d.charged = c.charged /\ d.damage = c.damage /\ d.events = c.events
    /\ (d.phase = "Disabled") <=> (c.phase = "Disabled")

LEMMA AccountKept ==
    ASSUME NEW c, NEW d, NEW x, Account(c, x), SameAccount(c, d)
    PROVE  Account(d, x)
PROOF
  <1>1. Remembers(d, x) /\ CalmFor(d, x)
    BY DEF Account, SameAccount, Remembers, CalmFor
  <1>2. InEpisode(d, x)
    BY DEF Account, SameAccount, InEpisode
  <1>3. ChargedFor(d, x) /\ Counted(d, x)
    BY DEF Account, SameAccount, ChargedFor, Counted
  <1> QED BY <1>1, <1>2, <1>3 DEF Account

LEMMA SameAccountChains ==
    ASSUME NEW c, NEW d, NEW e, SameAccount(c, d), SameAccount(d, e)
    PROVE  SameAccount(c, e)
  BY DEF SameAccount

\* The sum of the window after a tick, and whether something touches the car.
NewSum(c, dt, blow) == Greater(0, c.sum + blow - RunOut(c.window, dt))

Touches(c, dt, blow) == blow > 0 /\ NewSum(c, dt, blow) >= Noise

\* What a car observes, by field.
Observes(c, dt, blow, o) ==
    /\ HitCar(o) /\ o.phase = c.phase
    /\ o.charged = c.charged /\ o.damage = c.damage
    /\ o.sum = NewSum(c, dt, blow)
    /\ o.calm = IF Touches(c, dt, blow) THEN 0 ELSE Lesser(Window, c.calm + dt)
    /\ o.episode = (c.episode \/ (Touches(c, dt, blow) /\
         (c.phase = "Disabled" => o.sum >= Reaction)))
    /\ o.peak = IF o.episode THEN Greater(c.peak, o.sum) ELSE c.peak
    /\ o.shown = (c.shown \/ (o.episode /\ o.peak >= Presentation))
    /\ o.events = IF o.shown /\ ~c.shown THEN Lesser(MaxEvents, c.events + 1)
                                        ELSE c.events

Refills(c, dt, blow, o) ==
    LET w == Slid(c.window, dt)
    IN  o.window = [w EXCEPT ![Len(w)] = w[Len(w)] + blow]

LEMMA ObservedAccount ==
    ASSUME NEW c, HitCar(c), NEW dt \in {0, 1}, NEW blow \in Nat,
           NEW o, o = Observed(c, dt, blow)
    PROVE  Observes(c, dt, blow, o) /\ Refills(c, dt, blow, o)
PROOF
  <1> DEFINE window   == Slid(c.window, dt)
             sum      == NewSum(c, dt, blow)
             contact  == Touches(c, dt, blow)
             reactive == contact /\ sum >= Reaction
             opens    == IF c.phase = "Disabled" THEN reactive ELSE contact
             episode  == c.episode \/ opens
             peak     == IF episode THEN Greater(c.peak, sum) ELSE c.peak
             shown    == c.shown \/ (episode /\ peak >= Presentation)
             filled   == [window EXCEPT ![Len(window)] = window[Len(window)] + blow]
             quiet    == IF reactive THEN 0 ELSE Lesser(Window, c.quiet + dt)
             calm     == IF contact THEN 0 ELSE Lesser(Window, c.calm + dt)
             events   == IF shown /\ ~c.shown
                           THEN Lesser(MaxEvents, c.events + 1) ELSE c.events
             d        == [ c EXCEPT !.window = filled, !.sum = sum,
                             !.episode = episode, !.peak = peak,
                             !.quiet = quiet, !.calm = calm, !.shown = shown,
                             !.events = events ]
  <1>1. c \in CarRecord
    BY DEF HitCar
  <1>2. o = d
    BY DEF Observed, NewSum, Touches
  <1>3. HitCar(o)
    BY ObservedCar
  <1>4. opens = (contact /\ (c.phase = "Disabled" => sum >= Reaction))
    BY DEF Touches
  <1>5. /\ episode = (c.episode \/ opens)
        /\ peak = IF episode THEN Greater(c.peak, sum) ELSE c.peak
        /\ shown = (c.shown \/ (episode /\ peak >= Presentation))
        /\ events = IF shown /\ ~c.shown THEN Lesser(MaxEvents, c.events + 1)
                                         ELSE c.events
    OBVIOUS
  <1> HIDE DEF window, sum, opens, episode, peak, shown, filled, quiet, events
  <1>6. /\ d.window = filled /\ d.sum = sum /\ d.episode = episode
        /\ d.peak = peak /\ d.calm = calm /\ d.shown = shown
        /\ d.events = events /\ d.phase = c.phase
        /\ d.charged = c.charged /\ d.damage = c.damage
    BY <1>1 DEF CarRecord
  <1> HIDE DEF d, calm
  <1>7. LET w == Slid(c.window, dt)
        IN  filled = [w EXCEPT ![Len(w)] = w[Len(w)] + blow]
    BY DEF filled, window
  <1>8. calm = IF contact THEN 0 ELSE Lesser(Window, c.calm + dt)
    BY DEF calm
  <1> HIDE DEF contact
  <1>9. /\ HitCar(o) /\ o.phase = c.phase
        /\ o.charged = c.charged /\ o.damage = c.damage
        /\ o.sum = sum
        /\ o.calm = IF contact THEN 0 ELSE Lesser(Window, c.calm + dt)
        /\ o.episode = (c.episode \/ (contact /\
             (c.phase = "Disabled" => o.sum >= Reaction)))
        /\ o.peak = IF o.episode THEN Greater(c.peak, o.sum) ELSE c.peak
        /\ o.shown = (c.shown \/ (o.episode /\ o.peak >= Presentation))
        /\ o.events = IF o.shown /\ ~c.shown
                        THEN Lesser(MaxEvents, c.events + 1) ELSE c.events
    BY <1>2, <1>3, <1>4, <1>5, <1>6, <1>8
  <1>10. Observes(c, dt, blow, o)
    BY <1>9 DEF Observes, sum, contact
  <1>11. Refills(c, dt, blow, o)
    BY <1>2, <1>6, <1>7 DEF Refills
  <1> QED BY <1>10, <1>11

\* The phases that a hit or a tick goes through leave all of that alone.
LEMMA AfterHitSame ==
    ASSUME NEW c, HitCar(c), c.phase # "Disabled"
    PROVE  SameAccount(c, AfterHit(c))
PROOF
  <1> DEFINE severity == IF c.phase = "Driving" THEN c.peak
                                                ELSE Greater(c.severity, c.peak)
             phase == IF c.phase \in {"Driving", "Recovering"} THEN "Settling"
                                                               ELSE c.phase
             hold == IF c.phase \in {"Driving", "Recovering"}
                       THEN Hold(severity)
                     ELSE IF c.phase = "Holding"
                       THEN c.hold + Hold(severity) - Hold(c.severity) ELSE c.hold
             d == [ c EXCEPT !.severity = severity, !.phase = phase, !.hold = hold ]
  <1>1. c \in CarRecord /\ phase # "Disabled"
    BY DEF HitCar
  <1>2. AfterHit(c) = d
    BY DEF AfterHit
  <1> HIDE DEF severity, phase, hold
  <1> QED BY <1>1, <1>2 DEF SameAccount, CarRecord

LEMMA ProgressedSame ==
    ASSUME NEW c, HitCar(c), c.phase # "Disabled", NEW dt, NEW settled
    PROVE  SameAccount(c, Progressed(c, dt, settled))
PROOF
  <1> DEFINE hold == Greater(0, c.hold - dt)
             p == IF settled THEN "Holding" ELSE c.phase
             q == IF hold = 0 /\ c.quiet >= Window THEN "Recovering" ELSE c.phase
  <1>1. c \in CarRecord
    BY DEF HitCar
  <1>2. \/ Progressed(c, dt, settled)
             = [c EXCEPT !.hold = Hold(c.severity), !.phase = p]
        \/ Progressed(c, dt, settled) = [c EXCEPT !.hold = hold, !.phase = q]
        \/ Progressed(c, dt, settled)
             = [c EXCEPT !.phase = "Settling", !.hold = Hold(c.severity)]
        \/ Progressed(c, dt, settled) = c
    <2>1. CASE c.phase = "Settling"
      BY <2>1 DEF Progressed
    <2>2. CASE c.phase = "Holding" /\ settled
      BY <2>2 DEF Progressed
    <2>3. CASE c.phase \in {"Holding", "Recovering"} /\ ~settled
      BY <2>3 DEF Progressed
    <2>4. CASE /\ c.phase # "Settling" /\ ~(c.phase = "Holding" /\ settled)
               /\ ~(c.phase \in {"Holding", "Recovering"} /\ ~settled)
      BY <2>4 DEF Progressed
    <2> QED BY <2>1, <2>2, <2>3, <2>4
  <1>3. p # "Disabled" /\ q # "Disabled"
    OBVIOUS
  <1> HIDE DEF p, q, hold
  <1>4. ASSUME NEW h, NEW r, r # "Disabled"
        PROVE  /\ SameAccount(c, [c EXCEPT !.hold = h, !.phase = r])
               /\ SameAccount(c, [c EXCEPT !.phase = r, !.hold = h])
    BY <1>1, <1>4 DEF SameAccount, CarRecord
  <1>5. /\ SameAccount(c, [c EXCEPT !.hold = Hold(c.severity), !.phase = p])
        /\ SameAccount(c, [c EXCEPT !.hold = hold, !.phase = q])
    BY <1>3, <1>4
  <1>6. SameAccount(c, [c EXCEPT !.phase = "Settling", !.hold = Hold(c.severity)])
    BY <1>4
  <1>7. SameAccount(c, c)
    BY DEF SameAccount
  <1> QED BY <1>2, <1>5, <1>6, <1>7

\* What the charge changes, and the end of an episode.
ChargeOutcome(c, d) ==
    /\ d.window = c.window /\ d.sum = c.sum /\ d.calm = c.calm
    /\ d.episode = c.episode /\ d.shown = c.shown
    /\ d.peak = c.peak /\ d.events = c.events /\ d.phase = c.phase
    /\ d.charged = IF c.episode THEN Charge(c.peak) ELSE c.charged
    /\ d.damage =
         IF c.episode
           THEN Lesser(c.damage + Greater(0, Charge(c.peak) - c.charged), Full)
           ELSE c.damage

LEMMA ChargedAccount ==
    ASSUME NEW c, HitCar(c)
    PROVE  ChargeOutcome(c, Charged(c))
PROOF
  <1> DEFINE charge == Charge(c.peak)
             damage == Lesser(c.damage + Greater(0, Charge(c.peak) - c.charged), Full)
             d == [c EXCEPT !.damage = damage, !.charged = charge]
  <1>1. c \in CarRecord
    BY DEF HitCar
  <1>2. CASE ~c.episode
    BY <1>2 DEF Charged, ChargeOutcome
  <1>3. CASE c.episode
    <2>1. Charged(c) = d
      BY <1>3 DEF Charged
    <2>2. charge = Charge(c.peak)
          /\ damage = Lesser(c.damage + Greater(0, Charge(c.peak) - c.charged), Full)
      OBVIOUS
    <2> HIDE DEF charge, damage
    <2>3. /\ d.window = c.window /\ d.sum = c.sum /\ d.calm = c.calm
          /\ d.episode = c.episode /\ d.shown = c.shown
          /\ d.peak = c.peak /\ d.events = c.events /\ d.phase = c.phase
          /\ d.charged = charge /\ d.damage = damage
      BY <1>1 DEF CarRecord
    <2> HIDE DEF d
    <2> QED BY <1>3, <2>1, <2>2, <2>3 DEF ChargeOutcome
  <1> QED BY <1>2, <1>3

Closes(c, blow) == (blow = 0 \/ c.sum < Noise) /\ c.calm >= Window

CloseOutcome(c, d, blow) ==
    /\ d.window = c.window /\ d.sum = c.sum /\ d.calm = c.calm
    /\ d.damage = c.damage /\ d.events = c.events /\ d.phase = c.phase
    /\ Closes(c, blow) => /\ d.episode = FALSE /\ d.shown = FALSE
                          /\ d.peak = 0 /\ d.charged = 0
    /\ ~Closes(c, blow) => d = c

LEMMA ClosedAccount ==
    ASSUME NEW c, HitCar(c), NEW blow
    PROVE  CloseOutcome(c, EpisodeClosed(c, blow), blow)
PROOF
  <1> DEFINE d == [ c EXCEPT !.episode = FALSE, !.shown = FALSE, !.peak = 0,
                             !.charged = 0 ]
  <1>1. c \in CarRecord
    BY DEF HitCar
  <1>2. EpisodeClosed(c, blow) = IF Closes(c, blow) THEN d ELSE c
    BY DEF EpisodeClosed, Closes
  <1>3. /\ d.window = c.window /\ d.sum = c.sum /\ d.calm = c.calm
        /\ d.damage = c.damage /\ d.events = c.events
        /\ d.phase = c.phase
        /\ d.episode = FALSE /\ d.shown = FALSE
        /\ d.peak = 0 /\ d.charged = 0
    BY <1>1 DEF CarRecord
  <1> HIDE DEF d
  <1> QED BY <1>2, <1>3 DEF CloseOutcome

\* What a tick makes of what the car observed, by field.
Breaks(o) == o.episode /\ o.peak >= Disabling

Outcome(c, o, t, blow) ==
    /\ t.window = o.window /\ t.sum = o.sum /\ t.calm = o.calm
    /\ t.events = o.events
    /\ (t.phase = "Disabled") <=> (c.phase = "Disabled" \/ Breaks(o))
    /\ t.damage =
         IF c.phase # "Disabled" /\ o.episode
           THEN Lesser(c.damage + Greater(0, Charge(o.peak) - c.charged), Full)
           ELSE c.damage
    /\ IF Closes(o, blow) /\ (c.phase = "Disabled" \/ ~Breaks(o))
         THEN /\ t.episode = FALSE /\ t.shown = FALSE
              /\ t.peak = 0 /\ t.charged = 0
         ELSE /\ t.episode = o.episode /\ t.shown = o.shown /\ t.peak = o.peak
              /\ c.phase # "Disabled" =>
                   t.charged = IF o.episode THEN Charge(o.peak) ELSE c.charged

LEMMA TickedAccount ==
    ASSUME NEW c, HitCar(c), NEW dt \in {0, 1}, NEW blow \in Nat,
           NEW settled \in BOOLEAN, NEW o, o = Observed(c, dt, blow),
           NEW t, t = Ticked(c, dt, blow, settled)
    PROVE  Outcome(c, o, t, blow)
PROOF
  <1>1. /\ HitCar(o) /\ o.phase = c.phase
        /\ o.charged = c.charged /\ o.damage = c.damage
    <2>1. Observes(c, dt, blow, o)
      BY ObservedAccount
    <2> QED BY <2>1 DEF Observes
  <1>2. CASE c.phase = "Disabled"
    <2>1. t = EpisodeClosed(o, blow)
      BY <1>2 DEF Ticked
    <2>2. /\ t.window = o.window /\ t.sum = o.sum /\ t.calm = o.calm
          /\ t.damage = o.damage /\ t.events = o.events
          /\ t.phase = o.phase
          /\ Closes(o, blow) => /\ t.episode = FALSE /\ t.shown = FALSE
                                /\ t.peak = 0 /\ t.charged = 0
          /\ ~Closes(o, blow) => t = o
      <3>1. CloseOutcome(o, EpisodeClosed(o, blow), blow)
        BY <1>1, ClosedAccount
      <3> QED BY <2>1, <3>1 DEF CloseOutcome
    <2> QED BY <1>1, <1>2, <2>2 DEF Outcome
  <1>3. CASE c.phase # "Disabled"
    <2> DEFINE q == Charged(o)
               a == IF blow > 0 /\ q.sum >= Reaction THEN AfterHit(q) ELSE q
               p == Progressed(a, dt, settled)
               e == EpisodeClosed(p, blow)
               b == [ q EXCEPT !.phase = "Disabled", !.hold = 0,
                               !.severity = Greater(q.severity, q.peak) ]
    <2>1. t = IF Breaks(q) THEN b ELSE e
      BY <1>3 DEF Ticked, Decided, Breaks
    <2>2. HitCar(q)
      BY <1>1, ChargedCar
    <2>3. /\ q.window = o.window /\ q.sum = o.sum /\ q.calm = o.calm
          /\ q.episode = o.episode /\ q.shown = o.shown
          /\ q.peak = o.peak /\ q.events = o.events /\ q.phase = o.phase
          /\ q.charged = IF o.episode THEN Charge(o.peak) ELSE o.charged
          /\ q.damage =
               IF o.episode
                 THEN Lesser(o.damage + Greater(0, Charge(o.peak) - o.charged), Full)
                 ELSE o.damage
      <3>1. ChargeOutcome(o, Charged(o))
        BY <1>1, ChargedAccount
      <3> QED BY <3>1 DEF ChargeOutcome
    <2> HIDE DEF q
    <2>4. q.phase # "Disabled" /\ (Breaks(q) <=> Breaks(o))
      BY <1>1, <1>3, <2>3 DEF Breaks
    <2>5. HitCar(a) /\ SameAccount(q, a)
      <3>1. HitCar(AfterHit(q)) /\ SameAccount(q, AfterHit(q))
        BY <2>2, <2>4, StoppedCar, AfterHitSame
      <3>2. SameAccount(q, q)
        BY DEF SameAccount
      <3> QED BY <2>2, <3>1, <3>2
    <2> HIDE DEF a
    <2>6. a.phase # "Disabled"
      BY <2>4, <2>5 DEF SameAccount
    <2>7. HitCar(p) /\ SameAccount(a, p)
      <3>1. NoPast \in PastRecord
        BY UnhitWaits
      <3>2. HitCar(p)
        BY <2>5, <2>6, <3>1, ProgressedCar
      <3> QED BY <2>5, <2>6, <3>2, ProgressedSame
    <2> HIDE DEF p
    <2>8. SameAccount(q, p)
      BY <2>5, <2>7, SameAccountChains
    <2>9. /\ e.window = p.window /\ e.sum = p.sum /\ e.calm = p.calm
          /\ e.damage = p.damage /\ e.events = p.events
          /\ e.phase = p.phase
          /\ Closes(p, blow) => /\ e.episode = FALSE /\ e.shown = FALSE
                                /\ e.peak = 0 /\ e.charged = 0
          /\ ~Closes(p, blow) => e = p
      <3>1. CloseOutcome(p, EpisodeClosed(p, blow), blow)
        BY <2>7, ClosedAccount
      <3> QED BY <3>1 DEF CloseOutcome
    <2> HIDE DEF e
    <2>10. Closes(p, blow) <=> Closes(o, blow)
      BY <2>3, <2>8 DEF Closes, SameAccount
    <2>11. CASE Breaks(o)
      <3>1. q \in CarRecord
        BY <2>2 DEF HitCar
      <3>2. /\ b.window = q.window /\ b.sum = q.sum /\ b.calm = q.calm
            /\ b.episode = q.episode /\ b.shown = q.shown /\ b.peak = q.peak
            /\ b.charged = q.charged /\ b.damage = q.damage
            /\ b.events = q.events /\ b.phase = "Disabled"
        BY <3>1 DEF CarRecord
      <3> HIDE DEF b
      <3>3. t = b
        BY <2>1, <2>4, <2>11
      <3> QED BY <1>1, <1>3, <2>3, <2>11, <3>2, <3>3 DEF Outcome
    <2>12. CASE ~Breaks(o)
      <3>1. t = e
        BY <2>1, <2>4, <2>12
      <3>2. /\ t.window = o.window /\ t.sum = o.sum /\ t.calm = o.calm
            /\ t.events = o.events /\ t.phase # "Disabled"
            /\ t.damage = q.damage
        BY <2>3, <2>4, <2>8, <2>9, <3>1 DEF SameAccount
      <3>3. CASE Closes(o, blow)
        BY <1>1, <1>3, <2>3, <2>9, <2>10, <2>12, <3>1, <3>2, <3>3
           DEF Outcome
      <3>4. CASE ~Closes(o, blow)
        <4>1. /\ t.episode = o.episode /\ t.shown = o.shown
              /\ t.peak = o.peak /\ t.charged = q.charged
          BY <2>3, <2>8, <2>9, <2>10, <3>1, <3>4 DEF SameAccount
        <4> QED BY <1>1, <1>3, <2>3, <2>12, <3>2, <3>4, <4>1 DEF Outcome
      <3> QED BY <3>3, <3>4
    <2> QED BY <2>11, <2>12
  <1> QED BY <1>2, <1>3

-----------------------------------------------------------------------------
(* A tick of a car, and of its history.                                    *)

\* The history of a car as in c is y instead of x, and nothing touches it.
IsSilent(c, x, y, o) ==
    /\ HitCar(c) /\ Account(c, x) /\ SameStory(x, y)
    /\ Remembers(o, y) /\ CalmFor(o, y)
    /\ o.sum <= c.sum \/ o.sum < Noise
    /\ c.phase # "Disabled" => \A n \in 1..Len(y) : y[n].sum > 0 => y[n].live
    /\ c.phase = "Disabled" /\ y[Len(y)].live =>
         Len(y) \in Contacts(y) /\ Sum(y, Len(y)) >= Disabling

\* The fields of a car, and what is known of the thresholds.
LEMMA CarIs ==
    ASSUME NEW c, HitCar(c)
    PROVE  /\ c.sum \in Nat /\ c.calm \in 0..Window /\ c.episode \in BOOLEAN
           /\ c.shown \in BOOLEAN /\ c.peak \in Nat /\ c.charged \in Nat
           /\ c.damage \in Nat /\ c.events \in Nat /\ c.window \in Seq(Nat)
           /\ c.window # <<>>
           /\ Window \in Nat \ {0} /\ Noise \in Nat \ {0}
           /\ Presentation \in Nat /\ Reaction \in Nat /\ Disabling \in Nat
           /\ Presentation > 0 /\ Disabling > 0 /\ Noise <= Reaction
           /\ Reaction < Disabling /\ MaxEvents \in Nat
PROOF
  <1>1. /\ c.sum \in Nat /\ c.calm \in 0..Window /\ c.episode \in BOOLEAN
        /\ c.shown \in BOOLEAN /\ c.peak \in Nat /\ c.charged \in Nat
        /\ c.damage \in Nat /\ c.events \in Nat /\ c.window \in Seq(Nat)
        /\ c.window # <<>>
    BY DEF HitCar, CarRecord
  <1> QED BY <1>1, RecoveryAssumption

LEMMA SilentAccount ==
    ASSUME NEW c, NEW x, NEW y, NEW o, IsSilent(c, x, y, o),
           NEW dt \in {0, 1}, NEW blow \in Nat,
           o = Observed(c, dt, blow), ~Touches(c, dt, blow),
           NEW t, Outcome(c, o, t, blow)
    PROVE  Account(t, y)
PROOF
  <1>1. /\ HitCar(c) /\ Account(c, x) /\ SameStory(x, y) /\ History(y)
        /\ Remembers(o, y) /\ CalmFor(o, y)
        /\ InEpisode(c, x) /\ ChargedFor(c, x) /\ Counted(c, x) /\ History(x)
        /\ o.sum <= c.sum \/ o.sum < Noise
    BY DEF IsSilent, Account, SameStory
  <1>2. /\ c.sum \in Nat /\ c.calm \in 0..Window /\ c.episode \in BOOLEAN
        /\ c.shown \in BOOLEAN /\ c.peak \in Nat /\ c.charged \in Nat
        /\ c.damage \in Nat /\ c.events \in Nat
        /\ Window \in Nat \ {0} /\ Noise \in Nat \ {0}
        /\ Presentation \in Nat /\ Reaction \in Nat /\ Disabling \in Nat
        /\ Presentation > 0 /\ Disabling > 0
    BY <1>1, CarIs
  <1>3. /\ HitCar(o) /\ o.phase = c.phase
        /\ o.charged = c.charged /\ o.damage = c.damage
        /\ o.sum = NewSum(c, dt, blow)
        /\ o.calm = Lesser(Window, c.calm + dt)
        /\ o.episode = c.episode
        /\ o.peak = IF o.episode THEN Greater(c.peak, o.sum) ELSE c.peak
        /\ o.shown = (c.shown \/ (o.episode /\ o.peak >= Presentation))
        /\ o.events = IF o.shown /\ ~c.shown
                        THEN Lesser(MaxEvents, c.events + 1) ELSE c.events
    <2>1. Observes(c, dt, blow, o)
      BY <1>1, ObservedAccount
    <2> QED BY <1>2, <2>1 DEF Observes
  <1>4. o.sum \in Nat /\ o.calm \in 0..Window
    BY <1>3, CarIs
  <1>5. o.peak = c.peak /\ c.shown = (c.peak >= Presentation)
    BY <1>1, <1>2, <1>3, <1>4 DEF InEpisode, Greater
  <1>6. o.shown = c.shown /\ o.events = c.events
    BY <1>2, <1>3, <1>5
  <1>7. c.phase # "Disabled" => ~Breaks(o) /\ c.charged = Charge(c.peak)
    BY <1>1, <1>2, <1>5 DEF ChargedFor, Breaks
  <1>8. /\ t.window = o.window /\ t.sum = o.sum /\ t.calm = o.calm
        /\ t.events = c.events
        /\ (t.phase = "Disabled") <=> (c.phase = "Disabled")
    BY <1>6, <1>7 DEF Outcome
  <1>9. t.damage = c.damage
    <2>1. CASE c.phase # "Disabled" /\ o.episode
      <3>1. t.damage = Lesser(c.damage + Greater(0, Charge(c.peak) - c.charged), Full)
        BY <1>5, <2>1 DEF Outcome
      <3>2. Charge(c.peak) - c.charged = 0
        BY <1>2, <1>7, <2>1
      <3>3. c.damage <= Full /\ Full \in Nat
        BY <1>1, ChargeIs, AmountsAre DEF Counted, Lesser
      <3> QED BY <1>2, <3>1, <3>2, <3>3 DEF Lesser, Greater
    <2>2. CASE ~(c.phase # "Disabled" /\ o.episode)
      BY <2>2 DEF Outcome
    <2> QED BY <2>1, <2>2
  <1>10. Closes(o, blow) <=> o.calm = Window
    <2>1. blow = 0 \/ o.sum < Noise
      BY <1>2, <1>3, <1>4 DEF Touches
    <2> QED BY <1>2, <1>4, <2>1 DEF Closes
  <1>11. /\ Beginnings(y) = Beginnings(x)
         /\ \A b : /\ ShownContacts(y, b) = ShownContacts(x, b)
                   /\ Shows(y, b) = Shows(x, b)
         /\ Total(y) = Total(x) /\ Presented(y) = Presented(x)
    BY <1>1, StorySame
  <1>12. IF o.calm = Window
           THEN /\ t.episode = FALSE /\ t.shown = FALSE
                /\ t.peak = 0 /\ t.charged = 0
           ELSE /\ t.episode = c.episode /\ t.shown = c.shown
                /\ t.peak = c.peak
                /\ c.phase # "Disabled" => t.charged = c.charged
    <2>1. CASE o.calm = Window
      BY <1>7, <1>10, <2>1 DEF Outcome
    <2>2. CASE o.calm # Window
      BY <1>3, <1>5, <1>6, <1>7, <1>10, <2>2 DEF Outcome
    <2> QED BY <2>1, <2>2
  <1>13. Remembers(t, y) /\ CalmFor(t, y)
    BY <1>1, <1>8 DEF Remembers, CalmFor
  <1>14. Counted(t, y)
    BY <1>1, <1>8, <1>9, <1>11 DEF Counted
  <1>15. InEpisode(t, y)
    <2>1. CASE o.calm = Window
      <3>1. t.calm = Window /\ t.episode = FALSE /\ t.shown = FALSE /\ t.peak = 0
        BY <1>8, <1>12, <2>1
      <3>2. ~(t.calm < Window) /\ ~(t.peak >= Presentation)
        BY <1>2, <3>1
      <3>3. t.episode # TRUE
        BY <3>1
      <3>4. t.shown = (t.peak >= Presentation)
        <4> DEFINE late == t.peak >= Presentation
        <4>1. late = FALSE
          BY <3>2
        <4> HIDE DEF late
        <4>2. t.shown = late
          BY <3>1, <4>1
        <4> QED BY <4>2 DEF late
      <3> QED BY <3>1, <3>2, <3>3, <3>4 DEF InEpisode
    <2>2. CASE o.calm # Window
      <3>1. t.calm < Window /\ c.calm < Window /\ t.calm # Window
        BY <1>2, <1>3, <1>4, <1>8, <2>2 DEF Lesser
      <3>2. t.episode = c.episode /\ t.shown = c.shown /\ t.peak = c.peak
        BY <1>12, <2>2
      <3>3. \A b : IsLast(y, b) =>
              /\ t.episode = (ShownContacts(y, b) # {})
              /\ t.peak = Shows(y, b)
        BY <1>1, <1>11, <3>1, <3>2 DEF InEpisode, IsLast
      <3>4. /\ t.episode = FALSE => t.peak = 0
            /\ t.episode = TRUE => t.peak >= Noise /\ t.sum <= t.peak
        BY <1>1, <1>2, <1>4, <1>8, <3>2 DEF InEpisode
      <3> QED BY <1>5, <3>1, <3>2, <3>3, <3>4 DEF InEpisode
    <2> QED BY <2>1, <2>2
  <1>16. ChargedFor(t, y)
    <2>1. ASSUME t.phase # "Disabled"
          PROVE  t.peak < Disabling /\ t.charged = Charge(t.peak)
      <3>1. c.phase # "Disabled" /\ c.peak < Disabling
        BY <1>1, <1>8, <2>1 DEF ChargedFor
      <3> QED BY <1>2, <1>7, <1>12, <3>1, ChargeIs
    <2> QED BY <1>8, <2>1 DEF ChargedFor, IsSilent
  <1> QED BY <1>1, <1>13, <1>14, <1>15, <1>16 DEF Account

\* The history of a car as in c is y instead of x, in whose last tick
\* something touches it, which it observes as in o.
IsTouched(c, x, y, o) ==
    /\ HitCar(c) /\ Account(c, x) /\ Touched(x, y, Len(y))
    /\ Len(x) = Len(y) /\ Remembers(o, y)
    /\ y[Len(y)].live = (x[Len(x)].live \/ c.phase # "Disabled")
    /\ \A k \in 1..Len(y) : k # Len(y) => y[k] = x[k]

\* The contact begins an episode, or joins the last one.
Begins(x, y, b) ==
    /\ b = Len(y) /\ b \notin Beginnings(x) /\ b \notin Contacts(x)
    /\ Beginnings(y) = Beginnings(x) \cup {b}
    /\ ContactsOf(y, b) = {b} /\ OthersSame(x, y, Beginnings(x))

Joins(x, y, b) ==
    /\ IsLast(x, b) /\ Beginnings(y) = Beginnings(x)
    /\ ContactsOf(y, b) = ContactsOf(x, b) \cup {Len(y)}
    /\ OthersSame(x, y, Beginnings(x) \ {b})

\* What the car observes is what the last episode then shows.
Observing(c, x, y, o, b) ==
    /\ IsLast(y, b) /\ Len(y) \in ContactsOf(y, b)
    /\ o.episode = (ShownContacts(y, b) # {}) /\ o.peak = Shows(y, b)
    /\ \/ Begins(x, y, b) /\ c.episode = FALSE /\ c.peak = 0
       \/ Joins(x, y, b) /\ c.peak = Shows(x, b)

LEMMA TouchObserved ==
    ASSUME NEW c, NEW x, NEW y, NEW o, IsTouched(c, x, y, o),
           NEW dt \in {0, 1}, NEW blow \in Nat,
           Observes(c, dt, blow, o), Touches(c, dt, blow)
    PROVE  \E b : Observing(c, x, y, o, b)
PROOF
  <1> DEFINE l == Len(y)
  <1>1. /\ HitCar(c) /\ History(x) /\ Touched(x, y, l) /\ History(y)
        /\ Len(x) = l /\ Remembers(o, y) /\ CalmFor(c, x)
        /\ InEpisode(c, x) /\ ChargedFor(c, x)
        /\ y[l].live = (x[l].live \/ c.phase # "Disabled")
    BY DEF IsTouched, Account, Touched
  <1>2. /\ c.sum \in Nat /\ c.calm \in 0..Window /\ c.episode \in BOOLEAN
        /\ c.peak \in Nat
        /\ Window \in Nat \ {0} /\ Reaction \in Nat /\ Disabling \in Nat
        /\ Reaction < Disabling
    BY <1>1, CarIs
  <1>3. /\ o.sum = Sum(y, l) /\ o.sum \in Nat /\ Sum(y, l) \in Nat
        /\ o.episode \in BOOLEAN
        /\ o.episode = (c.episode \/ (c.phase = "Disabled" => o.sum >= Reaction))
        /\ o.peak = IF o.episode THEN Greater(c.peak, o.sum) ELSE c.peak
    <2>1. HitCar(o)
      BY DEF Observes
    <2>2. o.episode \in BOOLEAN /\ o.sum \in Nat
      BY <2>1, CarIs
    <2>3. o.sum = Sum(y, l)
      BY <1>1 DEF Remembers
    <2> QED BY <2>2, <2>3 DEF Observes
  <1>4. /\ l \in Nat \ {0} /\ l \in 1..l /\ x[l].live \in BOOLEAN
    BY <1>1, HistoryIs
  <1>5. (c.phase = "Disabled" => o.sum >= Reaction) <=> Opens(y, l)
    <2>1. c.phase = "Disabled" /\ x[l].live => o.sum >= Reaction
      <3>1. l \in Contacts(x) => Sum(x, l) <= Sum(y, l)
        BY <1>1 DEF Touched
      <3>2. Sum(x, l) \in Nat
        BY <1>1, <1>4, SumIsNatural
      <3>3. c.phase = "Disabled" /\ x[l].live =>
              l \in Contacts(x) /\ Sum(x, l) >= Disabling
        BY <1>1 DEF ChargedFor
      <3> QED BY <1>2, <1>3, <3>1, <3>2, <3>3
    <2> QED BY <1>1, <1>3, <1>4, <2>1 DEF Opens
  <1>6. c.episode = FALSE => c.peak = 0
    BY <1>1 DEF InEpisode
  <1>7. l \in Contacts(y)
    BY <1>1, TouchedIs
  <1>8. CASE c.calm = Window
    <2>1. \A n \in Contacts(x) : n <= l - Window
      BY <1>1, <1>8 DEF CalmFor
    <2>2. /\ l \notin Contacts(x) /\ l \notin Beginnings(x)
          /\ Beginnings(y) = Beginnings(x) \cup {l} /\ IsLast(y, l)
          /\ ContactsOf(y, l) = {l} /\ OthersSame(x, y, Beginnings(x))
      BY <1>1, <2>1, StoryBegun
    <2>3. c.episode = FALSE /\ c.peak = 0
      BY <1>1, <1>6, <1>8 DEF InEpisode
    <2>4. /\ (ShownContacts(y, l) # {}) <=> Opens(y, l)
          /\ Shows(y, l) = IF Opens(y, l) THEN Sum(y, l) ELSE 0
      BY <1>1, <1>4, <2>2, ShowsBegin
    <2>5. o.episode <=> Opens(y, l)
      BY <1>3, <1>5, <2>3
    <2>6. o.episode = (ShownContacts(y, l) # {})
      BY <1>3, <2>4, <2>5
    <2>7. o.peak = Shows(y, l)
      BY <1>3, <2>3, <2>4, <2>5 DEF Greater
    <2>8. Begins(x, y, l)
      BY <2>2 DEF Begins
    <2>9. Observing(c, x, y, o, l)
      BY <2>2, <2>3, <2>6, <2>7, <2>8 DEF Observing
    <2> QED BY <2>9
  <1>9. CASE c.calm < Window
    <2> DEFINE j == l - c.calm
    <2>1. j \in Contacts(x) /\ j > l - Window
      BY <1>1, <1>2, <1>4, <1>9 DEF CalmFor
    <2> HIDE DEF j
    <2>2. PICK b : IsLast(x, b)
      BY <1>1, <2>1, LastExists
    <2>3. /\ Beginnings(y) = Beginnings(x) /\ IsLast(y, b)
          /\ ContactsOf(y, b) = ContactsOf(x, b) \cup {l}
          /\ OthersSame(x, y, Beginnings(x) \ {b})
      BY <1>1, <2>1, <2>2, StoryJoined
    <2>4. /\ c.episode = (ShownContacts(x, b) # {}) /\ c.peak = Shows(x, b)
      BY <1>1, <1>9, <2>2 DEF InEpisode
    <2> DEFINE shown == ShownContacts(x, b) # {} \/ Opens(y, l)
    <2>5. /\ (ShownContacts(y, b) # {}) <=> shown
          /\ shown => Shows(y, b) = Greater(Shows(x, b), Sum(y, l))
          /\ ~shown => Shows(y, b) = 0
      BY <1>1, <2>3, ShowsGrow
    <2>6. o.episode <=> shown
      BY <1>3, <1>5, <2>4
    <2> HIDE DEF shown
    <2>7. o.episode = (ShownContacts(y, b) # {})
      BY <1>3, <2>5, <2>6
    <2>8. o.peak = Shows(y, b)
      <3>1. CASE shown
        BY <1>3, <2>4, <2>5, <2>6, <3>1
      <3>2. CASE ~shown
        <4>1. c.episode = FALSE
          BY <1>2, <1>3, <2>6, <3>2
        <4> QED BY <1>3, <1>6, <2>5, <2>6, <3>2, <4>1
      <3> QED BY <3>1, <3>2
    <2>9. Joins(x, y, b)
      BY <2>2, <2>3 DEF Joins
    <2>10. Observing(c, x, y, o, b)
      BY <2>3, <2>4, <2>7, <2>8, <2>9 DEF Observing
    <2> QED BY <2>10
  <1> QED BY <1>2, <1>8, <1>9

\* What that adds to the events and to the damage.
LEMMA TouchEvents ==
    ASSUME NEW c, NEW x, NEW y, NEW o, IsTouched(c, x, y, o),
           NEW dt \in {0, 1}, NEW blow \in Nat, Observes(c, dt, blow, o),
           NEW b, Observing(c, x, y, o, b)
    PROVE  /\ o.shown = (o.peak >= Presentation)
           /\ o.peak >= c.peak
           /\ o.events = Lesser(MaxEvents, Cardinality(Presented(y)))
PROOF
  <1>1. /\ HitCar(c) /\ History(x) /\ History(y)
        /\ InEpisode(c, x) /\ Counted(c, x)
    BY DEF IsTouched, Account, Touched
  <1>2. /\ c.shown \in BOOLEAN /\ c.peak \in Nat /\ c.events \in Nat
        /\ Presentation \in Nat /\ Presentation > 0 /\ MaxEvents \in Nat
    BY <1>1, CarIs
  <1>3. /\ o.sum \in Nat /\ o.peak \in Nat /\ o.shown \in BOOLEAN
        /\ o.peak = IF o.episode THEN Greater(c.peak, o.sum) ELSE c.peak
        /\ o.shown = (c.shown \/ (o.episode /\ o.peak >= Presentation))
        /\ o.events = IF o.shown /\ ~c.shown
                        THEN Lesser(MaxEvents, c.events + 1) ELSE c.events
    <2>1. HitCar(o)
      BY DEF Observes
    <2>2. o.sum \in Nat /\ o.peak \in Nat /\ o.shown \in BOOLEAN
      BY <2>1, CarIs
    <2> QED BY <2>2 DEF Observes
  <1>4. o.peak >= c.peak
    BY <1>2, <1>3 DEF Greater
  <1>5. c.shown <=> c.peak >= Presentation
    BY <1>1 DEF InEpisode
  <1>6. o.shown <=> o.peak >= Presentation
    <2>1. c.shown => o.peak >= Presentation
      BY <1>2, <1>3, <1>4, <1>5
    <2>2. o.shown <=> c.shown \/ (o.episode /\ o.peak >= Presentation)
      BY <1>3
    <2>3. CASE o.episode
      BY <2>1, <2>2, <2>3
    <2>4. CASE ~o.episode
      <3>1. o.peak = c.peak
        BY <1>3, <2>4
      <3> QED BY <1>5, <2>2, <2>4, <3>1
    <2> QED BY <2>3, <2>4
  <1>7. c.events = Lesser(MaxEvents, Cardinality(Presented(x)))
        /\ Cardinality(Presented(x)) \in Nat
    BY <1>1, AmountsAre DEF Counted
  <1>8. Cardinality(Presented(y)) = Cardinality(Presented(x))
          + (IF o.peak >= Presentation /\ ~(c.peak >= Presentation) THEN 1 ELSE 0)
    <2>1. o.peak = Shows(y, b)
      BY DEF Observing
    <2>2. CASE Begins(x, y, b) /\ c.peak = 0
      <3>1. /\ b \notin Beginnings(x)
            /\ Beginnings(y) = Beginnings(x) \cup {b}
            /\ OthersSame(x, y, Beginnings(x))
        BY <2>2 DEF Begins
      <3>2. Cardinality(Presented(y)) = Cardinality(Presented(x))
              + (IF Shows(y, b) >= Presentation THEN 1 ELSE 0)
        BY <1>1, <3>1, AmountsBegun
      <3>3. ~(c.peak >= Presentation)
        BY <1>2, <2>2
      <3> QED BY <2>1, <3>2, <3>3
    <2>3. CASE Joins(x, y, b) /\ c.peak = Shows(x, b)
      <3>1. /\ IsLast(x, b) /\ Beginnings(y) = Beginnings(x)
            /\ OthersSame(x, y, Beginnings(x) \ {b})
        BY <2>3 DEF Joins
      <3>2. Shows(y, b) >= Shows(x, b)
        BY <1>4, <2>1, <2>3
      <3>3. Cardinality(Presented(y)) = Cardinality(Presented(x))
              + (IF Shows(y, b) >= Presentation /\ ~(Shows(x, b) >= Presentation)
                   THEN 1 ELSE 0)
        BY <1>1, <3>1, <3>2, AmountsRaised
      <3> QED BY <2>1, <2>3, <3>3
    <2> QED BY <2>2, <2>3 DEF Observing
  <1>9. o.events = Lesser(MaxEvents, Cardinality(Presented(y)))
    BY <1>2, <1>3, <1>5, <1>6, <1>7, <1>8 DEF Lesser
  <1>10. o.shown = (o.peak >= Presentation)
    <2> DEFINE late == o.peak >= Presentation
    <2>1. late \in BOOLEAN /\ (o.shown <=> late)
      BY <1>6
    <2> HIDE DEF late
    <2>2. o.shown = late
      BY <1>3, <2>1
    <2> QED BY <2>2 DEF late
  <1> QED BY <1>4, <1>9, <1>10

LEMMA TouchDamages ==
    ASSUME NEW c, NEW x, NEW y, NEW o, IsTouched(c, x, y, o),
           NEW dt \in {0, 1}, NEW blow \in Nat,
           Observes(c, dt, blow, o), Touches(c, dt, blow),
           NEW b, Observing(c, x, y, o, b),
           NEW t, Outcome(c, o, t, blow)
    PROVE  t.damage = Lesser(Full, Total(y))
PROOF
  <1> DEFINE l == Len(y)
  <1>1. /\ HitCar(c) /\ History(x) /\ History(y) /\ Touched(x, y, l)
        /\ Len(x) = l /\ ChargedFor(c, x) /\ Counted(c, x)
        /\ y[l].live = (x[l].live \/ c.phase # "Disabled")
        /\ \A k \in 1..l : k # l => y[k] = x[k]
    BY DEF IsTouched, Account, Touched
  <1>2. /\ c.peak \in Nat /\ c.damage \in Nat /\ o.peak \in Nat
        /\ o.peak = Shows(y, b) /\ o.peak >= c.peak
        /\ Disabling \in Nat
    <2>1. HitCar(o)
      BY DEF Observes
    <2>2. o.peak >= c.peak
      BY TouchEvents
    <2> QED BY <1>1, <2>1, <2>2, CarIs DEF Observing
  <1>3. /\ Full \in Nat /\ Charge(0) = 0
        /\ Charge(c.peak) \in Nat /\ Charge(o.peak) \in Nat
        /\ Charge(c.peak) <= Charge(o.peak)
    BY <1>2, ChargeIs
  <1>4. /\ Total(x) \in Nat /\ Total(y) \in Nat
        /\ c.damage = Lesser(Full, Total(x))
        /\ EpisodeCharge(x, b) \in Nat /\ EpisodeCharge(y, b) \in Nat
        /\ b \in Beginnings(x) => Total(x) >= EpisodeCharge(x, b)
        /\ b \in Beginnings(y) => Total(y) >= EpisodeCharge(y, b)
    BY <1>1, EpisodeIs, AmountsAre DEF Counted
  <1>5. Begins(x, y, b) => Total(y) = Total(x) + EpisodeCharge(y, b)
    <2>1. ASSUME Begins(x, y, b)
          PROVE  /\ b \notin Beginnings(x)
                 /\ Beginnings(y) = Beginnings(x) \cup {b}
                 /\ OthersSame(x, y, Beginnings(x))
      BY <2>1 DEF Begins
    <2>2. ASSUME Begins(x, y, b)
          PROVE  Total(y) = Total(x) + EpisodeCharge(y, b)
      BY <1>1, <2>1, <2>2, AmountsBegun
    <2> QED BY <2>2
  <1>6. Joins(x, y, b) /\ c.peak = Shows(x, b) =>
          Total(y) + EpisodeCharge(x, b) = Total(x) + EpisodeCharge(y, b)
    <2>1. ASSUME Joins(x, y, b), c.peak = Shows(x, b)
          PROVE  Total(y) + EpisodeCharge(x, b) = Total(x) + EpisodeCharge(y, b)
      <3>1. /\ IsLast(x, b) /\ Beginnings(y) = Beginnings(x)
            /\ OthersSame(x, y, Beginnings(x) \ {b})
        BY <2>1 DEF Joins
      <3>2. Shows(y, b) >= Shows(x, b)
        BY <1>2, <2>1
      <3> QED BY <1>1, <3>1, <3>2, AmountsRaised
    <2> QED BY <2>1
  <1>7. \/ Begins(x, y, b) /\ c.peak = 0
        \/ Joins(x, y, b) /\ c.peak = Shows(x, b)
    BY DEF Observing
  <1>8. l \in ContactsOf(y, b) /\ b \in Beginnings(y)
    BY DEF Observing, IsLast
  <1>9. CASE c.phase # "Disabled"
    <2>1. /\ \A n \in 1..l : x[n].sum > 0 => x[n].live
          /\ c.charged = Charge(c.peak)
      BY <1>1, <1>9 DEF ChargedFor
    <2>2. \A n \in 1..l : y[n].sum > 0 => y[n].live
      BY <1>1, <1>9, <2>1
    <2>3. EpisodeCharge(y, b) = Charge(o.peak)
      <3>1. \A n \in ContactsOf(y, b) : n \in 1..l /\ y[n].sum > 0
        BY <1>1, EpisodesAre DEF Contacts, IsContact
      <3>2. \A n \in ContactsOf(y, b) : y[n].live
        BY <2>2, <3>1
      <3> QED BY <1>1, <1>2, <3>2, EpisodeAllLive
    <2>4. EpisodeCharge(x, b) = Charge(Shows(x, b))
      <3>1. \A n \in ContactsOf(x, b) : n \in 1..l /\ x[n].sum > 0
        BY <1>1, EpisodesAre DEF Contacts, IsContact
      <3>2. \A n \in ContactsOf(x, b) : x[n].live
        BY <2>1, <3>1
      <3> QED BY <1>1, <3>2, EpisodeAllLive
    <2>5. Total(y) = Total(x) + (Charge(o.peak) - Charge(c.peak))
      BY <1>3, <1>4, <1>5, <1>6, <1>7, <2>3, <2>4
    <2>6. o.episode
      BY <1>9 DEF Observes
    <2>7. t.damage = Lesser(c.damage + Greater(0, Charge(o.peak) - c.charged), Full)
      BY <1>9, <2>6 DEF Outcome
    <2>8. Greater(0, Charge(o.peak) - c.charged) = Charge(o.peak) - Charge(c.peak)
      BY <1>3, <2>1 DEF Greater
    <2> QED BY <1>2, <1>3, <1>4, <2>5, <2>7, <2>8 DEF Lesser
  <1>10. CASE c.phase = "Disabled"
    <2>1. t.damage = c.damage
      BY <1>10 DEF Outcome
    <2>2. CASE ~y[l].live
      <3>1. Begins(x, y, b) => EpisodeCharge(y, b) = 0
        <4>1. ASSUME Begins(x, y, b) PROVE EpisodeCharge(y, b) = 0
          <5>1. \A n \in ContactsOf(y, b) : ~y[n].live
            BY <2>2, <4>1 DEF Begins
          <5> QED BY <1>1, <5>1, ChargeOfNone
        <4> QED BY <4>1
      <3>2. Joins(x, y, b) => EpisodeCharge(y, b) = EpisodeCharge(x, b)
        <4>1. ASSUME Joins(x, y, b)
              PROVE  EpisodeCharge(y, b) = EpisodeCharge(x, b)
          <5>1. ContactsOf(y, b) = ContactsOf(x, b) \cup {l}
            BY <4>1 DEF Joins
          <5> QED BY <1>1, <2>2, <5>1, ChargeOfDead
        <4> QED BY <4>1
      <3> QED BY <1>4, <1>5, <1>6, <1>7, <2>1, <3>1, <3>2
    <2>3. CASE y[l].live
      <3>1. x[l].live
        BY <1>1, <1>10, <2>3
      <3>2. l \in Contacts(x) /\ Sum(x, l) >= Disabling
        BY <1>1, <1>10, <3>1 DEF ChargedFor
      <3>3. Sum(y, l) >= Disabling
        <4>1. Sum(x, l) <= Sum(y, l) /\ Sum(y, l) \in Nat
          BY <1>1, <3>2 DEF Touched
        <4>2. l \in 1..l
          BY <1>1, HistoryIs
        <4>3. Sum(x, l) \in Nat
          BY <1>1, <4>2, SumIsNatural
        <4> QED BY <1>2, <3>2, <4>1, <4>3
      <3>4. EpisodeCharge(y, b) = Full
        BY <1>1, <1>8, <2>3, <3>3, ChargeOfBreak
      <3>5. Joins(x, y, b) /\ c.peak = Shows(x, b)
        BY <1>7, <3>2 DEF Begins
      <3>6. l \in ContactsOf(x, b)
        <4>1. IsLast(x, b) /\ b \in Beginnings(x) /\ \A k \in Beginnings(x) : k <= b
          BY <3>5 DEF Joins, IsLast
        <4>2. l >= b
          BY <1>1, <1>8, EpisodesAre
        <4> QED BY <1>1, <3>2, <4>1, <4>2, EpisodesAre
      <3>7. EpisodeCharge(x, b) = Full
        BY <1>1, <3>1, <3>2, <3>6, ChargeOfBreak
      <3> QED BY <1>4, <1>6, <2>1, <3>4, <3>5, <3>7
    <2> QED BY <2>2, <2>3
  <1> QED BY <1>9, <1>10

LEMMA TouchedAccount ==
    ASSUME NEW c, NEW x, NEW y, NEW o, IsTouched(c, x, y, o),
           NEW dt \in {0, 1}, NEW blow \in Nat,
           o = Observed(c, dt, blow), Touches(c, dt, blow),
           NEW t, Outcome(c, o, t, blow)
    PROVE  Account(t, y)
PROOF
  <1> DEFINE l == Len(y)
  <1>1. /\ HitCar(c) /\ History(x) /\ History(y) /\ Touched(x, y, l)
        /\ Len(x) = l /\ ChargedFor(c, x) /\ InEpisode(c, x)
        /\ y[l].live = (x[l].live \/ c.phase # "Disabled")
        /\ \A k \in 1..l : k # l => y[k] = x[k]
        /\ Remembers(o, y)
    BY DEF IsTouched, Account, Touched
  <1>2. Observes(c, dt, blow, o)
    BY <1>1, ObservedAccount
  <1>3. PICK b : Observing(c, x, y, o, b)
    BY <1>2, TouchObserved
  <1>4. t.damage = Lesser(Full, Total(y))
    BY <1>2, <1>3, TouchDamages
  <1>5. /\ o.shown = (o.peak >= Presentation) /\ o.peak >= c.peak
        /\ o.events = Lesser(MaxEvents, Cardinality(Presented(y)))
    BY <1>2, <1>3, TouchEvents
  <1>6. /\ c.sum \in Nat /\ c.peak \in Nat /\ c.episode \in BOOLEAN
        /\ Window \in Nat \ {0} /\ Noise \in Nat \ {0}
        /\ Disabling \in Nat /\ Reaction \in Nat /\ Noise <= Reaction
    BY <1>1, CarIs
  <1>7. /\ o.sum \in Nat /\ o.peak \in Nat /\ o.episode \in BOOLEAN
        /\ o.sum >= Noise /\ o.sum = Sum(y, l) /\ o.calm = 0
        /\ o.peak = IF o.episode THEN Greater(c.peak, o.sum) ELSE c.peak
        /\ c.phase # "Disabled" => o.episode
        /\ o.episode = FALSE => c.episode = FALSE
        /\ o.charged = c.charged
    <2>1. HitCar(o)
      BY <1>2 DEF Observes
    <2>2. o.sum \in Nat /\ o.peak \in Nat /\ o.episode \in BOOLEAN
      BY <2>1, CarIs
    <2>3. o.sum = Sum(y, l)
      BY <1>1 DEF Remembers
    <2>4. o.sum >= Noise
      BY <1>2 DEF Observes, Touches
    <2>5. /\ o.calm = 0 /\ o.charged = c.charged
          /\ o.peak = IF o.episode THEN Greater(c.peak, o.sum) ELSE c.peak
          /\ o.episode = (c.episode \/ (c.phase = "Disabled" => o.sum >= Reaction))
      BY <1>2 DEF Observes
    <2>6. c.phase # "Disabled" => o.episode
      BY <2>5
    <2>7. o.episode = FALSE => c.episode = FALSE
      BY <1>6, <2>5
    <2> QED BY <2>2, <2>3, <2>4, <2>5, <2>6, <2>7
  <1>8. ~Closes(o, blow)
    BY <1>6, <1>7 DEF Closes
  <1>9. /\ t.window = o.window /\ t.sum = o.sum /\ t.calm = o.calm
        /\ t.events = o.events
        /\ (t.phase = "Disabled") <=> (c.phase = "Disabled" \/ Breaks(o))
        /\ t.episode = o.episode /\ t.shown = o.shown /\ t.peak = o.peak
        /\ c.phase # "Disabled" => t.charged = Charge(o.peak)
    BY <1>7, <1>8 DEF Outcome
  <1>10. l \in Contacts(y) /\ l - 0 = l
    BY <1>1, TouchedIs
  <1>11. Remembers(t, y)
    BY <1>1, <1>9 DEF Remembers
  <1>12. CalmFor(t, y)
    <2>1. \A n \in Contacts(y) : n <= l - t.calm
      <3>1. \A n \in Contacts(y) : n <= l
        BY <1>1, TouchedIs
      <3> QED BY <1>7, <1>9, <1>10, <3>1
    <2>2. l - t.calm \in Contacts(y)
      BY <1>7, <1>9, <1>10
    <2> QED BY <2>1, <2>2 DEF CalmFor
  <1>13. InEpisode(t, y)
    <2>1. t.calm # Window
      BY <1>6, <1>7, <1>9
    <2>2. ASSUME NEW a, IsLast(y, a)
          PROVE  /\ t.episode = (ShownContacts(y, a) # {})
                 /\ t.peak = Shows(y, a)
      <3>1. a = b
        <4>1. /\ a \in Beginnings(y) /\ b \in Beginnings(y) /\ a <= b /\ b <= a
          BY <1>3, <2>2 DEF Observing, IsLast
        <4>2. a \in Nat /\ b \in Nat
          BY <1>1, <4>1, EpisodesAre
        <4> QED BY <4>1, <4>2
      <3> QED BY <1>3, <1>9, <3>1 DEF Observing
    <2>3. t.episode = FALSE => t.peak = 0
      BY <1>1, <1>7, <1>9 DEF InEpisode
    <2>4. t.episode = TRUE => t.peak >= Noise /\ t.sum <= t.peak
      BY <1>6, <1>7, <1>9 DEF Greater
    <2>5. t.shown = (t.peak >= Presentation)
      BY <1>5, <1>9
    <2> QED BY <2>1, <2>2, <2>3, <2>4, <2>5 DEF InEpisode
  <1>14. ChargedFor(t, y)
    <2>1. ASSUME t.phase # "Disabled"
          PROVE  /\ \A n \in 1..l : y[n].sum > 0 => y[n].live
                 /\ t.peak < Disabling /\ t.charged = Charge(t.peak)
      <3>1. c.phase # "Disabled" /\ ~Breaks(o)
        BY <1>9, <2>1
      <3>2. \A n \in 1..l : x[n].sum > 0 => x[n].live
        BY <1>1, <3>1 DEF ChargedFor
      <3>3. \A n \in 1..l : y[n].sum > 0 => y[n].live
        BY <1>1, <3>1, <3>2
      <3>4. o.peak < Disabling
        BY <1>6, <1>7, <3>1 DEF Breaks
      <3> QED BY <1>9, <3>1, <3>3, <3>4
    <2>2. ASSUME t.phase = "Disabled", y[l].live
          PROVE  Sum(y, l) >= Disabling
      <3>1. CASE c.phase = "Disabled"
        <4>1. l \in Contacts(x) /\ Sum(x, l) >= Disabling
          BY <1>1, <2>2, <3>1 DEF ChargedFor
        <4>2. Sum(x, l) <= Sum(y, l)
          BY <1>1, <4>1 DEF Touched
        <4>3. l \in 1..l
          BY <1>1, HistoryIs
        <4>4. Sum(x, l) \in Nat
          BY <1>1, <4>3, SumIsNatural
        <4> QED BY <1>6, <1>7, <4>1, <4>2, <4>4
      <3>2. CASE c.phase # "Disabled"
        <4>1. o.peak >= Disabling
          BY <1>9, <2>2, <3>2 DEF Breaks
        <4>2. c.peak < Disabling
          BY <1>1, <3>2 DEF ChargedFor
        <4> QED BY <1>6, <1>7, <4>1, <4>2 DEF Greater
      <3> QED BY <3>1, <3>2
    <2> QED BY <1>10, <2>1, <2>2 DEF ChargedFor
  <1>15. Counted(t, y)
    BY <1>4, <1>5, <1>9 DEF Counted
  <1> QED BY <1>1, <1>11, <1>12, <1>13, <1>14, <1>15 DEF Account

-----------------------------------------------------------------------------
(* How the history goes on, and the window with it.                        *)

\* Silence tells of no contact, and neither does a blow that is not felt.
LEMMA TimeStory ==
    ASSUME NEW x, History(x), NEW y, y = Append(x, Silence)
    PROVE  SameStory(x, y)
PROOF
  <1> DEFINE l == Len(x)
  <1>1. /\ History(y) /\ Len(y) = l + 1 /\ \A k \in 1..l : y[k] = x[k]
        /\ y[l + 1] = Silence
    BY SumSlides
  <1>2. /\ l \in Nat \ {0} /\ DOMAIN x = 1..l /\ DOMAIN y = 1..l + 1
        /\ l + 1 \in 1..l + 1
    BY <1>1, HistoryIs
  <1>3. ASSUME NEW n \in 1..l PROVE Sum(y, n) = Sum(x, n)
    <2>1. /\ n \in 1..Len(x) /\ n \in 1..Len(y)
          /\ \A k \in 1..n : y[k].sum = x[k].sum
      BY <1>1, <1>2
    <2> QED BY <1>1, <2>1, SumAgrees
  <1>4. \A n : n \in Contacts(y) <=> n \in Contacts(x)
    <2>1. \A n \in 1..l : IsContact(y, n) <=> IsContact(x, n)
      BY <1>1, <1>3 DEF IsContact
    <2>2. ~IsContact(y, l + 1)
      BY <1>1 DEF IsContact, Silence
    <2>3. \A n : n \in 1..l + 1 <=> n \in 1..l \/ n = l + 1
      BY <1>2
    <2> QED BY <1>2, <2>1, <2>2, <2>3 DEF Contacts
  <1>5. SameAt(x, y, Contacts(x))
    BY <1>1, <1>2, <1>3 DEF SameAt, Contacts
  <1> QED BY <1>1, <1>4, <1>5 DEF SameStory

LEMMA BlowStory ==
    ASSUME NEW x, History(x), NEW y, NEW v, NEW live, BlowAdded(x, y, v, live)
    PROVE  /\ Sum(y, Len(x)) >= Noise => Touched(x, y, Len(x))
           /\ ~(Sum(y, Len(x)) >= Noise) => SameStory(x, y)
PROOF
  <1> DEFINE l == Len(x)
  <1>1. /\ History(y) /\ Len(y) = l
        /\ \A k \in 1..l : k # l => y[k] = x[k]
        /\ y[l].sum = x[l].sum + v
        /\ y[l].live = (x[l].live \/ live)
        /\ Sum(y, l) = Sum(x, l) + v
    BY SumGrows
  <1>2. /\ l \in Nat \ {0} /\ DOMAIN x = 1..l /\ DOMAIN y = 1..l
        /\ l \in 1..l /\ x[l].sum \in Nat
    BY <1>1, HistoryIs
  <1>3. v \in Nat \ {0}
    BY DEF BlowAdded
  <1>4. ASSUME NEW n \in 1..l, n # l PROVE Sum(y, n) = Sum(x, n)
    <2>a. n \in 1..l /\ l \in Nat
      BY <1>2
    <2>0. n \in Nat /\ n < l /\ l \in Nat
      BY ONLY <1>4, <2>a
    <2> HIDE DEF l
    <2>1. \A k \in 1..n : k \in 1..l /\ k # l
      BY <2>0
    <2>2. /\ n \in 1..Len(x) /\ n \in 1..Len(y)
          /\ \A k \in 1..n : y[k].sum = x[k].sum
      BY <1>1, <2>0, <2>1 DEF l
    <2> QED BY <1>1, <2>2, SumAgrees DEF l
  <1>5. \A n \in 1..l : n # l => (IsContact(y, n) <=> IsContact(x, n))
    BY <1>1, <1>4 DEF IsContact
  <1>6. Sum(x, l) \in Nat /\ Sum(y, l) \in Nat /\ Sum(x, l) <= Sum(y, l)
    <2>1. Sum(x, l) \in Nat
      BY <1>2, SumIsNatural
    <2> QED BY <1>1, <1>3, <2>1
  <1>7. Noise \in Nat /\ y[l].sum > 0
    <2>1. Noise \in Nat
      BY RecoveryAssumption
    <2>2. x[l].sum + v > 0
      BY <1>2, <1>3
    <2> QED BY <1>1, <2>1, <2>2
  <1>8. \A n \in Contacts(x) : n \in 1..l /\ n <= l
    BY <1>2 DEF Contacts
  <1>9. CASE Sum(y, l) >= Noise
    <2>1. \A n : n \in Contacts(y) <=> n \in Contacts(x) \cup {l}
      <3>1. l \in Contacts(y)
        BY <1>2, <1>7, <1>9 DEF Contacts, IsContact
      <3> QED BY <1>2, <1>5, <3>1 DEF Contacts
    <2>2. SameAt(x, y, Contacts(x) \ {l})
      BY <1>1, <1>4, <1>8 DEF SameAt
    <2>3. Contacts(y) = Contacts(x) \cup {l}
      BY <2>1
    <2> QED BY <1>1, <1>2, <1>6, <1>8, <1>9, <2>2, <2>3 DEF Touched
  <1>10. CASE ~(Sum(y, l) >= Noise)
    <2>1. ~IsContact(y, l) /\ ~IsContact(x, l)
      BY <1>6, <1>7, <1>10 DEF IsContact
    <2>2. \A n : n \in Contacts(y) <=> n \in Contacts(x)
      BY <1>2, <1>5, <2>1 DEF Contacts
    <2>3. \A n \in Contacts(x) : n # l
      BY <2>1 DEF Contacts
    <2>4. SameAt(x, y, Contacts(x))
      BY <1>1, <1>4, <1>8, <2>3 DEF SameAt
    <2> QED BY <1>1, <1>10, <2>2, <2>4 DEF SameStory
  <1> QED BY <1>9, <1>10

\* The window is the end of the history.
Windows(w, x) ==
    /\ Len(w) = Lesser(Len(x), Window + 1)
    /\ \A i \in 1..Len(w) : w[i] = x[Len(x) - Len(w) + i].sum

LEMMA WindowSlides ==
    ASSUME NEW w \in Seq(Nat), w # <<>>, NEW x, History(x), Windows(w, x),
           NEW y, y = Append(x, Silence)
    PROVE  /\ Windows(Slid(w, 1), y)
           /\ RunOut(w, 1) =
                IF Len(x) > Window THEN x[Len(x) - Window].sum ELSE 0
PROOF
  <1> DEFINE l == Len(x)
             long == Append(w, 0)
  <1>1. /\ History(y) /\ Len(y) = l + 1 /\ \A k \in 1..l : y[k] = x[k]
        /\ y[l + 1].sum = 0
    <2>1. y[l + 1] = Silence
      BY SumSlides
    <2>2. Silence.sum = 0
      BY DEF Silence
    <2> QED BY <2>1, <2>2, SumSlides
  <1>2. Window \in Nat \ {0} /\ l \in Nat \ {0}
    BY HistoryIs, RecoveryAssumption
  <1>3. /\ Len(w) = Lesser(l, Window + 1)
        /\ \A i \in 1..Len(w) : w[i] = x[l - Len(w) + i].sum
    BY DEF Windows
  <1>4. /\ long \in Seq(Nat) /\ Len(long) = Len(w) + 1
        /\ \A i \in 1..Len(w) : long[i] = w[i]
        /\ long[Len(w) + 1] = 0
    BY AppendProperties
  <1>5. Slid(w, 1) = IF Len(long) > Window + 1 THEN Tail(long) ELSE long
    BY DEF Slid
  <1>6. RunOut(w, 1) = IF Len(w) > Window THEN Head(w) ELSE 0
    BY DEF RunOut
  <1>7. Head(w) = w[1]
    BY HeadTailProperties
  <1> HIDE DEF long, l
  <1>8. CASE l <= Window
    <2>1. Len(w) = l /\ Slid(w, 1) = long /\ Len(long) = l + 1
      BY <1>2, <1>3, <1>4, <1>5, <1>8 DEF Lesser
    <2>2. Len(long) = Lesser(Len(y), Window + 1)
      BY <1>1, <1>2, <1>8, <2>1 DEF Lesser
    <2>3. ASSUME NEW i \in 1..Len(long)
          PROVE  long[i] = y[Len(y) - Len(long) + i].sum
      <3>1. Len(y) - Len(long) + i = i
        BY <1>1, <1>2, <2>1
      <3>2. CASE i = l + 1
        BY <1>1, <1>4, <2>1, <3>1, <3>2
      <3>3. CASE i # l + 1
        <4>1. i \in 1..l /\ l - l + i = i
          BY <1>2, <2>1, <3>3
        <4>2. long[i] = w[i] /\ w[i] = x[i].sum
          BY <1>3, <1>4, <2>1, <4>1
        <4> QED BY <1>1, <3>1, <4>1, <4>2
      <3> QED BY <3>2, <3>3
    <2>4. RunOut(w, 1) = 0 /\ ~(l > Window)
      BY <1>2, <1>6, <1>8, <2>1
    <2> QED BY <2>1, <2>2, <2>3, <2>4 DEF Windows, l
  <1>9. CASE l > Window
    <2> DEFINE short == Tail(long)
    <2>1. Len(w) = Window + 1 /\ Len(long) = Window + 2 /\ Slid(w, 1) = short
      BY <1>2, <1>3, <1>4, <1>5, <1>9 DEF Lesser
    <2>2. long # <<>>
      BY <1>2, <2>1
    <2>3. /\ Len(short) = Window + 1
          /\ \A i \in 1..Window + 1 : short[i] = long[i + 1]
      <3>1. /\ Len(short) = Len(long) - 1
            /\ \A i \in 1..Len(short) : short[i] = long[i + 1]
        BY <1>4, <2>2, HeadTailProperties
      <3>2. Len(short) = Window + 1
        BY <1>2, <2>1, <3>1
      <3> QED BY <3>1, <3>2
    <2> HIDE DEF short
    <2>4. Len(short) = Lesser(Len(y), Window + 1)
      BY <1>1, <1>2, <1>9, <2>3 DEF Lesser
    <2>5. ASSUME NEW i \in 1..Len(short)
          PROVE  short[i] = y[Len(y) - Len(short) + i].sum
      <3>1. Len(y) - Len(short) + i = l - Window + i
        BY <1>1, <1>2, <2>3
      <3>2. CASE i = Window + 1
        <4>1. short[i] = 0
          BY <1>2, <1>4, <2>1, <2>3, <3>2
        <4>2. l - Window + i = l + 1
          BY <1>2, <3>2
        <4> QED BY <1>1, <3>1, <4>1, <4>2
      <3>3. CASE i # Window + 1
        <4>1. /\ i + 1 \in 1..Window + 1 /\ i \in 1..Window + 1
              /\ l - (Window + 1) + (i + 1) = l - Window + i
              /\ l - Window + i \in 1..l
          BY <1>2, <1>9, <2>3, <3>3
        <4>2. short[i] = w[i + 1]
          BY <1>4, <2>1, <2>3, <4>1
        <4>3. w[i + 1] = x[l - (Window + 1) + (i + 1)].sum
          BY <1>3, <2>1, <4>1
        <4> QED BY <1>1, <3>1, <4>1, <4>2, <4>3
      <3> QED BY <3>2, <3>3
    <2>6. RunOut(w, 1) = x[l - Window].sum
      <3>1. 1 \in 1..Len(w) /\ l - Len(w) + 1 = l - Window /\ Len(w) > Window
        BY <1>2, <2>1
      <3> QED BY <1>3, <1>6, <1>7, <3>1
    <2> QED BY <1>9, <2>1, <2>4, <2>5, <2>6 DEF Windows, l
  <1> QED BY <1>2, <1>8, <1>9

LEMMA WindowStays ==
    ASSUME NEW w \in Seq(Nat), w # <<>>, NEW x, History(x), Windows(w, x)
    PROVE  Slid(w, 0) = w /\ RunOut(w, 0) = 0
PROOF
  <1>1. Len(w) <= Window + 1
    <2>1. Window \in Nat /\ Len(x) \in Nat /\ Len(w) = Lesser(Len(x), Window + 1)
      BY HistoryIs, RecoveryAssumption DEF Windows
    <2> QED BY <2>1 DEF Lesser
  <1>2. Len(w) \in Nat /\ Window \in Nat
    BY LenProperties, RecoveryAssumption
  <1> QED BY <1>1, <1>2 DEF Slid, RunOut

\* Nothing is added to the window, or a blow.
LEMMA NothingAdded ==
    ASSUME NEW w \in Seq(Nat), w # <<>>
    PROVE  [w EXCEPT ![Len(w)] = w[Len(w)] + 0] = w
PROOF
  <1>1. w[Len(w)] \in Nat
    BY LastChanged
  <1>2. w[Len(w)] + 0 = w[Len(w)]
    BY <1>1
  <1>3. w = [i \in 1..Len(w) |-> w[i]]
    OBVIOUS
  <1> QED BY <1>2, <1>3

LEMMA WindowGrows ==
    ASSUME NEW w \in Seq(Nat), w # <<>>, NEW x, History(x), Windows(w, x),
           NEW y, NEW v, NEW live, BlowAdded(x, y, v, live)
    PROVE  Windows([w EXCEPT ![Len(w)] = w[Len(w)] + v], y)
PROOF
  <1> DEFINE e == w[Len(w)] + v
             u == [w EXCEPT ![Len(w)] = e]
             l == Len(x)
  <1>1. /\ Len(y) = l /\ \A k \in 1..l : k # l => y[k] = x[k]
        /\ y[l].sum = x[l].sum + v /\ v \in Nat
    BY SumGrows DEF BlowAdded
  <1>2. w[Len(w)] \in Nat
    BY LastChanged
  <1>3. e \in Nat
    BY <1>1, <1>2
  <1>4. Len(w) \in 1..Len(w) /\ Len(w) \in Nat
    BY EmptySeq, LenProperties
  <1>5. /\ Len(u) = Len(w) /\ u[Len(w)] = e
        /\ \A i \in 1..Len(w) : i # Len(w) => u[i] = w[i]
    <2> HIDE DEF e
    <2>1. Len(u) = Len(w)
      BY <1>3, <1>4, ExceptSeq
    <2>2. DOMAIN w = 1..Len(w)
      OBVIOUS
    <2> QED BY <1>4, <2>1, <2>2
  <1>6. /\ Len(w) = Lesser(l, Window + 1)
        /\ \A i \in 1..Len(w) : w[i] = x[l - Len(w) + i].sum
        /\ l \in Nat /\ Window \in Nat
    BY HistoryIs, RecoveryAssumption DEF Windows
  <1>7. Len(w) <= l
    BY <1>6 DEF Lesser
  <1> HIDE DEF u, l
  <1>8. ASSUME NEW i \in 1..Len(u) PROVE u[i] = y[l - Len(u) + i].sum
    <2>1. CASE i = Len(w)
      <3>1. l - Len(w) + i = l
        BY <1>4, <1>6, <2>1
      <3> QED BY <1>1, <1>4, <1>5, <1>6, <2>1, <3>1
    <2>2. CASE i # Len(w)
      <3>1. l - Len(w) + i \in 1..l /\ l - Len(w) + i # l
        BY <1>4, <1>5, <1>6, <1>7, <2>2
      <3> QED BY <1>1, <1>5, <1>6, <2>2, <3>1
    <2> QED BY <2>1, <2>2
  <1> QED BY <1>1, <1>5, <1>6, <1>8 DEF Windows, u, l

\* For how long nothing has touched it, when nothing does.
LEMMA CalmLater ==
    ASSUME NEW c, HitCar(c), NEW x, CalmFor(c, x), NEW y, SameStory(x, y),
           NEW dt \in {0, 1}, Len(y) = Len(x) + dt,
           NEW o, o.calm = Lesser(Window, c.calm + dt)
    PROVE  CalmFor(o, y)
PROOF
  <1>1. /\ c.calm \in 0..Window /\ Window \in Nat /\ Len(x) \in Nat
        /\ Contacts(y) = Contacts(x) /\ Contacts(x) \subseteq Nat
    BY CarIs, HistoryIs, EpisodesAre DEF SameStory
  <1>2. \A n \in Contacts(y) : n <= Len(y) - o.calm
    <2>1. \A n \in Contacts(x) : n <= Len(x) - c.calm
      BY DEF CalmFor
    <2> QED BY <1>1, <2>1 DEF Lesser
  <1>3. o.calm < Window => Len(y) - o.calm \in Contacts(y)
    <2>1. o.calm < Window =>
            c.calm < Window /\ Len(y) - o.calm = Len(x) - c.calm
      BY <1>1 DEF Lesser
    <2> QED BY <1>1, <2>1 DEF CalmFor
  <1> QED BY <1>2, <1>3 DEF CalmFor

-----------------------------------------------------------------------------
(* The tick of a car: its time, and the blow that its contacts bring.      *)

\* What the car observes, from its window.
LEMMA AccountOf ==
    ASSUME NEW c, HitCar(c), NEW x, Account(c, x)
    PROVE  /\ c.window \in Seq(Nat) /\ c.window # <<>> /\ Windows(c.window, x)
           /\ c.sum = Sum(x, Len(x)) /\ c.sum \in Nat
           /\ History(x) /\ CalmFor(c, x) /\ ChargedFor(c, x)
           /\ Len(x) \in Nat \ {0} /\ Len(x) \in 1..Len(x)
  BY CarIs, HistoryIs DEF Account, Remembers, Windows

LEMMA RemembersFrom ==
    ASSUME NEW o, NEW y, Windows(o.window, y), o.sum = Sum(y, Len(y))
    PROVE  Remembers(o, y)
  BY DEF Remembers, Windows

LEMMA TimeAccount ==
    ASSUME NEW c, HitCar(c), NEW x, Account(c, x), NEW settled \in BOOLEAN
    PROVE  Account(Ticked(c, 1, 0, settled), Append(x, Silence))
PROOF
  <1> DEFINE y == Append(x, Silence)
             o == Observed(c, 1, 0)
             t == Ticked(c, 1, 0, settled)
             w == Slid(c.window, 1)
  <1>0. 1 \in {0, 1} /\ 0 \in Nat
    OBVIOUS
  <1>1. /\ c.window \in Seq(Nat) /\ c.window # <<>> /\ Windows(c.window, x)
        /\ c.sum = Sum(x, Len(x)) /\ c.sum \in Nat
        /\ History(x) /\ CalmFor(c, x) /\ ChargedFor(c, x)
        /\ Len(x) \in Nat \ {0}
    BY AccountOf
  <1>2. /\ History(y) /\ Len(y) = Len(x) + 1
        /\ \A k \in 1..Len(x) : y[k] = x[k]
        /\ y[Len(x) + 1] = Silence
        /\ Sum(x, Len(x)) = Sum(y, Len(x) + 1)
             + (IF Len(x) > Window THEN x[Len(x) - Window].sum ELSE 0)
    BY <1>1, SumSlides
  <1>3. SameStory(x, y)
    BY <1>1, TimeStory
  <1>4. /\ Windows(w, y)
        /\ RunOut(c.window, 1) =
             IF Len(x) > Window THEN x[Len(x) - Window].sum ELSE 0
    BY <1>1, WindowSlides
  <1>5. w \in Seq(Nat) /\ w # <<>> /\ RunOut(c.window, 1) \in Nat
    BY <1>0, <1>1, SlidWindow
  <1>6. Observes(c, 1, 0, o) /\ Refills(c, 1, 0, o)
    BY <1>0, ObservedAccount
  <1>7. Outcome(c, o, t, 0)
    BY <1>0, TickedAccount
  <1>8. ~Touches(c, 1, 0)
    BY DEF Touches
  <1>o. o = Observed(c, 1, 0)
    OBVIOUS
  <1> HIDE DEF o, t, y
  <1>9. o.window = w
    <2>1. o.window = [w EXCEPT ![Len(w)] = w[Len(w)] + 0]
      BY <1>6 DEF Refills
    <2> HIDE DEF w
    <2> QED BY <1>5, <2>1, NothingAdded
  <1>10. o.sum = Sum(y, Len(y)) /\ o.sum <= c.sum
    <2>1. Sum(y, Len(x) + 1) \in Nat
      <3>1. Len(x) + 1 \in 1..Len(y)
        BY <1>1, <1>2
      <3> QED BY <1>2, <3>1, SumIsNatural
    <2>2. c.sum = Sum(y, Len(x) + 1) + RunOut(c.window, 1)
      BY <1>1, <1>2, <1>4
    <2>3. o.sum = Greater(0, c.sum + 0 - RunOut(c.window, 1))
      BY <1>6 DEF Observes, NewSum
    <2> QED BY <1>1, <1>2, <1>5, <2>1, <2>2, <2>3 DEF Greater
  <1>11. Remembers(o, y)
    BY <1>4, <1>9, <1>10, RemembersFrom
  <1>12. CalmFor(o, y)
    <2>1. o.calm = Lesser(Window, c.calm + 1)
      BY <1>6, <1>8 DEF Observes
    <2> QED BY <1>0, <1>1, <1>2, <1>3, <2>1, CalmLater
  <1>13. y[Len(y)] = Silence /\ Silence.sum = 0 /\ Silence.live = FALSE
    BY <1>2 DEF Silence
  <1>14. c.phase # "Disabled" => \A n \in 1..Len(y) : y[n].sum > 0 => y[n].live
    <2> SUFFICES ASSUME c.phase # "Disabled", NEW n \in 1..Len(y), y[n].sum > 0
                 PROVE  y[n].live
      OBVIOUS
    <2>1. n # Len(y)
      BY <1>13
    <2>2. n \in 1..Len(x)
      BY <1>1, <1>2, <2>1
    <2> QED BY <1>1, <1>2, <2>2 DEF ChargedFor
  <1>15. IsSilent(c, x, y, o)
    BY <1>3, <1>10, <1>11, <1>12, <1>13, <1>14 DEF IsSilent
  <1>16. Account(t, y)
    BY <1>0, <1>7, <1>8, <1>15, <1>o, SilentAccount
  <1> QED BY <1>16 DEF t, y

LEMMA IdleAccount ==
    ASSUME NEW c, HitCar(c), NEW x, Account(c, x), NEW settled \in BOOLEAN
    PROVE  Account(Ticked(c, 0, 0, settled), x)
PROOF
  <1> DEFINE o == Observed(c, 0, 0)
             t == Ticked(c, 0, 0, settled)
  <1>0. 0 \in {0, 1} /\ 0 \in Nat
    OBVIOUS
  <1>1. /\ c.window \in Seq(Nat) /\ c.window # <<>> /\ Windows(c.window, x)
        /\ c.sum = Sum(x, Len(x)) /\ c.sum \in Nat
        /\ History(x) /\ CalmFor(c, x) /\ ChargedFor(c, x)
        /\ Len(x) \in Nat \ {0}
    BY AccountOf
  <1>2. SameStory(x, x)
    BY <1>1 DEF SameStory, SameAt
  <1>3. Slid(c.window, 0) = c.window /\ RunOut(c.window, 0) = 0
    BY <1>1, WindowStays
  <1>4. Observes(c, 0, 0, o) /\ Refills(c, 0, 0, o)
    BY <1>0, ObservedAccount
  <1>5. Outcome(c, o, t, 0)
    BY <1>0, TickedAccount
  <1>6. ~Touches(c, 0, 0)
    BY DEF Touches
  <1>o. o = Observed(c, 0, 0)
    OBVIOUS
  <1> HIDE DEF o, t
  <1>7. o.window = c.window
    <2>1. o.window = [c.window EXCEPT ![Len(c.window)] =
                        c.window[Len(c.window)] + 0]
      BY <1>3, <1>4 DEF Refills
    <2> QED BY <1>1, <2>1, NothingAdded
  <1>8. o.sum = c.sum
    <2>1. o.sum = Greater(0, c.sum + 0 - RunOut(c.window, 0))
      BY <1>4 DEF Observes, NewSum
    <2> QED BY <1>1, <1>3, <2>1 DEF Greater
  <1>9. Remembers(o, x)
    BY <1>1, <1>7, <1>8, RemembersFrom
  <1>10. CalmFor(o, x)
    <2>1. o.calm = Lesser(Window, c.calm + 0)
      BY <1>4, <1>6 DEF Observes
    <2>2. Len(x) = Len(x) + 0
      BY <1>1
    <2> QED BY <1>0, <1>1, <1>2, <2>1, <2>2, CalmLater
  <1>11. IsSilent(c, x, x, o)
    <2>1. o.sum <= c.sum
      BY <1>1, <1>8
    <2> QED BY <1>1, <1>2, <1>9, <1>10, <2>1 DEF IsSilent, ChargedFor
  <1>12. Account(t, x)
    BY <1>0, <1>5, <1>6, <1>11, <1>o, SilentAccount
  <1> QED BY <1>12 DEF t

LEMMA BlowAccount ==
    ASSUME NEW c, HitCar(c), NEW x, Account(c, x), NEW settled \in BOOLEAN,
           NEW y, NEW blow, BlowAdded(x, y, blow, c.phase # "Disabled")
    PROVE  Account(Ticked(c, 0, blow, settled), y)
PROOF
  <1> DEFINE o == Observed(c, 0, blow)
             t == Ticked(c, 0, blow, settled)
             w == c.window
             l == Len(x)
  <1>0. 0 \in {0, 1} /\ blow \in Nat /\ blow > 0
    BY DEF BlowAdded
  <1>1. /\ w \in Seq(Nat) /\ w # <<>> /\ Windows(w, x)
        /\ c.sum = Sum(x, l) /\ c.sum \in Nat
        /\ History(x) /\ CalmFor(c, x) /\ ChargedFor(c, x)
        /\ l \in Nat \ {0} /\ l \in 1..l
    BY AccountOf
  <1>2. /\ History(y) /\ Len(y) = l
        /\ \A k \in 1..l : k # l => y[k] = x[k]
        /\ y[l].live = (x[l].live \/ c.phase # "Disabled")
        /\ Sum(y, l) = Sum(x, l) + blow
    BY <1>1, SumGrows
  <1>3. Slid(w, 0) = w /\ RunOut(w, 0) = 0
    BY <1>1, WindowStays
  <1>4. Observes(c, 0, blow, o) /\ Refills(c, 0, blow, o)
    BY <1>0, ObservedAccount
  <1>5. Outcome(c, o, t, blow)
    BY <1>0, TickedAccount
  <1>6. Windows([w EXCEPT ![Len(w)] = w[Len(w)] + blow], y)
    BY <1>1, WindowGrows
  <1>o. o = Observed(c, 0, blow)
    OBVIOUS
  <1> HIDE DEF o, t
  <1>7. o.window = [w EXCEPT ![Len(w)] = w[Len(w)] + blow]
    BY <1>3, <1>4 DEF Refills
  <1>8. NewSum(c, 0, blow) = Sum(y, l) /\ Sum(y, l) \in Nat
    BY <1>0, <1>1, <1>2, <1>3 DEF NewSum, Greater
  <1>9. o.sum = Sum(y, l)
    BY <1>4, <1>8 DEF Observes
  <1>10. Remembers(o, y)
    BY <1>2, <1>6, <1>7, <1>9, RemembersFrom
  <1>11. CASE Sum(y, l) >= Noise
    <2>1. Touches(c, 0, blow)
      BY <1>0, <1>8, <1>11 DEF Touches
    <2>2. Touched(x, y, l)
      BY <1>1, <1>11, BlowStory
    <2>3. IsTouched(c, x, y, o)
      BY <1>2, <1>10, <2>2 DEF IsTouched
    <2>4. Account(t, y)
      BY <1>0, <1>5, <1>o, <2>1, <2>3, TouchedAccount
    <2> QED BY <2>4 DEF t
  <1>12. CASE ~(Sum(y, l) >= Noise)
    <2>1. ~Touches(c, 0, blow)
      BY <1>8, <1>12 DEF Touches
    <2>2. SameStory(x, y)
      BY <1>1, <1>12, BlowStory
    <2>3. CalmFor(o, y)
      <3>1. o.calm = Lesser(Window, c.calm + 0)
        BY <1>4, <2>1 DEF Observes
      <3>2. Len(y) = Len(x) + 0
        BY <1>1, <1>2
      <3> QED BY <1>0, <1>1, <2>2, <3>1, <3>2, CalmLater
    <2>4. o.sum < Noise
      <3>1. Noise \in Nat
        BY RecoveryAssumption
      <3> QED BY <1>8, <1>9, <1>12, <3>1
    <2>5. c.phase # "Disabled" => \A n \in 1..Len(y) : y[n].sum > 0 => y[n].live
      <3> SUFFICES ASSUME c.phase # "Disabled", NEW n \in 1..Len(y),
                          y[n].sum > 0
                   PROVE  y[n].live
        OBVIOUS
      <3>1. CASE n = l
        BY <1>2, <3>1
      <3>2. CASE n # l
        BY <1>1, <1>2, <3>2 DEF ChargedFor
      <3> QED BY <3>1, <3>2
    <2>6. ~(c.phase = "Disabled" /\ y[l].live)
      <3>1. ASSUME c.phase = "Disabled", y[l].live PROVE FALSE
        <4>1. Sum(x, l) >= Disabling
          BY <1>1, <1>2, <3>1 DEF ChargedFor
        <4>2. /\ Noise \in Nat /\ Disabling \in Nat /\ Reaction \in Nat
              /\ Noise <= Reaction /\ Reaction < Disabling
          BY CarIs
        <4> QED BY <1>0, <1>1, <1>2, <1>8, <1>12, <4>1, <4>2
      <3> QED BY <3>1
    <2>7. IsSilent(c, x, y, o)
      BY <1>2, <1>10, <2>2, <2>3, <2>4, <2>5, <2>6 DEF IsSilent
    <2>8. Account(t, y)
      BY <1>0, <1>5, <1>o, <2>1, <2>7, SilentAccount
    <2> QED BY <2>8 DEF t
  <1> QED BY <1>11, <1>12

-----------------------------------------------------------------------------
(* What else the tick of the host does with a car is no question of its    *)
(* damage, but that it may overturn.                                       *)

LEMMA UpdatedAccount ==
    ASSUME NEW c, HitCar(c), NEW dt, NEW blow, NEW moves \in BOOLEAN, NEW y,
           LET t == Ticked(c, dt, blow, Settled(c, moves))
           IN  HitCar(t) /\ Account(t, y)
    PROVE  Account(Updated(c, dt, blow, moves), y)
PROOF
  <1> DEFINE t == Ticked(c, dt, blow, Settled(c, moves))
             boards == [t EXCEPT !.grace = Boarding]
             stops  == [t EXCEPT !.grace = 0, !.slides = moves]
  <1>1. t \in CarRecord /\ Account(t, y)
    BY DEF HitCar
  <1>2. Updated(c, dt, blow, moves) \in {t, boards, stops}
    BY DEF Updated, Reacted
  <1> HIDE DEF t
  <1>3. /\ SameAccount(t, t) /\ SameAccount(t, boards)
        /\ SameAccount(t, stops)
    BY <1>1 DEF SameAccount, CarRecord
  <1> QED BY <1>1, <1>2, <1>3, AccountKept

LEMMA MovedAccount ==
    ASSUME NEW c, HitCar(c), NEW s, HitCar(s), NEW m \in Impacts,
           NEW y, Account(s, y)
    PROVE  Account(Moved(c, s, m), y)
PROOF
  <1> DEFINE i == Integrated(s, m)
             h == Halted(c, i, m)
  <1>1. HitCar(i) /\ SameAccount(s, i)
    <2> DEFINE back == s.phase \in {"Driving", "Recovering"} /\ m.returned
               away == (s.displaced \/ s.slides) /\ ~back
               goes == s.slides /\ ~m.rests /\ ~(back /\ s.phase = "Recovering")
               holds == [s EXCEPT !.slides = FALSE]
               boards == [s EXCEPT !.slides = FALSE, !.grace = s.grace - 1]
               slides == [s EXCEPT !.displaced = away, !.slides = goes]
    <2>1. s \in CarRecord
      BY DEF HitCar
    <2>2. i = holds \/ i = boards \/ i = slides
      BY <2>1 DEF Integrated
    <2>3. HitCar(i)
      BY IntegratedCar
    <2> HIDE DEF i, away, goes
    <2>4. /\ SameAccount(s, holds) /\ SameAccount(s, boards)
          /\ SameAccount(s, slides)
      BY <2>1 DEF SameAccount, CarRecord
    <2> HIDE DEF holds, boards, slides
    <2> QED BY <2>2, <2>3, <2>4
  <1> HIDE DEF i
  <1>2. HitCar(h) /\ SameAccount(i, h)
    <2> DEFINE away == c.displaced \/ i.phase = "Driving"
               tilts == c.tumbles /\ ~m.rests
               d == [ i EXCEPT !.displaced = away, !.slides = FALSE,
                               !.tumbles = tilts ]
    <2>1. i \in CarRecord
      BY <1>1 DEF HitCar
    <2>2. h = d
      BY DEF Halted
    <2>3. HitCar(h)
      BY <1>1, HaltedCar
    <2> HIDE DEF h, away, tilts
    <2>4. SameAccount(i, d)
      BY <2>1 DEF SameAccount, CarRecord
    <2> QED BY <2>2, <2>3, <2>4
  <1> HIDE DEF h
  <1>3. ASSUME NEW e, HitCar(e) PROVE SameAccount(e, Finished(e))
    <2> DEFINE d == [e EXCEPT !.phase = "Driving", !.hold = 0, !.grace = 0]
    <2>1. e \in CarRecord
      BY <1>3 DEF HitCar
    <2>2. \/ Finished(e) = e
          \/ Finished(e) = d /\ e.phase = "Recovering"
      BY DEF Finished
    <2>3. SameAccount(e, e) /\ (e.phase = "Recovering" => SameAccount(e, d))
      BY <2>1 DEF SameAccount, CarRecord
    <2> HIDE DEF d
    <2> QED BY <2>2, <2>3
  <1>4. SameAccount(s, Finished(i)) /\ SameAccount(s, Finished(h))
    BY <1>1, <1>2, <1>3, SameAccountChains
  <1>5. Moved(c, s, m) \in {s, Finished(i), Finished(h)}
    BY DEF Moved, i, h
  <1>6. Account(Finished(i), y) /\ Account(Finished(h), y)
    BY <1>4, AccountKept
  <1> QED BY <1>5, <1>6

LEMMA OverturnedAccount ==
    ASSUME NEW c, HitCar(c), NEW m \in Impacts, NEW y, Account(c, y),
           y[Len(y)].live = FALSE
    PROVE  Account(Overturned(c, m), y)
PROOF
  <1> DEFINE d == [c EXCEPT !.phase = "Disabled", !.hold = 0]
  <1>1. c \in CarRecord
    BY DEF HitCar
  <1>2. Overturned(c, m) = c \/ Overturned(c, m) = d
    BY DEF Overturned
  <1>3. /\ d.window = c.window /\ d.sum = c.sum /\ d.calm = c.calm
        /\ d.episode = c.episode /\ d.shown = c.shown /\ d.peak = c.peak
        /\ d.charged = c.charged /\ d.damage = c.damage
        /\ d.events = c.events /\ d.phase = "Disabled"
    BY <1>1 DEF CarRecord
  <1> HIDE DEF d
  <1>4. Remembers(d, y) /\ CalmFor(d, y) /\ Counted(d, y)
    BY <1>3 DEF Account, Remembers, CalmFor, Counted
  <1>5. InEpisode(d, y)
    BY <1>3 DEF Account, InEpisode
  <1>6. ChargedFor(d, y)
    BY <1>3 DEF ChargedFor
  <1> QED BY <1>2, <1>4, <1>5, <1>6 DEF Account

\* The blows that the history has after the time of a tick, and after the
\* contacts.
LEMMA RestedBlows ==
    ASSUME NEW p \in PastRecord, NEW c, NEW m, trial.listed
    PROVE  Rested(p, c, m).blows = Append(p.blows, Silence)
  BY DEF Rested, Silence, PastRecord

LEMMA StruckBlows ==
    ASSUME NEW p \in PastRecord, NEW c, NEW m, NEW sum, trial.listed
    PROVE  Struck(p, c, m, sum).blows =
             [ p.blows EXCEPT ![Len(p.blows)] =
                 [ sum |-> @.sum + m.blow,
                   live |-> @.live \/ c.phase # "Disabled" ] ]
  BY DEF Struck, PastRecord

LEMMA MetAccount ==
    ASSUME trial.listed, NEW p \in PastRecord, NEW c, HitCar(c),
           Account(c, p.blows), NEW m \in Impacts
    PROVE  LET q == IF Counts(m) THEN Rested(p, c, m) ELSE p
           IN  Account(Met(c, m), q.blows)
PROOF
  <1>1. CASE ~Counts(m)
    BY <1>1 DEF Met
  <1>2. CASE Counts(m)
    <2> DEFINE tilts == c.tumbles /\ ~m.lands
               b == [c EXCEPT !.tumbles = tilts]
               t == Ticked(b, 1, 0, Settled(b, m.moves))
               u == Updated(b, 1, 0, m.moves)
               o == Overturned(u, m)
               x == p.blows
               y == Append(x, Silence)
    <2>1. /\ c \in CarRecord /\ c.window # <<>> /\ tilts \in BOOLEAN
          /\ m.moves \in BOOLEAN
      BY DEF HitCar, CarRecord, Impacts
    <2>2. Met(c, m) = Moved(c, o, m)
      BY <1>2 DEF Met, Readied
    <2>3. Rested(p, c, m).blows = y
      BY RestedBlows
    <2>4. HitCar(b) /\ SameAccount(c, b)
      <3> HIDE DEF tilts
      <3> QED BY <2>1 DEF HitCar, SameAccount, CarRecord
    <2> HIDE DEF b
    <2>5. Account(b, x)
      BY <2>4, AccountKept
    <2>6. /\ 1 \in {0, 1} /\ 0 \in Nat /\ Settled(b, m.moves) \in BOOLEAN
          /\ NoPast \in PastRecord
      BY UnhitWaits DEF Settled
    <2>7. HitCar(t)
      BY <2>4, <2>6, TickedCar
    <2>8. Account(t, y)
      BY <2>4, <2>5, <2>6, TimeAccount
    <2>9. HitCar(u)
      BY <2>1, <2>4, <2>6, UpdatedCar
    <2>10. Account(u, y)
      BY <2>1, <2>4, <2>7, <2>8, UpdatedAccount
    <2>11. y[Len(y)].live = FALSE
      <3>1. History(x)
        BY DEF Account
      <3>2. /\ Len(y) = Len(x) + 1 /\ y[Len(x) + 1] = Silence
        BY <3>1, SumSlides
      <3> QED BY <3>2 DEF Silence
    <2> HIDE DEF t, u, y
    <2>12. Account(o, y)
      BY <2>9, <2>10, <2>11, OverturnedAccount
    <2>13. HitCar(o)
      <3> DEFINE d == [u EXCEPT !.phase = "Disabled", !.hold = 0]
      <3>1. u \in CarRecord /\ u.window # <<>> /\ "Disabled" \in Phases
        BY <2>9 DEF HitCar, Phases
      <3>2. d \in CarRecord /\ d.window = u.window
        BY <3>1 DEF CarRecord
      <3>3. o = u \/ o = d
        BY DEF Overturned
      <3> HIDE DEF d, o
      <3> QED BY <3>1, <3>2, <3>3 DEF HitCar
    <2> HIDE DEF o
    <2>14. Account(Moved(c, o, m), y)
      BY <2>12, <2>13, MovedAccount
    <2> QED BY <1>2, <2>2, <2>3, <2>14
  <1> QED BY <1>1, <1>2

LEMMA ContactedAccount ==
    ASSUME trial.listed, NEW p \in PastRecord, NEW c, HitCar(c),
           Account(c, p.blows), NEW m \in Impacts
    PROVE  LET d == Contacted(c, m)
           IN  Account(d, StruckOrNot(p, c, m, d.sum).blows)
PROOF
  <1>1. /\ m.blow \in Nat /\ m.moves \in BOOLEAN /\ m.topples \in BOOLEAN
        /\ m.shifted \in BOOLEAN
    BY DEF Impacts
  <1>2. 0 \in {0, 1} /\ 0 \in Nat /\ FALSE \in BOOLEAN /\ NoPast \in PastRecord
    BY UnhitWaits
  <1>3. CASE m.blow = 0
    BY <1>3 DEF Contacted, StruckOrNot
  <1>4. CASE m.blow # 0 /\ ~Solved(m)
    <2> DEFINE t == Ticked(c, 0, 0, Settled(c, FALSE))
    <2>1. /\ Contacted(c, m) = Updated(c, 0, 0, FALSE)
          /\ \A sum : StruckOrNot(p, c, m, sum) = p
      BY <1>4 DEF Contacted, StruckOrNot
    <2>2. Settled(c, FALSE) \in BOOLEAN
      BY DEF Settled
    <2>3. HitCar(t)
      BY <1>2, <2>2, TickedCar
    <2>4. Account(t, p.blows)
      BY <2>2, IdleAccount
    <2>5. Account(Updated(c, 0, 0, FALSE), p.blows)
      BY <1>2, <2>3, <2>4, UpdatedAccount
    <2> QED BY <2>1, <2>5
  <1>5. CASE m.blow # 0 /\ Solved(m)
    <2> DEFINE away == c.displaced \/ m.shifted
               tilts == c.tumbles \/ m.topples
               b == [ c EXCEPT !.slides = m.moves, !.displaced = away,
                               !.tumbles = tilts ]
               t == Ticked(b, 0, m.blow, Settled(b, m.moves))
               u == Updated(b, 0, m.blow, m.moves)
               x == p.blows
               y == Struck(p, c, m, u.sum).blows
    <2>1. /\ Contacted(c, m) = u
          /\ StruckOrNot(p, c, m, u.sum) = Struck(p, c, m, u.sum)
      BY <1>1, <1>5 DEF Contacted, StruckOrNot
    <2>2. /\ c \in CarRecord /\ c.window # <<>> /\ away \in BOOLEAN
          /\ tilts \in BOOLEAN
      BY DEF HitCar, CarRecord
    <2>3. HitCar(b) /\ SameAccount(c, b) /\ b.phase = c.phase
      <3> HIDE DEF away, tilts
      <3> QED BY <1>1, <2>2 DEF HitCar, SameAccount, CarRecord
    <2> HIDE DEF b
    <2>4. Account(b, x)
      BY <2>3, AccountKept
    <2>5. BlowAdded(x, y, m.blow, b.phase # "Disabled")
      <3>1. y = [ x EXCEPT ![Len(x)] =
                    [ sum |-> @.sum + m.blow,
                      live |-> @.live \/ c.phase # "Disabled" ] ]
        BY StruckBlows
      <3> HIDE DEF y
      <3>2. m.blow \in Nat \ {0}
        BY <1>1, <1>5
      <3> QED BY <2>3, <3>1, <3>2 DEF BlowAdded
    <2>6. Settled(b, m.moves) \in BOOLEAN
      BY DEF Settled
    <2>7. HitCar(t)
      BY <1>1, <1>2, <2>3, <2>6, TickedCar
    <2> HIDE DEF y
    <2>8. Account(t, y)
      BY <2>3, <2>4, <2>5, <2>6, BlowAccount
    <2>9. Account(u, y)
      BY <1>1, <2>3, <2>7, <2>8, UpdatedAccount
    <2> QED BY <2>1, <2>9 DEF y
  <1> QED BY <1>3, <1>4, <1>5

-----------------------------------------------------------------------------
(* The account is kept.                                                    *)

AccountInv == RecoveryInv /\ (trial.listed => Account(car, past.blows))

\* A car that was never hit.
LEMMA UnhitAccount == Account(UnhitCar, NoPast.blows)
PROOF
  <1> DEFINE x == NoPast.blows
             c == UnhitCar
  <1>1. x = <<Silence>>
    BY DEF NoPast, Silence
  <1>2. Silence \in Blow /\ Silence.sum = 0 /\ Silence.live = FALSE
    BY DEF Silence, Blow
  <1> HIDE DEF x
  <1>3. x \in Seq(Blow) /\ x # <<>> /\ Len(x) = 1 /\ x[1] = Silence
    BY <1>1, <1>2
  <1>4. History(x)
    BY <1>3 DEF History
  <1>5. /\ c.window = <<0>> /\ c.sum = 0 /\ c.calm = Window
        /\ c.episode = FALSE /\ c.shown = FALSE /\ c.peak = 0
        /\ c.charged = 0 /\ c.damage = 0 /\ c.events = 0
        /\ c.phase = "Driving"
    BY DEF UnhitCar
  <1>6. HitCar(c)
    BY UnhitWaits
  <1> HIDE DEF c
  <1>7. /\ Window \in Nat \ {0} /\ Presentation \in Nat /\ Presentation > 0
        /\ Disabling \in Nat /\ Disabling > 0 /\ MaxEvents \in Nat
    BY <1>6, CarIs
  <1>8. Contacts(x) = {} /\ DOMAIN x = 1..1
    <2>1. DOMAIN x = 1..1
      BY <1>3, <1>4, HistoryIs
    <2>2. ~IsContact(x, 1)
      BY <1>2, <1>3 DEF IsContact
    <2> QED BY <2>1, <2>2 DEF Contacts
  <1>9. Beginnings(x) = {} /\ Presented(x) = {}
    <2>1. Beginnings(x) = {}
      BY <1>4, <1>8, EpisodesAre
    <2> QED BY <2>1 DEF Presented
  <1>10. Sum(x, 1) = 0
    <2>1. Reach(1) = {1}
      <3>1. Reach(1) \subseteq 1..1 /\ 1 \in Reach(1)
        BY ReachIs
      <3> QED BY <3>1
    <2>2. Felts(x)[1] = 0
      BY <1>2, <1>3, <1>8 DEF Felts
    <2>3. SumFunctionOnSet(Felts(x), {} \cup {1})
            = Felts(x)[1] + SumFunctionOnSet(Felts(x), {})
      BY <2>2, FS_EmptySet, SumWithOneMore
    <2>4. SumFunctionOnSet(Felts(x), {}) = 0
      BY SumOfNone
    <2>5. {} \cup {1} = {1}
      OBVIOUS
    <2> QED BY <2>1, <2>2, <2>3, <2>4, <2>5, SumIs
  <1>11. Remembers(c, x)
    <2>1. /\ Len(c.window) = 1 /\ c.window[1] = 0
          /\ Lesser(Len(x), Window + 1) = 1
      BY <1>3, <1>5, <1>7 DEF Lesser
    <2>2. \A i \in 1..1 : i = 1 /\ Len(x) - 1 + i = 1
      BY <1>3
    <2> QED BY <1>2, <1>3, <1>5, <1>10, <2>1, <2>2 DEF Remembers
  <1>12. CalmFor(c, x)
    BY <1>5, <1>7, <1>8 DEF CalmFor
  <1>13. InEpisode(c, x)
    <2>1. c.shown = (c.peak >= Presentation)
      <3> DEFINE late == c.peak >= Presentation
      <3>1. late = FALSE
        BY <1>5, <1>7
      <3> HIDE DEF late
      <3>2. c.shown = late
        BY <1>5, <3>1
      <3> QED BY <3>2 DEF late
    <2>2. ~(c.calm < Window)
      BY <1>5, <1>7
    <2> QED BY <1>5, <2>1, <2>2 DEF InEpisode
  <1>14. ChargedFor(c, x)
    <2>1. \A n \in 1..Len(x) : x[n].sum = 0
      BY <1>2, <1>3
    <2>2. ~(0 > 0) /\ c.charged = Charge(c.peak)
      BY <1>5, ChargeIs
    <2> QED BY <1>5, <1>7, <2>1, <2>2 DEF ChargedFor
  <1>15. Counted(c, x)
    <2>1. Total(x) = 0
      BY <1>9, SumOfNone DEF Total
    <2>2. Cardinality(Presented(x)) = 0
      BY <1>9, FS_EmptySet
    <2>3. Full \in Nat
      BY ChargeIs
    <2> QED BY <1>5, <1>7, <2>1, <2>2, <2>3 DEF Counted, Lesser
  <1>16. Account(c, x)
    BY <1>4, <1>11, <1>12, <1>13, <1>14, <1>15 DEF Account
  <1> QED BY <1>16 DEF c, x

LEMMA AccountTick ==
    ASSUME AccountInv, NEW m \in trial.meets, RunTick(m), trial.listed
    PROVE  Account(car, past.blows)'
PROOF
  <1> DEFINE rested  == IF Counts(m) THEN Rested(past, car, m) ELSE past
             between == Met(car, m)
             later   == Contacted(between, m)
             struck  == StruckOrNot(rested, between, m, later.sum)
             rushed  == \/ struck.rushed
                        \/ Rushes(car, between, rested)
                        \/ Rushes(between, later, struck)
             hits    == IF m.blow > 0 THEN struck.hits + 1 ELSE struck.hits
  <1>1. /\ HitCar(car) /\ past \in PastRecord /\ past.blows # <<>>
        /\ WaitsEnough(car, past) /\ trial \in Trials
        /\ Account(car, past.blows)
    BY DEF AccountInv, RecoveryInv
  <1>2. m \in Impacts
    BY <1>1, TrialAssumption
  <1>3. /\ car' = later
        /\ past' = [struck EXCEPT !.rushed = rushed, !.hits = hits]
    BY DEF RunTick, After, Noted, Judged, StruckOrNot
  <1>4. /\ rested \in PastRecord /\ rested.blows # <<>>
        /\ Allowed(car, between, rested)
    BY <1>1, <1>2, MetCar
  <1>5. Account(between, rested.blows)
    BY <1>1, <1>2, MetAccount
  <1> HIDE DEF rested, between
  <1>6. HitCar(between) /\ WaitsEnough(between, rested)
    BY <1>4 DEF Allowed
  <1>7. struck \in PastRecord
    BY <1>2, <1>4, <1>6, ContactedCar
  <1>8. Account(later, struck.blows)
    BY <1>2, <1>4, <1>5, <1>6, ContactedAccount
  <1> HIDE DEF later, struck, rushed, hits
  <1>9. past'.blows = struck.blows
    BY <1>3, <1>7 DEF PastRecord
  <1>10. Account(car', past'.blows)
    BY <1>3, <1>8, <1>9
  <1> QED BY <1>10 DEF Account, Remembers, CalmFor, InEpisode, ChargedFor, Counted

LEMMA AccountInvStep ==
    ASSUME AccountInv, [RecoveryNext]_recoveryVars PROVE AccountInv'
PROOF
  <1>1. RecoveryInv'
    BY RecoveryInvStep DEF AccountInv
  <1>2. ASSUME NEW m \in trial.meets, RunTick(m)
        PROVE  trial'.listed => Account(car, past.blows)'
    BY <1>2, AccountTick DEF RunTick
  <1>3. CASE Rebuilt
    <2>1. car' = UnhitCar /\ past' = NoPast
      BY <1>3 DEF Rebuilt
    <2>2. Account(car', past'.blows)
      BY <2>1, UnhitAccount
    <2> QED BY <1>1, <2>2 DEF AccountInv
  <1>4. CASE UNCHANGED recoveryVars
    BY <1>1, <1>4 DEF AccountInv, recoveryVars
  <1> QED BY <1>1, <1>2, <1>3, <1>4 DEF RecoveryNext, AccountInv

\* Whatever hits a car, in what order and how often: its damage is what the
\* hardest moments of its episodes amount to, each charged once, and its
\* events are as many as its episodes that can be seen.
\* (ImpactRecoveryState::tick, episode_damage, clear_episode)
THEOREM CarsAreDamagedByBlows == RecoverySpec => []CarDamageMatchesBlows
PROOF
  <1>1. RecoveryInit => AccountInv
    <2>1. RecoveryInit => RecoveryInv
      BY UnhitWaits DEF RecoveryInit, RecoveryInv, ResumesOnlyAfterRest
    <2> QED BY <2>1, UnhitAccount DEF RecoveryInit, AccountInv
  <1>2. AccountInv /\ [RecoveryNext]_recoveryVars => AccountInv'
    BY AccountInvStep
  <1>3. AccountInv => CarDamageMatchesBlows
    BY DEF AccountInv, Account, Counted, Total, CarDamageMatchesBlows
  <1> QED BY <1>1, <1>2, <1>3, PTL DEF RecoverySpec
=============================================================================
