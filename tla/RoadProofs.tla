----------------------------- MODULE RoadProofs -----------------------------
(***************************************************************************)
(* Theorems about what the traffic meets on the road.                      *)
(*                                                                         *)
(* Junction, for every route, every set of networks and every length of a  *)
(* tick: a car whose nose is over its stop line is committed, for which    *)
(* nothing is needed of the networks and of the pedestrian; and a          *)
(* pedestrian crosses on WALK, with no car let over its line meanwhile.    *)
(* The invariant of a trip is that WALK lasts for what is left of it and   *)
(* the clearance; the countdown, a sum over the phases that show the same, *)
(* promises that at the beginning.                                         *)
(*                                                                         *)
(* NpcGround, for every route of every number of bodies, every lifetime,   *)
(* capacity, delay and number of sessions and revisions: a tick that       *)
(* counts has every body on ground of the client's world that is fresh.    *)
(* The invariant says of the cache what the property says of the tiles a   *)
(* tick looks at, before it has looked: that all its tiles are of the      *)
(* world it knows (TilesOfKnown), how long ago at the most the client left *)
(* that world by what is left of the lease (Freshness), that the patch     *)
(* under the vehicle knows no session the cache does not know              *)
(* (Acquaintance), and that a number is never given to two requests that   *)
(* are still in circulation (Numbering).  What a tick asks of the cache is *)
(* recursion along routes and lists of places; what holds after each step  *)
(* of it holds of its outcome by the lemmas of module Induction.           *)
(***************************************************************************)
EXTENDS Junction, NpcGround, Induction, SequenceTheorems

-----------------------------------------------------------------------------
(* The stop line.                                                          *)

FollowerTypeOK == follower \in Followers

FollowerInv == FollowerTypeOK /\ OverLineIsCommitted

\* A car that goes on past the end of its round begins the next one.
LEMMA MovedOn ==
  ASSUME NEW f \in Followers, NEW e, NEW to \in Nat,
         to >= Round, to - Round \in 0 .. Round - 1
  PROVE  Moved(f, to, e) \in Followers /\ Moved(f, to, e).at = to - Round
  BY DEF Followers, Moved

\* Within its round it keeps the leave it has, and may be given it.
LEMMA MovedAlong ==
  ASSUME NEW f \in Followers, NEW e, Round \in Nat, NEW to \in 0 .. Round - 1
  PROVE  /\ Moved(f, to, e) \in Followers
         /\ Moved(f, to, e).at = to
         /\ Moved(f, to, e).committed <=> (f.committed \/ Commits(f, to, e))
PROOF
  <1>1. ~(to >= Round)
    OBVIOUS
  <1> QED
    BY <1>1 DEF Followers, Moved

\* How far a car goes in a substep, and what it is then: it stays behind the
\* line, passes it by the leave it had or by green, or is on the connector.
LEMMA MovedIsCommitted ==
  ASSUME NEW f \in Followers, NEW e, NEW to \in Nat,
         f.at < Approach /\ f.at + Front >= Approach => f.committed,
         f.at <= to, to <= f.at + Reach, to <= Limit(f, e)
  PROVE  /\ Moved(f, to, e) \in Followers
         /\ /\ Moved(f, to, e).at < Approach
            /\ Moved(f, to, e).at + Front >= Approach
            => Moved(f, to, e).committed
PROOF
  <1>1. f.at \in 0 .. Round - 1 /\ f.committed \in BOOLEAN
    BY DEF Followers
  <1>2. /\ {Reach, Approach, Connector, Front, Margin} \subseteq Nat \ {0}
        /\ Front + Margin + Reach <= Approach
        /\ Round = Approach + Connector
    BY RouteAssumption DEF Round
  <1>3. CASE to >= Round
    <2>1. /\ to - Round \in 0 .. Round - 1
          /\ to - Round + Front < Approach
      BY <1>1, <1>2, <1>3
    <2>2. /\ Moved(f, to, e) \in Followers
          /\ Moved(f, to, e).at = to - Round
      BY <1>3, <2>1, MovedOn
    <2> QED
      BY <1>1, <1>2, <2>1, <2>2
  <1>4. CASE ~(to >= Round)
    <2>1. Round \in Nat /\ to \in 0 .. Round - 1
      BY <1>1, <1>2, <1>4
    <2>2. /\ Moved(f, to, e) \in Followers
          /\ Moved(f, to, e).at = to
          /\ Moved(f, to, e).committed
               <=> (f.committed \/ Commits(f, to, e))
      BY <2>1, MovedAlong
    <2>4. ASSUME to < Approach, to + Front >= Approach,
                 ~f.committed
          PROVE  Commits(f, to, e)
      <3>1. f.at < Approach /\ f.at + Front < Approach
        BY <1>1, <1>2, <2>4
      <3>2. Line(f) = Approach
        BY <1>1, <1>2, <3>1 DEF Line
      <3>3. WaitsAt(f) = IF Approach - Front - Margin > f.at
                           THEN Approach - Front - Margin ELSE f.at
        BY <3>2 DEF WaitsAt
      <3>4. ~(to <= WaitsAt(f))
        BY <1>1, <1>2, <2>4, <3>1, <3>3
      <3>5. WaitsAt(f) <= f.at + Reach
        BY <1>1, <1>2, <3>3, <3>4
      <3>6. MayPass(f, e)
        BY <3>4, <3>5 DEF Limit
      <3>7. Green(e)
        BY <2>4, <3>6 DEF MayPass
      <3> QED
        BY <2>4, <3>1, <3>7 DEF Commits
    <2> QED
      BY <2>2, <2>4
  <1> QED
    BY <1>3, <1>4

\* A car that backs loses its leave only where it is behind the line again.
LEMMA RetreatedIsCommitted ==
  ASSUME NEW f \in Followers, NEW d \in 1 .. Back,
         f.at < Approach /\ f.at + Front >= Approach => f.committed,
         d <= f.at - LaneStart(f)
  PROVE  /\ Retreated(f, d) \in Followers
         /\ /\ Retreated(f, d).at < Approach
            /\ Retreated(f, d).at + Front >= Approach
            => Retreated(f, d).committed
PROOF
  <1>1. f.at \in 0 .. Round - 1 /\ f.committed \in BOOLEAN
    BY DEF Followers
  <1>2. /\ {Back, Approach, Connector, Front, Margin} \subseteq Nat \ {0}
        /\ Round = Approach + Connector
    BY RouteAssumption DEF Round
  <1>3. /\ Retreated(f, d).at = f.at - d
        /\ Retreated(f, d).committed
             = (f.committed /\ f.at - d + Front + Margin > Approach)
    BY DEF Retreated, Followers
  <1>4. f.at - d \in 0 .. Round - 1
    BY <1>1, <1>2 DEF LaneStart
  <1>5. Retreated(f, d) \in Followers
    BY <1>1, <1>4 DEF Retreated, Followers
  <1>6. ASSUME f.at - d < Approach, f.at - d + Front >= Approach
        PROVE  f.committed /\ f.at - d + Front + Margin > Approach
    <2>1. f.at < Approach /\ f.at + Front >= Approach
      BY <1>1, <1>2, <1>6 DEF LaneStart
    <2> QED
      BY <1>1, <1>2, <1>6, <2>1
  <1> QED
    BY <1>3, <1>5, <1>6

\* A car that is placed on its route is behind the line or on the connector.
LEMMA PlacedIsCommitted ==
  ASSUME NEW f \in Followers, NEW p, Placed(f, p)
  PROVE  f.at < Approach => f.at + Front < Approach
PROOF
  <1>1. f.at \in 0 .. Approach - Front - Margin \cup Approach .. Round - 1
    BY DEF Placed
  <1>2. {Approach, Connector, Front, Margin} \subseteq Nat \ {0}
    BY RouteAssumption
  <1> QED
    BY <1>1, <1>2 DEF Round

\* Stopping a car changes neither where it is nor its leave.
LEMMA StoppedIsCommitted ==
  ASSUME NEW f \in Followers, NEW s \in BOOLEAN
  PROVE  LET g == [f EXCEPT !.stopped = s]
         IN  g \in Followers /\ g.at = f.at /\ g.committed = f.committed
  BY DEF Followers

\* A car that changes the lane comes to a place behind the line.
LEMMA ChangedIsCommitted ==
  ASSUME NEW f \in Followers, NEW to \in 0 .. Approach - Front - Margin
  PROVE  LET g == [f EXCEPT !.at = to]
         IN  /\ g \in Followers /\ g.at = to
             /\ to + Front < Approach
PROOF
  <1>1. /\ {Approach, Connector, Front, Margin} \subseteq Nat \ {0}
        /\ Round = Approach + Connector
    BY RouteAssumption DEF Round
  <1>2. to \in 0 .. Round - 1 /\ to + Front < Approach
    BY <1>1
  <1> QED
    BY <1>2 DEF Followers

\* The substep of the car, which may end at its limit.
LEMMA DriveInv ==
  ASSUME FollowerInv, NEW n \in 0 .. Reach, Drive(follower.at + n)
  PROVE  FollowerInv'
PROOF
  <1> DEFINE to == follower.at + n
             g  == Moved(follower, to, spent)
  <1>1. /\ g \in Followers
        /\ g.at < Approach /\ g.at + Front >= Approach => g.committed
    <2>1. follower \in Followers /\ to <= Limit(follower, spent)
      BY DEF FollowerInv, FollowerTypeOK, Drive
    <2>2. to \in Nat /\ follower.at <= to /\ to <= follower.at + Reach
      BY <2>1, RouteAssumption DEF Followers, Round
    <2>3. follower.at < Approach /\ follower.at + Front >= Approach
            => follower.committed
      BY DEF FollowerInv, OverLineIsCommitted
    <2> HIDE DEF to
    <2> QED
      BY <2>1, <2>2, <2>3, MovedIsCommitted
  <1>2. follower' = g \/ follower' = [g EXCEPT !.stopped = TRUE]
    BY DEF Drive
  <1>3. /\ follower' \in Followers /\ follower'.at = g.at
        /\ follower'.committed = g.committed
    BY <1>1, <1>2, StoppedIsCommitted
  <1> QED
    BY <1>1, <1>3 DEF FollowerInv, FollowerTypeOK, OverLineIsCommitted

\* A step of a reverse.
LEMMA RetreatInv ==
  ASSUME FollowerInv, NEW d \in 1 .. Back, Retreat(d)
  PROVE  FollowerInv'
PROOF
  <1>1. /\ follower \in Followers /\ d <= follower.at - LaneStart(follower)
        /\ follower' = Retreated(follower, d)
    BY DEF FollowerInv, FollowerTypeOK, Retreat
  <1>2. follower.at < Approach /\ follower.at + Front >= Approach
          => follower.committed
    BY DEF FollowerInv, OverLineIsCommitted
  <1> QED
    BY <1>1, <1>2, RetreatedIsCommitted
       DEF FollowerInv, FollowerTypeOK, OverLineIsCommitted

\* The inductive invariant: no action puts the car over its line without leave.
LEMMA FollowerInvNext == FollowerInv /\ [Next]_vars => FollowerInv'
PROOF
  <1> SUFFICES ASSUME FollowerInv, [Next]_vars
               PROVE  FollowerInv'
    OBVIOUS
  <1>1. ASSUME follower' = follower
        PROVE  FollowerInv'
    BY <1>1 DEF FollowerInv, FollowerTypeOK, OverLineIsCommitted
  <1>2. ASSUME NEW s \in BOOLEAN, follower' = [follower EXCEPT !.stopped = s]
        PROVE  FollowerInv'
    BY <1>2, StoppedIsCommitted
       DEF FollowerInv, FollowerTypeOK, OverLineIsCommitted
  <1>3. CASE \E n \in 0 .. Reach : Drive(follower.at + n)
    BY <1>3, DriveInv
  <1>4. CASE Halt
    BY <1>2, <1>4 DEF Halt
  <1>5. CASE Freeze
    BY <1>1, <1>5 DEF Freeze
  <1>6. CASE \E d \in 1 .. Back : Retreat(d)
    BY <1>6, RetreatInv
  <1>7. CASE \E to \in 0 .. Approach - Front - Margin : ChangeLane(to)
    <2> PICK to \in 0 .. Approach - Front - Margin : ChangeLane(to)
      BY <1>7
    <2>1. follower' = [follower EXCEPT !.at = to] /\ follower \in Followers
      BY DEF ChangeLane, FollowerInv, FollowerTypeOK
    <2>2. /\ follower' \in Followers /\ follower'.at = to
          /\ to + Front < Approach
      BY <2>1, ChangedIsCommitted
    <2>3. {Approach, Front} \subseteq Nat
      BY RouteAssumption
    <2> QED
      BY <2>2, <2>3 DEF FollowerInv, FollowerTypeOK, OverLineIsCommitted
  <1>8. CASE Walk
    BY <1>1, <1>8 DEF Walk
  <1>9. CASE \E trip \in BOOLEAN : Stay(trip)
    BY <1>1, <1>9 DEF Stay
  <1>10. CASE \E active \in BOOLEAN : HeldTick(active)
    <2> PICK active \in BOOLEAN : HeldTick(active)
      BY <1>10
    <2> DEFINE s == follower.stopped \/ ~active
    <2>1. s \in BOOLEAN
      OBVIOUS
    <2>2. follower' = [follower EXCEPT !.stopped = s]
      BY DEF HeldTick
    <2> QED
      BY <1>2, <2>1, <2>2
  <1>11. CASE \E h \in net.heads : Break(h)
    BY <1>1, <1>11 DEF Break
  <1>12. CASE Restart
    <2>1. follower' \in Followers /\ Placed(follower', pedestrian')
      BY <1>12 DEF Restart
    <2>2. follower'.at < Approach => follower'.at + Front < Approach
      BY <2>1, PlacedIsCommitted
    <2>3. {Approach, Front} \subseteq Nat /\ follower'.at \in Nat
      BY <2>1, RouteAssumption DEF Followers, Round
    <2> QED
      BY <2>1, <2>2, <2>3 DEF FollowerInv, FollowerTypeOK, OverLineIsCommitted
  <1>13. CASE UNCHANGED vars
    BY <1>1, <1>13 DEF vars
  <1> QED
    BY <1>3, <1>4, <1>5, <1>6, <1>7, <1>8, <1>9, <1>10, <1>11, <1>12, <1>13
       DEF Next

\* It holds when the network has just been loaded.
LEMMA FollowerInvInit == Init => FollowerInv
PROOF
  <1> SUFFICES ASSUME Init PROVE FollowerInv
    OBVIOUS
  <1>1. follower \in Followers /\ Placed(follower, pedestrian)
    BY DEF Init
  <1>2. follower.at < Approach => follower.at + Front < Approach
    BY <1>1, PlacedIsCommitted
  <1>3. {Approach, Front} \subseteq Nat /\ follower.at \in Nat
    BY <1>1, RouteAssumption DEF Followers, Round
  <1> QED
    BY <1>1, <1>2, <1>3 DEF FollowerInv, FollowerTypeOK, OverLineIsCommitted

\* However the car drives, stops, backs, changes the lane and is placed anew,
\* for every route that has room behind its line: a nose over the line has
\* leave to go on.
THEOREM NoseOverLineMayGoOn == Spec => []OverLineIsCommitted
PROOF
  <1>1. FollowerInv => OverLineIsCommitted
    BY DEF FollowerInv
  <1> QED
    BY <1>1, FollowerInvInit, FollowerInvNext, PTL DEF Spec

\* Its place and its leave stay what they may be.
THEOREM FollowerTypeCorrect == Spec => []FollowerTypeOK
PROOF
  <1>1. FollowerInv => FollowerTypeOK
    BY DEF FollowerInv
  <1> QED
    BY <1>1, FollowerInvInit, FollowerInvNext, PTL DEF Spec

-----------------------------------------------------------------------------
(* Time on a cycle.                                                        *)

\* A multiple of the cycle is nothing or at least one cycle.
LEMMA MultipleOfCycle ==
  ASSUME NEW k \in Int, NEW C \in Nat \ {0}, k * C < C, - C < k * C
  PROVE  k = 0
PROOF
  <1>1. k >= 1 => k * C >= C
    BY Z3
  <1>2. k <= -1 => k * C <= - C
    BY Z3
  <1> QED BY <1>1, <1>2

\* What divides into cycles and what is left over.
LEMMA Rest ==
  ASSUME NEW a \in Nat, NEW C \in Nat \ {0}
  PROVE  \E q \in Nat : \E m \in 0 .. C - 1 : a = q * C + m /\ m = a % C
PROOF
  <1>1. a % C \in 0 .. C - 1
    BY Z3
  <1>2. a \div C \in Nat
    BY Z3
  <1>3. a = C * (a \div C) + (a % C)
    BY Z3
  <1>4. C * (a \div C) = (a \div C) * C
    BY <1>2, Z3
  <1>5. a = (a \div C) * C + (a % C)
    BY <1>3, <1>4
  <1> QED BY <1>1, <1>2, <1>5

\* What is left over of whole cycles.
LEMMA RestIs ==
  ASSUME NEW C \in Nat \ {0}, NEW q \in Nat, NEW r \in 0 .. C - 1
  PROVE  (q * C + r) % C = r
PROOF
  <1> DEFINE a == q * C + r
  <1>1. q * C \in Nat
    BY Z3
  <1>2. a \in Nat
    BY <1>1
  <1>3. PICK p \in Nat : \E k \in 0 .. C - 1 : a = p * C + k /\ k = a % C
    BY ONLY <1>2, C \in Nat \ {0}, Rest
  <1>m. PICK m \in 0 .. C - 1 : a = p * C + m /\ m = a % C
    BY <1>3
  <1>4. p * C \in Nat
    BY Z3
  <1>5. (p - q) * C = p * C - q * C
    BY Z3
  <1>6. (p - q) * C = r - m
    <2>1. p * C + m = q * C + r
      BY <1>m
    <2> DEFINE x == p * C
               y == q * C
    <2>2. x \in Nat /\ y \in Nat /\ x + m = y + r
      BY <1>1, <1>4, <2>1
    <2>3. (p - q) * C = x - y
      BY <1>5
    <2> HIDE DEF x, y
    <2> QED BY <2>2, <2>3
  <1>7. p - q = 0
    BY <1>6, MultipleOfCycle
  <1>8. p = q
    BY <1>7
  <1> HIDE DEF a
  <1> QED BY <1>1, <1>m, <1>8 DEF a

\* It does not matter whether whole cycles are left out before something is
\* added.
LEMMA RestOfSum ==
  ASSUME NEW C \in Nat \ {0}, NEW a \in Nat, NEW b \in Nat
  PROVE  ((a % C) + b) % C = (a + b) % C
PROOF
  <1>q. PICK q \in Nat : \E k \in 0 .. C - 1 : a = q * C + k /\ k = a % C
    BY Rest
  <1>1. PICK m \in 0 .. C - 1 : a = q * C + m /\ m = a % C
    BY <1>q
  <1>2. m + b \in Nat
    OBVIOUS
  <1>p. PICK p \in Nat : \E k \in 0 .. C - 1 : m + b = p * C + k /\ k = (m + b) % C
    BY <1>2, Rest
  <1>3. PICK r \in 0 .. C - 1 : m + b = p * C + r /\ r = (m + b) % C
    BY <1>p
  <1>4. q + p \in Nat
    OBVIOUS
  <1>5. (q + p) * C = q * C + p * C
    BY Z3
  <1>6. q * C \in Nat /\ p * C \in Nat
    BY Z3
  <1>7. a + b = (q + p) * C + r
    <2> DEFINE x == q * C
               y == p * C
    <2>1. x \in Nat /\ y \in Nat /\ a = x + m /\ m + b = y + r
      BY <1>1, <1>3, <1>6
    <2>2. (q + p) * C = x + y
      BY <1>5
    <2> HIDE DEF x, y
    <2> QED BY <2>1, <2>2
  <1>8. ((q + p) * C + r) % C = r
    BY <1>4, RestIs
  <1> QED BY <1>1, <1>3, <1>7, <1>8

\* Less than a cycle past the end of one.
LEMMA RestInCycle ==
  ASSUME NEW C \in Nat \ {0}, NEW a \in 0 .. C - 1
  PROVE  a % C = a /\ (a + C) % C = a
PROOF
  <1>1. 0 * C = 0 /\ 1 * C = C
    BY Z3
  <1>2. (0 * C + a) % C = a /\ (1 * C + a) % C = a
    BY RestIs
  <1> QED BY <1>1, <1>2

-----------------------------------------------------------------------------
(* The phases of a plan.                                                   *)

\* A plan that is not empty, and how many phases it has.
HasPhases(n) == n \in Networks /\ n.phases # <<>>

Until(n, i) == Span(n, 1 .. i)

\* A plan as the assumptions describe it.
LEMMA PhasesAre ==
  ASSUME NEW n, HasPhases(n)
  PROVE  /\ Len(n.phases) \in Nat \ {0} /\ n.offset \in Nat
         /\ DOMAIN n.phases = 1 .. Len(n.phases)
         /\ DOMAIN Lasts(n) = 1 .. Len(n.phases)
         /\ \A i \in 1 .. Len(n.phases) : Lasts(n)[i] \in Nat \ {0}
PROOF
  <1> DEFINE P == [ lasts : Nat \ {0}, green : SUBSET (Nat \ {NoGroup}),
                    yellow : SUBSET (Nat \ {NoGroup}) ]
             s == n.phases
  <1>1. s \in Seq(P) /\ s # <<>> /\ n.offset \in Nat
    BY NetworkAssumption DEF HasPhases
  <1>2. Lasts(n) = [i \in DOMAIN s |-> s[i].lasts]
    BY DEF Lasts
  <1> HIDE DEF s
  <1>3. Len(s) \in Nat \ {0} /\ DOMAIN s = 1 .. Len(s)
    BY <1>1, EmptySeq, LenProperties
  <1>4. \A i \in 1 .. Len(s) : s[i] \in P
    BY <1>1, ElementOfSeq
  <1>5. \A i \in 1 .. Len(s) : s[i].lasts \in Nat \ {0}
    BY <1>4
  <1> QED BY <1>1, <1>2, <1>3, <1>5 DEF s

\* The spans of an interval of phases, and of one more phase.
LEMMA SpanOfInterval ==
  ASSUME NEW n, HasPhases(n),
         NEW a \in 1 .. Len(n.phases) + 1, NEW b \in a - 1 .. Len(n.phases)
  PROVE  /\ Span(n, a .. b) \in Nat
         /\ b < a => Span(n, a .. b) = 0
         /\ b < Len(n.phases) =>
              Span(n, a .. b + 1) = Lasts(n)[b + 1] + Span(n, a .. b)
PROOF
  <1> DEFINE f == Lasts(n)
             N == Len(n.phases)
  <1>1. N \in Nat \ {0} /\ \A i \in 1 .. N : f[i] \in Nat
    BY PhasesAre
  <1>2. a \in 1 .. N + 1 /\ b \in a - 1 .. N
    OBVIOUS
  <1> HIDE DEF f, N
  <1>3. IsFiniteSet(a .. b)
    BY <1>1, <1>2, FS_Interval
  <1>4. \A i \in a .. b : f[i] \in Nat /\ f[i] = f[i]
    BY <1>1, <1>2
  <1>5. SumFunctionOnSet(f, a .. b) \in Nat
    BY <1>3, <1>4, SumsAgree
  <1>6. ASSUME b < a PROVE SumFunctionOnSet(f, a .. b) = 0
    <2>1. a .. b = {}
      BY <1>1, <1>2, <1>6
    <2> QED BY <1>3, <2>1, SumTakesAny
  <1>7. ASSUME b < N
        PROVE  SumFunctionOnSet(f, a .. b + 1)
                 = f[b + 1] + SumFunctionOnSet(f, a .. b)
    <2>1. a .. b + 1 = (a .. b) \cup {b + 1} /\ b + 1 \notin a .. b
      BY <1>1, <1>2
    <2>2. \A y \in (a .. b) \cup {b + 1} : f[y] \in Nat
      BY <1>1, <1>2, <1>7
    <2> QED BY <1>3, <2>1, <2>2, SumWithOneMore
  <1> QED BY <1>5, <1>6, <1>7 DEF Span, f, N

\* When each phase ends, from one to the next.
LEMMA UntilIs ==
  ASSUME NEW n, HasPhases(n)
  PROVE  /\ Until(n, 0) = 0
         /\ \A i \in 0 .. Len(n.phases) : Until(n, i) \in Nat
         /\ \A i \in 1 .. Len(n.phases) :
              Until(n, i) = Lasts(n)[i] + Until(n, i - 1)
         /\ Until(n, Len(n.phases)) = Cycle(n)
PROOF
  <1> DEFINE N == Len(n.phases)
  <1>1. N \in Nat \ {0} /\ DOMAIN n.phases = 1 .. N
    BY PhasesAre
  <1>2. 1 \in 1 .. N + 1
    BY <1>1
  <1>3. ASSUME NEW b \in 0 .. N
        PROVE  /\ Until(n, b) \in Nat
               /\ b < 1 => Until(n, b) = 0
               /\ b < N => Until(n, b + 1) = Lasts(n)[b + 1] + Until(n, b)
    BY <1>2, SpanOfInterval DEF Until
  <1> HIDE DEF N
  <1>4. ASSUME NEW i \in 1 .. N
        PROVE  Until(n, i) = Lasts(n)[i] + Until(n, i - 1)
    <2>1. i - 1 \in 0 .. N /\ i - 1 < N /\ (i - 1) + 1 = i
      BY <1>1
    <2> QED BY <1>3, <2>1
  <1>5. 0 \in 0 .. N /\ 0 < 1
    BY <1>1
  <1> QED BY <1>1, <1>3, <1>4, <1>5 DEF Until, Cycle, N

\* Later phases end later.
LEMMA UntilGrows ==
  ASSUME NEW n, HasPhases(n),
         NEW i \in 0 .. Len(n.phases), NEW j \in i .. Len(n.phases)
  PROVE  /\ Until(n, i) <= Until(n, j)
         /\ i < j => Until(n, i) < Until(n, j)
PROOF
  <1> DEFINE N == Len(n.phases)
             S == {k \in i .. N : /\ Until(n, i) <= Until(n, k)
                                  /\ i < k => Until(n, i) < Until(n, k)}
  <1>1. N \in Nat \ {0} /\ \A k \in 1 .. N : Lasts(n)[k] \in Nat \ {0}
    BY PhasesAre
  <1>2. /\ \A k \in 0 .. N : Until(n, k) \in Nat
        /\ \A k \in 1 .. N : Until(n, k) = Lasts(n)[k] + Until(n, k - 1)
    BY UntilIs
  <1>3. i \in 0 .. N /\ j \in i .. N /\ i \in Int /\ N \in Int
    BY <1>1
  <1> HIDE DEF N
  <1>4. i \in S
    BY <1>1, <1>2, <1>3
  <1>5. ASSUME NEW k \in i .. N - 1, k \in S PROVE k + 1 \in S
    <2>1. k + 1 \in 1 .. N /\ (k + 1) - 1 = k /\ k \in 0 .. N /\ k + 1 \in i .. N
      BY <1>1, <1>3
    <2>2. /\ Until(n, k + 1) = Lasts(n)[k + 1] + Until(n, k)
          /\ Lasts(n)[k + 1] \in Nat \ {0} /\ Until(n, k) \in Nat
          /\ Until(n, i) \in Nat
      BY <1>1, <1>2, <1>3, <2>1
    <2>3. Until(n, i) <= Until(n, k)
      BY <1>5
    <2>4. Until(n, i) < Until(n, k + 1)
      BY <2>2, <2>3
    <2>5. Until(n, i) <= Until(n, k + 1)
      BY <2>2, <2>3
    <2> QED BY <2>1, <2>4, <2>5
  <1>6. j \in S => /\ Until(n, i) <= Until(n, j)
                   /\ i < j => Until(n, i) < Until(n, j)
    OBVIOUS
  <1> HIDE DEF S
  <1>7. \A k \in i .. N : k \in S
    BY ONLY <1>3, <1>4, <1>5, IntervalInduction
  <1> QED BY <1>3, <1>6, <1>7

\* A cycle takes some time.
LEMMA CycleIs ==
  ASSUME NEW n, HasPhases(n)
  PROVE  Cycle(n) \in Nat \ {0}
PROOF
  <1>1. Len(n.phases) \in Nat \ {0}
    BY PhasesAre
  <1>2. 0 \in 0 .. Len(n.phases) /\ Len(n.phases) \in 0 .. Len(n.phases)
        /\ 0 < Len(n.phases)
    BY <1>1
  <1>3. Until(n, 0) < Until(n, Len(n.phases))
    BY <1>2, UntilGrows
  <1>4. Until(n, 0) = 0 /\ Until(n, Len(n.phases)) \in Nat
        /\ Until(n, Len(n.phases)) = Cycle(n)
    BY <1>2, UntilIs
  <1> QED BY <1>3, <1>4

\* At every time of the cycle there is a phase.
LEMMA PhaseAtIs ==
  ASSUME NEW n, HasPhases(n), NEW t \in 0 .. Cycle(n) - 1
  PROVE  /\ PhaseAt(n, t) \in 1 .. Len(n.phases)
         /\ Until(n, PhaseAt(n, t) - 1) <= t /\ t < Until(n, PhaseAt(n, t))
PROOF
  <1> DEFINE N == Len(n.phases)
             T == {i \in 1 .. N : t < Until(n, i)}
  <1>1. N \in Nat \ {0} /\ DOMAIN n.phases = 1 .. N
    BY PhasesAre
  <1>2. /\ \A k \in 0 .. N : Until(n, k) \in Nat
        /\ Until(n, N) = Cycle(n) /\ Until(n, 0) = 0
    BY UntilIs
  <1>3. Cycle(n) \in Nat \ {0}
    BY CycleIs
  <1> HIDE DEF N
  <1>4. N \in T /\ T \in SUBSET Nat
    BY <1>1, <1>2, <1>3
  <1>5. PICK i \in T : \A j \in T : i <= j
    BY <1>4, LeastOfNaturals
  <1>6. i \in 1 .. N /\ t < Until(n, i)
    BY <1>5
  <1>7. Until(n, i - 1) <= t
    <2>1. i - 1 \in 0 .. N /\ ~(i <= i - 1)
      BY <1>1, <1>6
    <2>2. i - 1 \notin T
      BY <1>5, <2>1
    <2>3. i - 1 = 0 \/ i - 1 \in 1 .. N
      BY <1>1, <2>1
    <2>4. CASE i - 1 = 0
      BY <1>2, <2>4
    <2>5. CASE i - 1 \in 1 .. N
      <3>1. ~(t < Until(n, i - 1))
        BY <2>2, <2>5
      <3>2. Until(n, i - 1) \in Nat
        BY <1>2, <2>1
      <3> QED BY <1>3, <3>1, <3>2
    <2> QED BY <2>3, <2>4, <2>5
  <1>8. \E k \in DOMAIN n.phases : Span(n, 1 .. k - 1) <= t /\ t < Span(n, 1 .. k)
    BY <1>1, <1>6, <1>7 DEF Until
  <1>9. /\ PhaseAt(n, t) \in DOMAIN n.phases
        /\ Span(n, 1 .. PhaseAt(n, t) - 1) <= t
        /\ t < Span(n, 1 .. PhaseAt(n, t))
    BY <1>8 DEF PhaseAt
  <1> QED BY <1>1, <1>9 DEF Until, N

\* And it lies between phases between which the time lies.
LEMMA PhaseBetween ==
  ASSUME NEW n, HasPhases(n), NEW t \in 0 .. Cycle(n) - 1,
         NEW j \in 0 .. Len(n.phases), NEW k \in 0 .. Len(n.phases),
         Until(n, j) <= t, t < Until(n, k)
  PROVE  PhaseAt(n, t) \in j + 1 .. k
PROOF
  <1> DEFINE N == Len(n.phases)
             p == PhaseAt(n, t)
  <1>1. N \in Nat \ {0}
    BY PhasesAre
  <1>2. p \in 1 .. N /\ Until(n, p - 1) <= t /\ t < Until(n, p)
    BY PhaseAtIs
  <1>3. \A i \in 0 .. N : Until(n, i) \in Nat
    BY UntilIs
  <1>4. Cycle(n) \in Nat \ {0}
    BY CycleIs
  <1>5. \A i \in 0 .. N, l \in 0 .. N : i <= l => Until(n, i) <= Until(n, l)
    <2> SUFFICES ASSUME NEW i \in 0 .. N, NEW l \in 0 .. N, i <= l
                 PROVE  Until(n, i) <= Until(n, l)
      OBVIOUS
    <2>1. l \in i .. N
      BY <1>1
    <2> QED BY <2>1, UntilGrows
  <1>6. j \in 0 .. N /\ k \in 0 .. N /\ p - 1 \in 0 .. N /\ p \in 0 .. N
    BY <1>1, <1>2
  <1> HIDE DEF N, p
  <1>7. ~(p <= j)
    <2>1. p <= j => Until(n, p) <= Until(n, j)
      BY <1>5, <1>6
    <2> QED BY <1>2, <1>3, <1>4, <1>6, <2>1
  <1>8. ~(k <= p - 1)
    <2>1. k <= p - 1 => Until(n, k) <= Until(n, p - 1)
      BY <1>5, <1>6
    <2> QED BY <1>2, <1>3, <1>4, <1>6, <2>1
  <1>9. p \in j + 1 .. k
    BY <1>1, <1>6, <1>7, <1>8
  <1> QED BY <1>9 DEF p

\* What an interval of phases lasts.
LEMMA SpanIs ==
  ASSUME NEW n, HasPhases(n),
         NEW a \in 1 .. Len(n.phases), NEW b \in a - 1 .. Len(n.phases)
  PROVE  Span(n, a .. b) = Until(n, b) - Until(n, a - 1)
PROOF
  <1> DEFINE N == Len(n.phases)
             S == {k \in a - 1 .. N :
                     Span(n, a .. k) = Until(n, k) - Until(n, a - 1)}
  <1>1. N \in Nat \ {0} /\ a \in 1 .. N /\ a \in 1 .. N + 1 /\ b \in a - 1 .. N
        /\ a - 1 \in Int /\ N \in Int
    BY PhasesAre
  <1>2. \A k \in 0 .. N : Until(n, k) \in Nat
    BY UntilIs
  <1>3. \A k \in 1 .. N : Until(n, k) = Lasts(n)[k] + Until(n, k - 1)
    BY UntilIs
  <1>4. ASSUME NEW k \in a - 1 .. N
        PROVE  /\ k < a => Span(n, a .. k) = 0
               /\ k < N => Span(n, a .. k + 1) = Lasts(n)[k + 1] + Span(n, a .. k)
    BY <1>1, SpanOfInterval
  <1>5. \A k \in 1 .. N : Lasts(n)[k] \in Nat
    BY PhasesAre
  <1> HIDE DEF N
  <1>6. a - 1 \in S
    <2>1. a - 1 \in a - 1 .. N /\ a - 1 < a /\ a - 1 \in 0 .. N
      BY <1>1
    <2> QED BY <1>2, <1>4, <2>1
  <1>7. ASSUME NEW k \in a - 1 .. N - 1, k \in S PROVE k + 1 \in S
    <2>1. /\ k \in a - 1 .. N /\ k < N /\ k + 1 \in 1 .. N /\ (k + 1) - 1 = k
          /\ k \in 0 .. N /\ k + 1 \in a - 1 .. N /\ a - 1 \in 0 .. N
      BY <1>1
    <2>2. Span(n, a .. k + 1) = Lasts(n)[k + 1] + Span(n, a .. k)
      BY <1>4, <2>1
    <2>3. Until(n, k + 1) = Lasts(n)[k + 1] + Until(n, k)
      BY <1>3, <2>1
    <2>4. Span(n, a .. k) = Until(n, k) - Until(n, a - 1)
      BY <1>7
    <2>5. Until(n, k) \in Nat /\ Until(n, a - 1) \in Nat /\ Lasts(n)[k + 1] \in Nat
      BY <1>2, <1>5, <2>1
    <2>6. Span(n, a .. k + 1) = Until(n, k + 1) - Until(n, a - 1)
      BY <2>2, <2>3, <2>4, <2>5
    <2> QED BY <2>1, <2>6
  <1>8. b \in S => Span(n, a .. b) = Until(n, b) - Until(n, a - 1)
    OBVIOUS
  <1> HIDE DEF S
  <1>9. \A k \in a - 1 .. N : k \in S
    BY ONLY <1>1, <1>6, <1>7, IntervalInduction
  <1> QED BY <1>1, <1>8, <1>9

\* What the phases from a on and, over the end of the cycle, up to b last.
LEMMA SpanOverEnd ==
  ASSUME NEW n, HasPhases(n),
         NEW a \in 1 .. Len(n.phases), NEW b \in 0 .. a - 1
  PROVE  Span(n, (a .. Len(n.phases)) \cup (1 .. b))
           = Cycle(n) - Until(n, a - 1) + Until(n, b)
PROOF
  <1> DEFINE N == Len(n.phases)
             A == a .. N
             f == Lasts(n)
             S == {k \in 0 .. a - 1 :
                     SumFunctionOnSet(f, A \cup (1 .. k))
                       = Cycle(n) - Until(n, a - 1) + Until(n, k)}
  <1>1. N \in Nat \ {0} /\ a \in 1 .. N /\ a - 1 \in 0 .. N /\ b \in 0 .. a - 1
        /\ N \in a - 1 .. N /\ a - 1 \in Int /\ 0 \in Int
    BY PhasesAre
  <1>2. \A k \in 0 .. N : Until(n, k) \in Nat
    BY UntilIs
  <1>3. \A k \in 1 .. N : Until(n, k) = f[k] + Until(n, k - 1)
    BY UntilIs
  <1>4. Until(n, N) = Cycle(n) /\ Until(n, 0) = 0
    BY UntilIs
  <1>5. \A k \in 1 .. N : f[k] \in Nat
    BY PhasesAre
  <1>6. SumFunctionOnSet(f, A) = Cycle(n) - Until(n, a - 1)
    <2>1. Span(n, a .. N) = Until(n, N) - Until(n, a - 1)
      BY <1>1, SpanIs
    <2> QED BY <1>4, <2>1 DEF Span
  <1>7. \A k \in 0 .. N : IsFiniteSet(A \cup (1 .. k))
    <2> SUFFICES ASSUME NEW k \in 0 .. N PROVE IsFiniteSet(A \cup (1 .. k))
      OBVIOUS
    <2>1. IsFiniteSet(a .. N) /\ IsFiniteSet(1 .. k)
      BY <1>1, FS_Interval
    <2> QED BY <2>1, FS_Union
  <1> HIDE DEF f, N
  <1>8. 0 \in S
    <2>1. A \cup (1 .. 0) = A /\ 0 \in 0 .. a - 1
      BY <1>1
    <2>2. Cycle(n) - Until(n, a - 1) + Until(n, 0) = Cycle(n) - Until(n, a - 1)
      <3>1. Cycle(n) \in Nat /\ Until(n, a - 1) \in Nat
        BY <1>1, <1>2, CycleIs
      <3> QED BY <1>4, <3>1
    <2> QED BY <1>6, <2>1, <2>2
  <1>9. ASSUME NEW k \in 0 .. (a - 1) - 1, k \in S PROVE k + 1 \in S
    <2>1. /\ k + 1 \in 1 .. N /\ (k + 1) - 1 = k /\ k \in 0 .. N
          /\ k + 1 \in 0 .. a - 1 /\ a - 1 \in 0 .. N
      BY <1>1
    <2>2. /\ A \cup (1 .. k + 1) = (A \cup (1 .. k)) \cup {k + 1}
          /\ k + 1 \notin A \cup (1 .. k)
      BY <1>1
    <2>3. \A y \in (A \cup (1 .. k)) \cup {k + 1} : f[y] \in Nat
      BY <1>1, <1>5
    <2>4. IsFiniteSet(A \cup (1 .. k))
      BY <1>7, <2>1
    <2>5. SumFunctionOnSet(f, (A \cup (1 .. k)) \cup {k + 1})
            = f[k + 1] + SumFunctionOnSet(f, A \cup (1 .. k))
      BY <2>2, <2>3, <2>4, SumWithOneMore
    <2>6. Until(n, k + 1) = f[k + 1] + Until(n, k)
      BY <1>3, <2>1
    <2>7. SumFunctionOnSet(f, A \cup (1 .. k))
            = Cycle(n) - Until(n, a - 1) + Until(n, k)
      BY <1>9
    <2>8. /\ Until(n, k) \in Nat /\ Until(n, a - 1) \in Nat /\ f[k + 1] \in Nat
          /\ Cycle(n) \in Nat
      BY <1>2, <1>5, <2>1, CycleIs
    <2>9. f[k + 1] + (Cycle(n) - Until(n, a - 1) + Until(n, k))
            = Cycle(n) - Until(n, a - 1) + Until(n, k + 1)
      BY <2>6, <2>8
    <2>10. SumFunctionOnSet(f, A \cup (1 .. k + 1))
             = Cycle(n) - Until(n, a - 1) + Until(n, k + 1)
      BY ONLY <2>2, <2>5, <2>7, <2>9
    <2> QED BY <2>1, <2>10
  <1>10. b \in S => SumFunctionOnSet(f, A \cup (1 .. b))
                      = Cycle(n) - Until(n, a - 1) + Until(n, b)
    OBVIOUS
  <1> HIDE DEF S, A
  <1>11. \A k \in 0 .. a - 1 : k \in S
    BY ONLY <1>1, <1>8, <1>9, IntervalInduction
  <1> QED BY <1>1, <1>10, <1>11 DEF Span, f, A, N

-----------------------------------------------------------------------------
(* The countdown.                                                          *)

\* The phase k after phase i, where k is less than a round.
LEMMA FollowingIs ==
  ASSUME NEW n, HasPhases(n), NEW i \in 1 .. Len(n.phases),
         NEW k \in 0 .. Len(n.phases) - 1
  PROVE  Following(n, i, k) = IF i + k <= Len(n.phases)
                                THEN i + k ELSE i + k - Len(n.phases)
PROOF
  <1> DEFINE N == Len(n.phases)
             a == i + k - 1
  <1>1. N \in Nat \ {0} /\ i \in 1 .. N /\ k \in 0 .. N - 1
    BY PhasesAre
  <1>2. Following(n, i, k) = (a % N) + 1
    BY DEF Following
  <1> HIDE DEF N
  <1>3. CASE i + k <= N
    <2>1. a \in 0 .. N - 1
      BY <1>1, <1>3
    <2>2. a % N = a
      BY <1>1, <2>1, RestInCycle
    <2>3. (i + k - 1) + 1 = i + k
      BY <1>1
    <2> QED BY <1>2, <1>3, <2>2, <2>3 DEF N
  <1>4. CASE ~(i + k <= N)
    <2>1. a - N \in 0 .. N - 1 /\ (a - N) + N = a
      BY <1>1, <1>4
    <2>2. a % N = a - N
      BY <1>1, <2>1, RestInCycle
    <2>3. (a - N) + 1 = i + k - N
      BY <1>1
    <2> QED BY <1>2, <1>4, <2>2, <2>3 DEF N
  <1> QED BY <1>3, <1>4

\* Phase p shows the group what phase i shows it.
Same(n, i, p, group) ==
  Aspect(n.phases[p], group) = Aspect(n.phases[i], group)

\* The phases that show the same are the first ones from phase i on, itself
\* among them.
LEMMA AlikeIs ==
  ASSUME NEW n, HasPhases(n), NEW i \in 1 .. Len(n.phases), NEW group
  PROVE  \E m \in 1 .. Len(n.phases) :
           /\ Alike(n, i, group) = 0 .. m - 1
           /\ \A k \in 0 .. m - 1 : Same(n, i, Following(n, i, k), group)
PROOF
  <1> DEFINE N == Len(n.phases)
             A == Alike(n, i, group)
             S(k) == Same(n, i, Following(n, i, k), group)
  <1>1. N \in Nat \ {0} /\ i \in 1 .. N
    BY PhasesAre
  <1>2. A = {k \in 0 .. N - 1 : \A j \in 0 .. k : S(j)}
    BY DEF Alike, Same
  <1>3. S(0)
    <2>1. 0 \in 0 .. N - 1 /\ i + 0 = i /\ i <= N
      BY <1>1
    <2>2. Following(n, i, 0) = i
      BY <2>1, FollowingIs
    <2> QED BY <2>2 DEF Same
  <1> HIDE DEF N, A, S
  <1>4. 0 \in A
    <2>1. 0 \in 0 .. N - 1 /\ \A j \in 0 .. 0 : j = 0
      BY <1>1
    <2> QED BY <1>2, <1>3, <2>1
  <1>5. A \in SUBSET Nat /\ A # {} /\ N \in Nat /\ \A k \in A : k <= N
    <2>1. A \subseteq 0 .. N - 1
      BY <1>2
    <2> QED BY <1>1, <1>4, <2>1
  <1>6. PICK g \in A : \A k \in A : k <= g
    BY ONLY <1>5, GreatestOfNaturals
  <1>7. g \in 0 .. N - 1 /\ \A j \in 0 .. g : S(j)
    BY <1>2, <1>6
  <1>8. A = 0 .. g
    <2>1. ASSUME NEW k \in 0 .. g PROVE k \in A
      <3>1. k \in 0 .. N - 1 /\ \A j \in 0 .. k : j \in 0 .. g
        BY <1>1, <1>7
      <3> QED BY <1>2, <1>7, <3>1
    <2>2. ASSUME NEW k \in A PROVE k \in 0 .. g
      <3>1. k \in 0 .. N - 1 /\ k <= g
        BY <1>2, <1>6
      <3> QED BY <1>7, <3>1
    <2> QED BY <2>1, <2>2
  <1>9. g + 1 \in 1 .. N /\ (g + 1) - 1 = g
    BY <1>1, <1>7
  <1> QED BY <1>7, <1>8, <1>9 DEF N, A, S

\* A run of phases that show the same, from phase i on: on this side of the
\* end of the cycle, or over it up to phase b.
Run(n, i, b) ==
  IF i <= b THEN i .. b ELSE (i .. Len(n.phases)) \cup (1 .. b)

\* The phases the countdown counts are a run that shows the same throughout.
LEMMA RunIs ==
  ASSUME NEW n, HasPhases(n), NEW i \in 1 .. Len(n.phases), NEW group
  PROVE  \E b \in 0 .. Len(n.phases) :
           /\ {Following(n, i, k) : k \in Alike(n, i, group)} = Run(n, i, b)
           /\ \A p \in Run(n, i, b) : Same(n, i, p, group)
PROOF
  <1> DEFINE N == Len(n.phases)
             F(k) == Following(n, i, k)
  <1>1. N \in Nat \ {0} /\ i \in 1 .. N
    BY PhasesAre
  <1>2. PICK m \in 1 .. N : /\ Alike(n, i, group) = 0 .. m - 1
                            /\ \A k \in 0 .. m - 1 : Same(n, i, F(k), group)
    BY AlikeIs
  <1>3. \A k \in 0 .. N - 1 : F(k) = IF i + k <= N THEN i + k ELSE i + k - N
    BY FollowingIs
  <1> HIDE DEF F, N
  <1>4. {F(k) : k \in 0 .. m - 1}
          = IF i + m - 1 <= N THEN i .. i + m - 1
            ELSE (i .. N) \cup (1 .. i + m - 1 - N)
    <2> DEFINE R == {F(k) : k \in 0 .. m - 1}
    <2>1. \A k \in 0 .. m - 1 : k \in 0 .. N - 1
      BY <1>1
    <2>2. CASE i + m - 1 <= N
      <3>1. \A k \in 0 .. m - 1 : F(k) = i + k /\ i + k \in i .. i + m - 1
        BY <1>1, <1>3, <2>1, <2>2
      <3>2. \A p \in i .. i + m - 1 : p - i \in 0 .. m - 1 /\ i + (p - i) = p
        BY <1>1
      <3>3. R \subseteq i .. i + m - 1
        BY <3>1
      <3>4. ASSUME NEW p \in i .. i + m - 1 PROVE p \in R
        <4>1. p - i \in 0 .. m - 1 /\ F(p - i) = p
          BY <3>1, <3>2
        <4> QED BY <4>1
      <3> HIDE DEF R
      <3>5. R = i .. i + m - 1
        BY <3>3, <3>4
      <3> QED BY <2>2, <3>5 DEF R
    <2>3. CASE ~(i + m - 1 <= N)
      <3> DEFINE U == (i .. N) \cup (1 .. i + m - 1 - N)
      <3>1. ASSUME NEW k \in 0 .. m - 1 PROVE F(k) \in U
        <4>1. F(k) = IF i + k <= N THEN i + k ELSE i + k - N
          BY <1>3, <2>1
        <4>2. CASE i + k <= N
          BY <1>1, <4>1, <4>2
        <4>3. CASE ~(i + k <= N)
          BY <1>1, <4>1, <4>3
        <4> QED BY <4>2, <4>3
      <3>2. ASSUME NEW p \in i .. N PROVE p \in R
        <4>1. /\ p - i \in 0 .. m - 1 /\ i + (p - i) = p /\ p <= N
              /\ p - i \in 0 .. N - 1
          BY <1>1, <2>3
        <4>2. F(p - i) = p
          BY <1>3, <4>1
        <4> QED BY <4>1, <4>2
      <3>3. ASSUME NEW p \in 1 .. i + m - 1 - N PROVE p \in R
        <4>1. /\ p + N - i \in 0 .. m - 1 /\ i + (p + N - i) = p + N
              /\ p + N - i \in 0 .. N - 1 /\ ~(p + N <= N) /\ p + N - N = p
          BY <1>1, <2>3
        <4>2. F(p + N - i) = i + (p + N - i) - N
          <5> DEFINE k == p + N - i
          <5>1. k \in 0 .. N - 1 /\ ~(i + k <= N)
            BY <4>1
          <5> HIDE DEF k
          <5>2. F(k) = i + k - N
            BY <1>3, <5>1
          <5> QED BY <5>2 DEF k
        <4>3. F(p + N - i) = p
          BY <1>1, <4>1, <4>2
        <4> QED BY <4>1, <4>3
      <3>4. R \subseteq U
        BY <3>1
      <3>5. U \subseteq R
        BY <3>2, <3>3
      <3> HIDE DEF R
      <3>6. R = U
        BY <3>4, <3>5
      <3> QED BY <2>3, <3>6 DEF R
    <2> QED BY <2>2, <2>3
  <1>5. PICK b \in 0 .. N : {F(k) : k \in 0 .. m - 1} = Run(n, i, b)
    <2>1. CASE i + m - 1 <= N
      <3>1. i + m - 1 \in 0 .. N /\ i <= i + m - 1
        BY <1>1, <2>1
      <3>2. {F(k) : k \in 0 .. m - 1} = Run(n, i, i + m - 1)
        BY <1>4, <2>1, <3>1 DEF Run
      <3> QED BY <3>1, <3>2
    <2>2. CASE ~(i + m - 1 <= N)
      <3>1. i + m - 1 - N \in 0 .. N /\ ~(i <= i + m - 1 - N)
        BY <1>1, <2>2
      <3>2. {F(k) : k \in 0 .. m - 1} = Run(n, i, i + m - 1 - N)
        BY <1>4, <2>2, <3>1 DEF Run, N
      <3> QED BY <3>1, <3>2
    <2> QED BY <2>1, <2>2
  <1>6. \A p \in {F(k) : k \in 0 .. m - 1} : Same(n, i, p, group)
    BY <1>2 DEF F
  <1>7. {F(k) : k \in Alike(n, i, group)} = Run(n, i, b)
    BY <1>2, <1>5
  <1> QED BY <1>5, <1>6, <1>7 DEF N, F

\* What a run lasts after time t of its first phase, and what is shown then.
LEMMA RunLasts ==
  ASSUME NEW n, HasPhases(n), NEW t \in 0 .. Cycle(n) - 1,
         NEW b \in 0 .. Len(n.phases), NEW u \in Nat,
         u < Span(n, Run(n, PhaseAt(n, t), b)) - (t - Until(n, PhaseAt(n, t) - 1))
  PROVE  PhaseAt(n, (t + u) % Cycle(n)) \in Run(n, PhaseAt(n, t), b)
PROOF
  <1> DEFINE N == Len(n.phases)
             i == PhaseAt(n, t)
             C == Cycle(n)
  <1>1. N \in Nat \ {0} /\ C \in Nat \ {0} /\ t \in 0 .. C - 1 /\ b \in 0 .. N
    BY PhasesAre, CycleIs
  <1>2. i \in 1 .. N /\ Until(n, i - 1) <= t /\ t < Until(n, i)
    BY PhaseAtIs
  <1>3. /\ \A k \in 0 .. N : Until(n, k) \in Nat
        /\ Until(n, N) = C /\ Until(n, 0) = 0
    BY UntilIs
  <1>4. \A k \in 0 .. N : Until(n, k) <= C
    <2> SUFFICES ASSUME NEW k \in 0 .. N PROVE Until(n, k) <= C
      OBVIOUS
    <2>1. N \in k .. N
      BY <1>1
    <2> QED BY <1>3, <2>1, UntilGrows
  <1>5. \A v \in 0 .. C - 1, j \in 0 .. N, k \in 0 .. N :
          Until(n, j) <= v /\ v < Until(n, k) => PhaseAt(n, v) \in j + 1 .. k
    BY PhaseBetween
  <1>6. i - 1 \in 0 .. N /\ i \in 0 .. N /\ (i - 1) + 1 = i
    BY <1>1, <1>2
  <1>7. /\ Until(n, i - 1) \in Nat /\ Until(n, b) \in Nat
        /\ Until(n, i - 1) <= C /\ Until(n, b) <= C
    BY <1>1, <1>3, <1>4, <1>6
  <1>8. CASE i <= b
    <2>1. b \in i - 1 .. N
      BY <1>1, <1>2, <1>8
    <2>2. Span(n, i .. b) = Until(n, b) - Until(n, i - 1)
      BY <1>2, <2>1, SpanIs
    <2>3. Run(n, i, b) = i .. b
      BY <1>8 DEF Run
    <2> HIDE DEF N, i, C
    <2>4. u < (Until(n, b) - Until(n, i - 1)) - (t - Until(n, i - 1))
      BY <2>2, <2>3 DEF i
    <2>5. /\ t + u < Until(n, b) /\ t + u \in 0 .. C - 1
          /\ Until(n, i - 1) <= t + u
      BY <1>1, <1>2, <1>7, <2>4
    <2>6. (t + u) % C = t + u
      BY <1>1, <2>5, RestInCycle
    <2>7. PhaseAt(n, t + u) \in (i - 1) + 1 .. b
      BY <1>1, <1>5, <1>6, <2>5
    <2> QED BY <1>6, <2>3, <2>6, <2>7 DEF i, C
  <1>9. CASE ~(i <= b)
    <2>1. b \in 0 .. i - 1
      BY <1>1, <1>2, <1>9
    <2>2. Span(n, (i .. N) \cup (1 .. b)) = C - Until(n, i - 1) + Until(n, b)
      BY <1>2, <2>1, SpanOverEnd
    <2>3. Run(n, i, b) = (i .. N) \cup (1 .. b)
      BY <1>9 DEF Run
    <2> HIDE DEF N, i, C
    <2>4. u < (C - Until(n, i - 1) + Until(n, b)) - (t - Until(n, i - 1))
      BY <2>2, <2>3 DEF i, N
    <2>5. t + u < C + Until(n, b) /\ Until(n, i - 1) <= t + u
      BY <1>1, <1>2, <1>7, <2>4
    <2>6. CASE t + u < C
      <3>1. t + u \in 0 .. C - 1 /\ N \in 0 .. N
        BY <1>1, <2>6
      <3>2. (t + u) % C = t + u
        BY <1>1, <3>1, RestInCycle
      <3>3. PhaseAt(n, t + u) \in (i - 1) + 1 .. N
        BY <1>3, <1>5, <1>6, <2>5, <2>6, <3>1
      <3> QED BY <1>6, <2>3, <3>2, <3>3 DEF i, C
    <2>7. CASE ~(t + u < C)
      <3> DEFINE v == t + u - C
      <3>1. v \in 0 .. C - 1 /\ v + C = t + u /\ v < Until(n, b) /\ 0 <= v
        BY <1>1, <1>7, <2>5, <2>7
      <3> HIDE DEF v
      <3>2. (t + u) % C = v
        BY <1>1, <3>1, RestInCycle
      <3>3. PhaseAt(n, v) \in 0 + 1 .. b
        <4>1. 0 \in 0 .. N /\ Until(n, 0) <= v
          BY <1>1, <1>3, <3>1
        <4> QED BY <1>1, <1>5, <3>1, <4>1
      <3>4. PhaseAt(n, v) \in Run(n, i, b)
        BY <2>3, <3>3
      <3> QED BY <3>2, <3>4 DEF i, C
    <2> QED BY <2>6, <2>7
  <1> QED BY <1>8, <1>9

\* A run lasts at least for the rest of its first phase.
LEMMA RunGoesOn ==
  ASSUME NEW n, HasPhases(n), NEW t \in 0 .. Cycle(n) - 1,
         NEW b \in 0 .. Len(n.phases)
  PROVE  Span(n, Run(n, PhaseAt(n, t), b)) - (t - Until(n, PhaseAt(n, t) - 1)) > 0
PROOF
  <1> DEFINE N == Len(n.phases)
             i == PhaseAt(n, t)
             C == Cycle(n)
  <1>1. N \in Nat \ {0} /\ C \in Nat \ {0} /\ t \in 0 .. C - 1 /\ b \in 0 .. N
    BY PhasesAre, CycleIs
  <1>2. i \in 1 .. N /\ Until(n, i - 1) <= t /\ t < Until(n, i)
    BY PhaseAtIs
  <1>3. \A k \in 0 .. N : Until(n, k) \in Nat
    BY UntilIs
  <1>4. i - 1 \in 0 .. N /\ i \in 0 .. N
    BY <1>1, <1>2
  <1>5. Until(n, i - 1) \in Nat /\ Until(n, b) \in Nat /\ Until(n, i) \in Nat
    BY <1>1, <1>3, <1>4
  <1>6. CASE i <= b
    <2>1. b \in i - 1 .. N /\ b \in i .. N
      BY <1>1, <1>2, <1>6
    <2>2. Span(n, i .. b) = Until(n, b) - Until(n, i - 1)
      BY <1>2, <2>1, SpanIs
    <2>3. Until(n, i) <= Until(n, b)
      BY <1>4, <2>1, UntilGrows
    <2>4. Run(n, i, b) = i .. b
      BY <1>6 DEF Run
    <2> HIDE DEF N, i, C
    <2>5. (Until(n, b) - Until(n, i - 1)) - (t - Until(n, i - 1)) > 0
      BY <1>1, <1>2, <1>5, <2>3
    <2> QED BY <2>2, <2>4, <2>5 DEF i
  <1>7. CASE ~(i <= b)
    <2>1. b \in 0 .. i - 1
      BY <1>1, <1>2, <1>7
    <2>2. Span(n, (i .. N) \cup (1 .. b)) = C - Until(n, i - 1) + Until(n, b)
      BY <1>2, <2>1, SpanOverEnd
    <2>3. Run(n, i, b) = (i .. N) \cup (1 .. b)
      BY <1>7 DEF Run
    <2> HIDE DEF N, i, C
    <2>4. (C - Until(n, i - 1) + Until(n, b)) - (t - Until(n, i - 1)) > 0
      BY <1>1, <1>5
    <2> QED BY <2>2, <2>3, <2>4 DEF i
  <1> QED BY <1>6, <1>7

\* A time of day that has passed the end of the cycle.
LEMMA PositionIs ==
  ASSUME NEW n, HasPhases(n), NEW t \in Nat, NEW u \in Nat
  PROVE  /\ Position(n, t) \in 0 .. Cycle(n) - 1
         /\ Position(n, t + u) = (Position(n, t) + u) % Cycle(n)
         /\ Position(n, (t % Cycle(n)) + u) = Position(n, t + u)
PROOF
  <1> DEFINE C == Cycle(n)
             o == n.offset
  <1>1. C \in Nat \ {0} /\ o \in Nat
    BY CycleIs, PhasesAre
  <1>2. /\ Position(n, t) = (t + o) % C
        /\ Position(n, t + u) = ((t + u) + o) % C
        /\ Position(n, (t % C) + u) = (((t % C) + u) + o) % C
    BY DEF Position
  <1> HIDE DEF C, o
  <1>3. t + o \in Nat /\ u + o \in Nat
    BY <1>1
  <1>4. (t + o) % C \in 0 .. C - 1
    BY <1>1, <1>3, Rest
  <1>5. (((t + o) % C) + u) % C = ((t + o) + u) % C
    BY <1>1, <1>3, RestOfSum
  <1>6. (t + o) + u = (t + u) + o
    BY <1>1
  <1>7. ((t % C) + (u + o)) % C = (t + (u + o)) % C
    BY <1>1, <1>3, RestOfSum
  <1>8. t % C \in 0 .. C - 1
    BY <1>1, Rest
  <1>9. (t % C) + (u + o) = ((t % C) + u) + o /\ t + (u + o) = (t + u) + o
    BY <1>1, <1>8
  <1> QED BY <1>2, <1>4, <1>5, <1>6, <1>7, <1>9 DEF C

\* A countdown is a number.
LEMMA CountdownIs ==
  ASSUME NEW n, HasPhases(n), NEW t \in Nat, NEW group
  PROVE  Countdown(n, t, group) \in Int
PROOF
  <1> DEFINE p == Position(n, t)
             i == PhaseAt(n, p)
             alike == {Following(n, i, k) : k \in Alike(n, i, group)}
  <1>1. 0 \in Nat
    OBVIOUS
  <1>2. p \in 0 .. Cycle(n) - 1 /\ Cycle(n) \in Nat \ {0}
    BY <1>1, PositionIs, CycleIs
  <1>3. i \in 1 .. Len(n.phases) /\ Len(n.phases) \in Nat
    BY <1>2, PhaseAtIs, PhasesAre
  <1>4. PICK b \in 0 .. Len(n.phases) : alike = Run(n, i, b)
    BY <1>3, RunIs
  <1>5. alike \subseteq 1 .. Len(n.phases)
    BY <1>3, <1>4 DEF Run
  <1>6. Span(n, alike) \in Nat
    <2>1. IsFiniteSet(1 .. Len(n.phases))
      BY <1>3, FS_Interval
    <2>2. IsFiniteSet(alike)
      BY <1>5, <2>1, FS_Subset
    <2>3. \A k \in alike : Lasts(n)[k] \in Nat /\ Lasts(n)[k] = Lasts(n)[k]
      BY <1>5, PhasesAre
    <2> HIDE DEF alike
    <2> QED BY <2>2, <2>3, SumsAgree DEF Span
  <1>7. Until(n, i - 1) \in Nat
    <2>1. i - 1 \in 0 .. Len(n.phases)
      BY <1>3
    <2> QED BY <2>1, UntilIs
  <1>8. Countdown(n, t, group)
          = IF alike = DOMAIN n.phases THEN 0
            ELSE Span(n, alike) - (p - Until(n, i - 1))
    BY DEF Countdown, CountdownFrom, Until
  <1>9. p \in Int
    BY <1>2
  <1> HIDE DEF p, i, alike
  <1>10. Span(n, alike) - (p - Until(n, i - 1)) \in Int
    BY <1>6, <1>7, <1>9
  <1> QED BY <1>8, <1>10

\* An aspect lasts for as long as the countdown says, or for ever if it says
\* nothing.
LEMMA AspectLasts ==
  ASSUME NEW n, HasPhases(n), NEW t \in Nat, NEW u \in Nat, NEW group,
         Countdown(n, t, group) = 0 \/ u < Countdown(n, t, group)
  PROVE  AspectAt(n, t + u, group) = AspectAt(n, t, group)
PROOF
  <1> DEFINE p == Position(n, t)
             i == PhaseAt(n, p)
             q == PhaseAt(n, (p + u) % Cycle(n))
             alike == {Following(n, i, k) : k \in Alike(n, i, group)}
  <1>1. /\ p \in 0 .. Cycle(n) - 1
        /\ Position(n, t + u) = (p + u) % Cycle(n)
    BY PositionIs
  <1>2. i \in 1 .. Len(n.phases)
    BY <1>1, PhaseAtIs
  <1>3. Cycle(n) \in Nat \ {0}
    BY CycleIs
  <1>4. (p + u) % Cycle(n) \in 0 .. Cycle(n) - 1
    <2>1. p + u \in Nat
      BY <1>1, <1>3
    <2> QED BY <1>3, <2>1, Rest
  <1>5. q \in 1 .. Len(n.phases)
    BY <1>4, PhaseAtIs
  <1>6. PICK b \in 0 .. Len(n.phases) :
          alike = Run(n, i, b) /\ \A k \in Run(n, i, b) : Same(n, i, k, group)
    BY <1>2, RunIs
  <1>7. DOMAIN n.phases = 1 .. Len(n.phases)
    BY PhasesAre
  <1>8. q \in Run(n, i, b)
    <2>1. CASE alike = DOMAIN n.phases
      BY <1>5, <1>6, <1>7, <2>1
    <2>2. CASE alike # DOMAIN n.phases
      <3>1. Countdown(n, t, group)
              = Span(n, alike) - (p - Until(n, i - 1))
        BY <2>2 DEF Countdown, CountdownFrom, Until
      <3>2. Span(n, Run(n, i, b)) - (p - Until(n, i - 1)) > 0
        BY <1>1, RunGoesOn
      <3>3. Countdown(n, t, group) > 0
        BY <1>6, <3>1, <3>2
      <3>4. u < Span(n, Run(n, i, b)) - (p - Until(n, i - 1))
        <4>1. Countdown(n, t, group) # 0
          BY <3>3
        <4> QED BY <1>6, <3>1, <4>1
      <3> QED BY <1>1, <3>4, RunLasts
    <2> QED BY <2>1, <2>2
  <1>9. Same(n, i, q, group)
    BY <1>6, <1>8
  <1> QED BY <1>1, <1>9 DEF Same, AspectAt

-----------------------------------------------------------------------------
(* A trip over the crossing.                                               *)

\* How far a pedestrian still has to go.
Left(p) == IF p.direction = 1 THEN Width - p.at ELSE p.at

\* A group is shown green for the next units of time.
GreenFor(n, t, group, units) ==
  \A u \in 0 .. units - 1 : AspectAt(n, t + u, group) = "green"

\* Whoever stands at an end of the crossing faces the other one.
FacesOver(p) ==
  (p.at = 0 => p.direction = 1) /\ (p.at = Width => p.direction = -1)

CrossingInv ==
  /\ net \in Networks /\ Loads(net)
  /\ way \in Movements(net) /\ walk \in Crossings(net)
  /\ elapsed \in 0 .. Cycle(net) - 1
  /\ spent \in Nat
  /\ admitted \in BOOLEAN
  /\ spent = 0 => ~admitted
  /\ admitted => AspectAt(net, elapsed, way) = "green"
  /\ pedestrian \in Pedestrians /\ FacesOver(pedestrian)
  /\ pedestrian.crossing /\ ~held =>
       GreenFor(net, elapsed, walk, Left(pedestrian) + Clearance)

\* What a network that loads has.
LEMMA LoadsIs ==
  ASSUME NEW n \in Networks, Loads(n)
  PROVE  /\ HasPhases(n) /\ Cycle(n) \in Nat \ {0}
         /\ CrossingsAreSound(n)
PROOF
  <1>1. HasPhases(n)
    BY DEF Loads, PlanIsSound, HasPhases
  <1> QED BY <1>1, CycleIs DEF Loads

\* What a countdown promises.
LEMMA CountdownPromises ==
  ASSUME NEW n, HasPhases(n), NEW t \in Nat, NEW group, NEW units \in Nat,
         AspectAt(n, t, group) = "green",
         Countdown(n, t, group) = 0 \/ Countdown(n, t, group) >= units
  PROVE  GreenFor(n, t, group, units)
PROOF
  <1>1. Countdown(n, t, group) \in Int
    BY CountdownIs
  <1>2. ASSUME NEW u \in 0 .. units - 1
        PROVE  AspectAt(n, t + u, group) = "green"
    <2>1. u \in Nat /\ u < units
      OBVIOUS
    <2>2. Countdown(n, t, group) = 0 \/ u < Countdown(n, t, group)
      BY <1>1, <2>1
    <2> QED BY <2>1, <2>2, AspectLasts
  <1> QED BY <1>2 DEF GreenFor

\* Green for longer is green for as long.
LEMMA GreenForLess ==
  ASSUME NEW n, NEW t, NEW group, NEW b \in Int, GreenFor(n, t, group, b),
         NEW a \in Int, a <= b
  PROVE  GreenFor(n, t, group, a)
PROOF
  <1>1. \A u \in 0 .. a - 1 : u \in 0 .. b - 1
    OBVIOUS
  <1> QED BY <1>1 DEF GreenFor

\* What green for some units of time means for each of them.
LEMMA GreenForIs ==
  ASSUME NEW n, NEW t, NEW group, NEW b, GreenFor(n, t, group, b)
  PROVE  \A u \in 0 .. b - 1 : AspectAt(n, t + u, group) = "green"
  BY DEF GreenFor

\* What leave to begin promises, whole trips and more.
LEMMA MayBegin ==
  ASSUME net \in Networks, Loads(net), elapsed \in Nat, CanBegin
  PROVE  GreenFor(net, elapsed, walk, Width + Clearance)
PROOF
  <1>1. HasPhases(net)
    BY LoadsIs
  <1>2. Width + Clearance \in Nat
    BY ClearanceAssumption
  <1> QED BY <1>1, <1>2, CountdownPromises DEF CanBegin

\* Time goes on: what is shown for some units is shown for the rest of them.
LEMMA GreenGoesOn ==
  ASSUME NEW n, HasPhases(n), NEW t \in Nat, NEW group, NEW a \in Int,
         NEW b \in Int, a + Tick <= b, GreenFor(n, t, group, b)
  PROVE  GreenFor(n, (t + Tick) % Cycle(n), group, a)
PROOF
  <1>1. Tick \in Nat \ {0}
    BY RouteAssumption
  <1> SUFFICES ASSUME NEW u \in 0 .. a - 1
               PROVE  AspectAt(n, ((t + Tick) % Cycle(n)) + u, group) = "green"
    BY DEF GreenFor
  <1>2. /\ u \in Nat /\ t + Tick \in Nat /\ Tick + u \in 0 .. b - 1
        /\ (t + Tick) + u = t + (Tick + u)
    BY <1>1
  <1>3. Position(n, ((t + Tick) % Cycle(n)) + u) = Position(n, (t + Tick) + u)
    BY <1>2, PositionIs
  <1>4. AspectAt(n, t + (Tick + u), group) = "green"
    BY <1>2 DEF GreenFor
  <1> QED BY <1>2, <1>3, <1>4 DEF AspectAt

\* How a walk brings a pedestrian nearer.
LEMMA WalkedIs ==
  ASSUME NEW p \in Pedestrians, FacesOver(p)
  PROVE  /\ Walked(p) \in Pedestrians /\ FacesOver(Walked(p))
         /\ Left(p) \in 1 .. Width
         /\ Walked(p).crossing =>
              Left(Walked(p)) \in Nat /\ Left(Walked(p)) + Tick = Left(p)
PROOF
  <1> DEFINE ahead == p.at + p.direction * Tick
             at == IF ahead > Width THEN Width ELSE IF ahead < 0 THEN 0 ELSE ahead
             arrived == at \in {0, Width}
             d == IF arrived THEN - p.direction ELSE p.direction
  <1>1. Tick \in Nat \ {0} /\ Width \in Nat \ {0}
    BY RouteAssumption, ClearanceAssumption
  <1>2. p.at \in 0 .. Width /\ p.direction \in {1, -1}
    BY DEF Pedestrians
  <1>3. Walked(p) = [at |-> at, crossing |-> ~arrived, direction |-> d]
    BY DEF Walked
  <1>4. /\ p.direction = 1 => ahead = p.at + Tick
        /\ p.direction = -1 => ahead = p.at - Tick
    BY <1>1, <1>2
  <1>5. (p.at = 0 => p.direction = 1) /\ (p.at = Width => p.direction = -1)
    BY DEF FacesOver
  <1> HIDE DEF ahead
  <1>6. at \in 0 .. Width
    BY <1>1, <1>2, <1>4
  <1>7. /\ p.direction = 1 => at > 0
        /\ p.direction = -1 => at < Width
    BY <1>1, <1>2, <1>4, <1>5
  <1>8. ~arrived => at = ahead
    BY <1>1
  <1> HIDE DEF at
  <1>9. d \in {1, -1} /\ (~arrived => d = p.direction)
    BY <1>2
  <1>10. (at = 0 => d = 1) /\ (at = Width => d = -1)
    BY <1>1, <1>2, <1>7
  <1>11. Left(p) \in 1 .. Width
    BY <1>1, <1>2, <1>5 DEF Left
  <1> HIDE DEF d, arrived
  <1>12. /\ Walked(p) \in Pedestrians /\ Walked(p).at = at
         /\ Walked(p).direction = d /\ Walked(p).crossing = ~arrived
    <2>1. (~arrived) \in BOOLEAN
      BY DEF arrived
    <2> QED BY <1>3, <1>6, <1>9, <2>1 DEF Pedestrians
  <1>13. ASSUME ~arrived
         PROVE  Left(Walked(p)) \in Nat /\ Left(Walked(p)) + Tick = Left(p)
    <2>1. Left(Walked(p)) = IF d = 1 THEN Width - at ELSE at
      BY <1>12 DEF Left
    <2>2. at = ahead /\ d = p.direction
      BY <1>8, <1>9, <1>13
    <2>3. Left(p) = IF d = 1 THEN Width - p.at ELSE p.at
      BY <2>2 DEF Left
    <2>4. CASE d = 1
      BY <1>1, <1>2, <1>4, <1>6, <2>1, <2>2, <2>3, <2>4
    <2>5. CASE d = -1
      BY <1>1, <1>2, <1>4, <1>6, <2>1, <2>2, <2>3, <2>5
    <2> QED BY <1>9, <2>4, <2>5
  <1> QED BY <1>10, <1>11, <1>12, <1>13 DEF FacesOver

\* A pedestrian who is placed stands at an end and faces the other one.
LEMMA PlacedFacesOver ==
  ASSUME NEW f, NEW p, Placed(f, p)
  PROVE  p \in Pedestrians /\ ~p.crossing /\ FacesOver(p)
PROOF
  <1>1. \/ p = [at |-> 0, direction |-> 1, crossing |-> FALSE]
        \/ p = [at |-> Width, direction |-> -1, crossing |-> FALSE]
    BY DEF Placed
  <1>2. Width \in Nat \ {0}
    BY ClearanceAssumption
  <1>3. 0 \in 0 .. Width /\ Width \in 0 .. Width
    BY <1>2
  <1>4. CASE p = [at |-> 0, direction |-> 1, crossing |-> FALSE]
    BY <1>2, <1>3, <1>4 DEF Pedestrians, FacesOver
  <1>5. CASE p = [at |-> Width, direction |-> -1, crossing |-> FALSE]
    BY <1>2, <1>3, <1>5 DEF Pedestrians, FacesOver
  <1> QED BY <1>1, <1>4, <1>5

\* The invariant of a trip holds when a network has been loaded.
LEMMA CrossingInvInit == Init => CrossingInv
PROOF
  <1> SUFFICES ASSUME Init PROVE CrossingInv
    OBVIOUS
  <1>1. net \in Networks /\ Loads(net) /\ pedestrian \in Pedestrians
        /\ Placed(follower, pedestrian)
    BY DEF Init
  <1>2. ~pedestrian.crossing /\ FacesOver(pedestrian)
    BY <1>1, PlacedFacesOver
  <1> QED BY <1>1, <1>2 DEF Init, CrossingInv

\* The end of a tick, when the pedestrian has become p and what is held h.
LEMMA EndOfTickInv ==
  ASSUME CrossingInv, NEW active \in BOOLEAN, EndOfTick(active),
         pedestrian' \in Pedestrians, FacesOver(pedestrian'),
         pedestrian'.crossing /\ ~held' =>
           GreenFor(net, elapsed, walk, Left(pedestrian') + Tick + Clearance)
  PROVE  CrossingInv'
PROOF
  <1>1. /\ net' = net /\ way' = way /\ walk' = walk
        /\ elapsed' = (elapsed + Tick) % Cycle(net)
        /\ spent' = 0 /\ admitted' = FALSE
    BY DEF EndOfTick
  <1>2. /\ net \in Networks /\ Loads(net)
        /\ way \in Movements(net) /\ walk \in Crossings(net)
        /\ elapsed \in 0 .. Cycle(net) - 1
    BY DEF CrossingInv
  <1>3. HasPhases(net) /\ Cycle(net) \in Nat \ {0}
    BY <1>2, LoadsIs
  <1>4. Tick \in Nat \ {0} /\ Clearance \in Nat /\ Width \in Nat
    BY RouteAssumption, ClearanceAssumption
  <1>5. elapsed \in Nat /\ elapsed + Tick \in Nat
    BY <1>2, <1>3, <1>4
  <1>6. elapsed' \in 0 .. Cycle(net) - 1
    BY <1>1, <1>3, <1>5, Rest
  <1>7. Left(pedestrian') \in Int
    BY <1>4 DEF Left, Pedestrians
  <1>8. ASSUME GreenFor(net, elapsed, walk, Left(pedestrian') + Tick + Clearance)
        PROVE  GreenFor(net, elapsed', walk, Left(pedestrian') + Clearance)
    <2> DEFINE a == Left(pedestrian') + Clearance
               b == Left(pedestrian') + Tick + Clearance
    <2>1. a \in Int /\ b \in Int /\ a + Tick <= b
      BY <1>4, <1>7
    <2>2. GreenFor(net, elapsed, walk, b)
      BY <1>8
    <2> HIDE DEF a, b
    <2>3. GreenFor(net, (elapsed + Tick) % Cycle(net), walk, a)
      BY <1>3, <1>5, <2>1, <2>2, GreenGoesOn
    <2> QED BY <1>1, <2>3 DEF a
  <1> QED BY <1>1, <1>2, <1>6, <1>8 DEF CrossingInv, GreenFor, Left, FacesOver

\* The tick in which the pedestrian walks: unless something has held the trip
\* up, the way is clear to its end.
LEMMA WalkIsClear ==
  ASSUME CrossingInv, Walk, pedestrian'.at # pedestrian.at, ~held'
  PROVE  /\ pedestrian' = Walked(pedestrian)
         /\ GreenFor(net, elapsed, walk, Left(pedestrian) + Clearance)
PROOF
  <1>1. CASE pedestrian.crossing \/ CanBegin
    <2>1. pedestrian' = Walked(pedestrian) /\ held' = (pedestrian.crossing /\ held)
      BY <1>1 DEF Walk
    <2>2. CASE pedestrian.crossing
      BY <2>1, <2>2 DEF CrossingInv
    <2>3. CASE CanBegin
      <3>1. net \in Networks /\ Loads(net) /\ elapsed \in 0 .. Cycle(net) - 1
            /\ pedestrian \in Pedestrians /\ FacesOver(pedestrian)
        BY DEF CrossingInv
      <3>2. elapsed \in Nat
        BY <3>1, LoadsIs
      <3>3. GreenFor(net, elapsed, walk, Width + Clearance)
        BY <2>3, <3>1, <3>2, MayBegin
      <3>4. Left(pedestrian) \in 1 .. Width
        BY <3>1, WalkedIs
      <3>5. /\ Width + Clearance \in Int /\ Left(pedestrian) + Clearance \in Int
            /\ Left(pedestrian) + Clearance <= Width + Clearance
        BY <3>4, ClearanceAssumption
      <3>6. GreenFor(net, elapsed, walk, Left(pedestrian) + Clearance)
        BY <3>3, <3>5, GreenForLess
      <3> QED BY <2>1, <3>6
    <2> QED BY <1>1, <2>2, <2>3
  <1>2. CASE ~(pedestrian.crossing \/ CanBegin)
    BY <1>2 DEF Walk
  <1> QED BY <1>1, <1>2

\* Whoever is on the way over walks.
LEMMA WalkersMove ==
  ASSUME CrossingInv, Walk, pedestrian.crossing
  PROVE  pedestrian' = Walked(pedestrian)
  BY DEF Walk

\* And every step keeps it: most leave trip and signals alone.
LEMMA CrossingInvNext == CrossingInv /\ [Next]_vars => CrossingInv'
PROOF
  <1> SUFFICES ASSUME CrossingInv, [Next]_vars PROVE CrossingInv'
    OBVIOUS
  <1>0. Tick \in Nat \ {0} /\ Clearance \in Nat /\ Width \in Nat \ {0}
    BY RouteAssumption, ClearanceAssumption
  <1>a. spent \in Nat /\ pedestrian \in Pedestrians /\ FacesOver(pedestrian)
    BY DEF CrossingInv
  <1>1. ASSUME NEW n \in 0 .. Reach, Drive(follower.at + n) PROVE CrossingInv'
    <2>1. /\ UNCHANGED <<net, way, walk, elapsed, dark, pedestrian, up, held>>
          /\ spent' = IF follower'.stopped THEN Tick ELSE spent + 1
          /\ admitted' = (admitted \/ (follower'.committed /\ ~follower.committed))
          /\ follower' = IF ~MayPass(follower, spent) /\ follower.at + n = WaitsAt(follower)
                           THEN [Moved(follower, follower.at + n, spent) EXCEPT !.stopped = TRUE]
                           ELSE Moved(follower, follower.at + n, spent)
      BY <1>1 DEF Drive
    <2>2. spent' \in Nat /\ spent' # 0 /\ admitted' \in BOOLEAN
      BY <1>0, <1>a, <2>1 DEF CrossingInv
    <2>3. ASSUME follower'.committed, ~follower.committed
          PROVE  AspectAt(net, elapsed, way) = "green"
      <3>1. Moved(follower, follower.at + n, spent).committed
        BY <2>1, <2>3 DEF Moved
      <3>2. Commits(follower, follower.at + n, spent)
        BY <2>3, <3>1 DEF Moved
      <3> QED BY <3>2 DEF Commits, Green
    <2>4. admitted' => AspectAt(net, elapsed, way) = "green"
      BY <2>1, <2>3 DEF CrossingInv
    <2> QED BY <2>1, <2>2, <2>4 DEF CrossingInv, GreenFor, Left, FacesOver
  <1>2. ASSUME Halt \/ Freeze PROVE CrossingInv'
    <2>1. /\ UNCHANGED <<net, way, walk, elapsed, pedestrian, held, admitted>>
          /\ spent' = Tick
      BY <1>2 DEF Halt, Freeze
    <2> QED BY <1>0, <2>1 DEF CrossingInv, GreenFor, Left, FacesOver
  <1>3. ASSUME NEW d \in 1 .. Back, Retreat(d) PROVE CrossingInv'
    <2>1. /\ UNCHANGED <<net, way, walk, elapsed, pedestrian, held, admitted>>
          /\ spent' = Tick
      BY <1>3 DEF Retreat
    <2> QED BY <1>0, <2>1 DEF CrossingInv, GreenFor, Left, FacesOver
  <1>4. ASSUME NEW to, ChangeLane(to) PROVE CrossingInv'
    <2>1. /\ UNCHANGED <<net, way, walk, elapsed, pedestrian, held, admitted>>
          /\ spent' = Tick + 1
      BY <1>4 DEF ChangeLane
    <2>2. Tick + 1 \in Nat /\ Tick + 1 # 0
      BY <1>0
    <2> QED BY <2>1, <2>2 DEF CrossingInv, GreenFor, Left, FacesOver
  <1>5. ASSUME Walk PROVE CrossingInv'
    <2>1. EndOfTick(TRUE)
      BY <1>5 DEF Walk
    <2>2. /\ Walked(pedestrian) \in Pedestrians /\ FacesOver(Walked(pedestrian))
          /\ Left(pedestrian) \in 1 .. Width
          /\ Walked(pedestrian).crossing =>
               /\ Left(Walked(pedestrian)) \in Nat
               /\ Left(Walked(pedestrian)) + Tick = Left(pedestrian)
      BY <1>a, WalkedIs
    <2>3. pedestrian' = Walked(pedestrian) \/ UNCHANGED <<pedestrian, held>>
      BY <1>5 DEF Walk
    <2>4. ASSUME pedestrian' = Walked(pedestrian), pedestrian'.crossing, ~held'
          PROVE  GreenFor(net, elapsed, walk, Left(pedestrian') + Tick + Clearance)
      <3>1. Left(pedestrian') + Tick = Left(pedestrian) /\ Left(pedestrian') \in Nat
        BY <2>2, <2>4
      <3>2. pedestrian'.at # pedestrian.at
        <4>1. pedestrian' \in Pedestrians
          BY <2>2, <2>4
        <4>2. pedestrian'.direction = pedestrian.direction
          BY <2>4 DEF Walked
        <4>3. pedestrian'.at = pedestrian.at => Left(pedestrian') = Left(pedestrian)
          BY <4>2 DEF Left
        <4> QED BY <1>0, <3>1, <4>3
      <3>3. GreenFor(net, elapsed, walk, Left(pedestrian) + Clearance)
        BY <1>5, <2>4, <3>2, WalkIsClear
      <3> QED BY <3>1, <3>3
    <2>5. ASSUME UNCHANGED <<pedestrian, held>>, pedestrian'.crossing
          PROVE  pedestrian' = Walked(pedestrian)
      BY <1>5, <2>5, WalkersMove
    <2> QED BY <1>a, <2>1, <2>2, <2>3, <2>4, <2>5, EndOfTickInv
  <1>6. ASSUME NEW trip \in BOOLEAN, Stay(trip) PROVE CrossingInv'
    <2>1. /\ EndOfTick(TRUE)
          /\ pedestrian' = [pedestrian EXCEPT !.crossing = @ /\ trip]
          /\ held' = (held \/ pedestrian.crossing)
      BY <1>6 DEF Stay
    <2>2. /\ pedestrian' \in Pedestrians /\ FacesOver(pedestrian')
          /\ pedestrian'.crossing => pedestrian.crossing
      BY <1>a, <2>1 DEF Pedestrians, FacesOver
    <2> QED BY <2>1, <2>2, EndOfTickInv
  <1>7. ASSUME NEW active \in BOOLEAN, HeldTick(active) PROVE CrossingInv'
    <2>1. /\ EndOfTick(active) /\ pedestrian' = pedestrian
          /\ held' = (held \/ pedestrian.crossing)
      BY <1>7 DEF HeldTick
    <2> QED BY <1>a, <2>1, EndOfTickInv
  <1>8. ASSUME NEW h, Break(h) PROVE CrossingInv'
    <2>1. UNCHANGED <<net, way, walk, elapsed, spent, pedestrian, admitted, held>>
      BY <1>8 DEF Break
    <2> QED BY <2>1 DEF CrossingInv, GreenFor, Left, FacesOver
  <1>9. ASSUME Restart PROVE CrossingInv'
    <2>1. /\ UNCHANGED <<net, way, walk, spent, admitted>>
          /\ spent = 0 /\ elapsed' = 0 /\ Placed(follower', pedestrian')
      BY <1>9 DEF Restart
    <2>2. pedestrian' \in Pedestrians /\ ~pedestrian'.crossing /\ FacesOver(pedestrian')
      BY <2>1, PlacedFacesOver
    <2>3. Cycle(net) \in Nat \ {0}
      BY LoadsIs DEF CrossingInv
    <2>4. 0 \in 0 .. Cycle(net) - 1
      BY <2>3
    <2> QED BY <2>1, <2>2, <2>4 DEF CrossingInv, FacesOver
  <1>10. ASSUME UNCHANGED vars PROVE CrossingInv'
    BY <1>10 DEF vars, CrossingInv, GreenFor, Left, FacesOver
  <1> QED
    BY <1>1, <1>2, <1>3, <1>4, <1>5, <1>6, <1>7, <1>8, <1>9, <1>10 DEF Next

\* A crossing of its own shows WALK only while the cars have red.
LEMMA RedForCars ==
  ASSUME NEW n \in Networks, Loads(n), NEW t \in Nat, NEW g \in Crossings(n),
         Exclusive(n, g), NEW m \in Movements(n),
         AspectAt(n, t, g) = "green"
  PROVE  AspectAt(n, t, m) # "green"
PROOF
  <1> DEFINE i == PhaseAt(n, Position(n, t))
  <1>1. HasPhases(n)
    BY LoadsIs
  <1>2. 0 \in Nat
    OBVIOUS
  <1>3. Position(n, t) \in 0 .. Cycle(n) - 1
    BY <1>1, <1>2, PositionIs
  <1>4. i \in DOMAIN n.phases
    BY <1>1, <1>3, PhaseAtIs, PhasesAre
  <1>5. g \in n.phases[i].green
    BY DEF AspectAt, Aspect
  <1>6. Active(n.phases[i]) \cap Movements(n) = {}
    BY <1>4, <1>5, LoadsIs DEF CrossingsAreSound, Active
  <1>7. m \notin n.phases[i].green
    BY <1>6 DEF Active
  <1> QED BY <1>7 DEF AspectAt, Aspect

\* Whoever walks in a step has WALK, and the cars have red.
LEMMA CrossingStep ==
  ASSUME CrossingInv, [Next]_vars, spent >= Tick,
         pedestrian'.at # pedestrian.at, ~held'
  PROVE  /\ \A u \in 0 .. Tick - 1 : AspectAt(net, elapsed + u, walk) = "green"
         /\ Exclusive(net, walk) => ~admitted
PROOF
  <1>1. Tick \in Nat \ {0} /\ Tick <= Clearance /\ Clearance \in Nat
    BY RouteAssumption, ClearanceAssumption
  <1>2. /\ net \in Networks /\ Loads(net) /\ elapsed \in 0 .. Cycle(net) - 1
        /\ way \in Movements(net) /\ walk \in Crossings(net)
        /\ pedestrian \in Pedestrians /\ FacesOver(pedestrian)
        /\ admitted => AspectAt(net, elapsed, way) = "green"
    BY DEF CrossingInv
  <1>3. Walk
    <2>1. spent # 0
      BY <1>1
    <2>2. pedestrian' # pedestrian
      OBVIOUS
    <2>3. ASSUME NEW trip \in BOOLEAN, Stay(trip) PROVE FALSE
      BY <1>2, <2>3 DEF Stay, Pedestrians
    <2> QED
      BY <2>1, <2>2, <2>3
         DEF Next, Drive, Halt, Freeze, Retreat, ChangeLane, HeldTick, Break,
             Restart, vars
  <1>4. GreenFor(net, elapsed, walk, Left(pedestrian) + Clearance)
    BY <1>3, WalkIsClear
  <1>5. Left(pedestrian) \in 1 .. Width /\ Width \in Nat
    BY <1>2, WalkedIs, ClearanceAssumption
  <1>6. /\ Left(pedestrian) + Clearance \in Int /\ Tick \in Int
        /\ Tick <= Left(pedestrian) + Clearance
    BY <1>1, <1>5
  <1>t. GreenFor(net, elapsed, walk, Tick)
    BY <1>4, <1>6, GreenForLess
  <1>7. \A u \in 0 .. Tick - 1 : AspectAt(net, elapsed + u, walk) = "green"
    BY <1>t, GreenForIs
  <1>8. elapsed \in Nat /\ elapsed + 0 = elapsed /\ 0 \in 0 .. Tick - 1
    BY <1>1, <1>2, LoadsIs
  <1>9. AspectAt(net, elapsed, walk) = "green"
    BY <1>7, <1>8
  <1>10. Exclusive(net, walk) => AspectAt(net, elapsed, way) # "green"
    BY <1>2, <1>8, <1>9, RedForCars
  <1> QED BY <1>2, <1>7, <1>10

\* For every network that loads, every length of a tick and every width: while
\* a pedestrian whom nothing has held up walks, WALK lasts, and before a
\* crossing of its own no car is let over its line.
THEOREM PedestriansCrossOnWalk == Spec => CrossingIsClear
PROOF
  <1>1. CrossingInv /\ [Next]_vars =>
          [ spent >= Tick /\ pedestrian'.at # pedestrian.at /\ ~held' =>
              /\ \A u \in 0 .. Tick - 1 : AspectAt(net, elapsed + u, walk) = "green"
              /\ Exclusive(net, walk) => ~admitted ]_vars
    BY CrossingStep
  <1> QED BY <1>1, CrossingInvInit, CrossingInvNext, PTL DEF Spec, CrossingIsClear

-----------------------------------------------------------------------------
(* The ground: what is inductive.                                          *)

\* Whose world and ground it is: what is known of a session that is gone is of
\* no use, and the vehicle's patch knows no world the tiles do not know.
Acquaintance ==
    /\ owner.ready => owner.session > 0
    /\ player.context <= owner.session
    /\ player.context = 0 => ~player.ready
    /\ player.ready /\ player.context = owner.session
         => cache.known.context = owner.session
    /\ cache.known.context <= owner.session

\* The tiles are of the world that is known, and of the places they are for.
TilesOfKnown(c) ==
    \A i \in DOMAIN c.tiles :
      /\ c.tiles[i].by = c.known.context
      /\ c.tiles[i].place = c.tiles[i].key
      /\ c.tiles[i].revision = c.known.revision

\* The client is at a revision, or left it no longer ago than that.
LeftWithin(w, revision, time) ==
    \/ revision = w.revision
    \/ /\ revision \in DOMAIN w.left
       /\ w.left[revision] <= time

\* A notice is as old as what it says at the most, and the lease knows.
Freshness ==
    /\ \A i \in DOMAIN mail :
         /\ mail[i].age <= scene.delay
         /\ mail[i].kind = "notice" => LeftWithin(world, mail[i].revision, mail[i].age)
    /\ cache.known.context = owner.session /\ cache.lease > 0
         => LeftWithin(world, cache.known.revision,
                       TileLifetime + scene.delay - cache.lease)

\* A request has a number of its own: what is asked for under it, and what
\* answers to it, is its place.
Numbering ==
    LET pending == cache.pending
    IN  pending # NoDemand =>
          /\ pending.id > 0 /\ pending.key \in Places
          /\ asked.id = pending.id => asked.key = pending.key
          /\ \A i \in DOMAIN mail :
               mail[i].kind = "tile" /\ mail[i].id = pending.id
                 => mail[i].key = pending.key

GroundInv ==
    /\ TilesTypeOK /\ Acquaintance /\ TilesOfKnown(cache)
    /\ Freshness /\ Numbering

-----------------------------------------------------------------------------
(* Sequences of tiles and of demands.                                      *)

LEMMA OnlyOne == \A a : Only({a}) = a
  BY DEF Only

\* What is taken out is out, the rest is kept.
LEMMA RemovedRest ==
    ASSUME NEW S, NEW s \in Seq(S), NEW i
    PROVE  /\ Removed(s, i) \in Seq(S)
           /\ s # <<>> => Len(Removed(s, i)) = Len(s) - 1
           /\ \A k \in DOMAIN Removed(s, i) :
                \E j \in DOMAIN s : Removed(s, i)[k] = s[j]
           /\ i \in DOMAIN s => \A j \in DOMAIN s \ {i} :
                \E k \in DOMAIN Removed(s, i) : Removed(s, i)[k] = s[j]
PROOF
  <1> DEFINE r == Removed(s, i)
  <1> SUFFICES /\ r \in Seq(S)
               /\ s # <<>> => Len(r) = Len(s) - 1
               /\ \A k \in DOMAIN r : \E j \in DOMAIN s : r[k] = s[j]
               /\ i \in DOMAIN s => \A j \in DOMAIN s \ {i} :
                    \E k \in DOMAIN r : r[k] = s[j]
    OBVIOUS
  <1> DEFINE n == Len(s)
             At(k) == IF k < i THEN k ELSE k + 1
  <1>1. n \in Nat /\ DOMAIN s = 1 .. n /\ \A j \in 1 .. n : s[j] \in S
    BY LenProperties
  <1>2. s # <<>> => n > 0
    BY <1>1, EmptySeq
  <1>3. r = [k \in 1 .. n - 1 |-> s[At(k)]]
    BY DEF Removed
  <1> HIDE DEF r
  <1>4. \A k \in 1 .. n - 1 : At(k) \in 1 .. n
    BY <1>1
  <1>5. \A k \in 1 .. n - 1 : r[k] = s[At(k)] /\ r[k] \in S
    BY <1>1, <1>3, <1>4
  <1>6. CASE n = 0
    <2>1. r \in [1 .. 0 -> S] /\ s = <<>>
      BY <1>1, <1>2, <1>3, <1>6
    <2>2. r \in Seq(S) /\ DOMAIN r = {}
      BY <2>1, SeqDef
    <2> QED BY <1>1, <1>6, <2>1, <2>2
  <1>7. CASE n > 0
    <2>1. n - 1 \in Nat /\ r \in [1 .. n - 1 -> S]
      BY <1>1, <1>3, <1>5, <1>7
    <2>2. r \in Seq(S) /\ DOMAIN r = 1 .. n - 1 /\ Len(r) = n - 1
      <3>1. r \in Seq(S)
        BY <2>1, SeqDef
      <3>2. DOMAIN r = 1 .. n - 1 /\ DOMAIN r = 1 .. Len(r) /\ Len(r) \in Nat
        BY <2>1, <3>1, LenProperties
      <3> QED BY <2>1, <3>1, <3>2
    <2>3. \A k \in DOMAIN r : \E j \in DOMAIN s : r[k] = s[j]
      BY <1>1, <1>4, <1>5, <2>2
    <2>4. ASSUME i \in DOMAIN s, NEW j \in DOMAIN s \ {i}
          PROVE  \E k \in DOMAIN r : r[k] = s[j]
      <3>1. i \in 1 .. n /\ j \in 1 .. n /\ i # j
        BY <1>1, <2>4
      <3>2. CASE j < i
        <4>1. j \in 1 .. n - 1 /\ At(j) = j
          BY <1>1, <3>1, <3>2
        <4> QED BY <1>5, <2>2, <4>1
      <3>3. CASE j > i
        <4>1. j - 1 \in 1 .. n - 1 /\ At(j - 1) = j
          BY <1>1, <3>1, <3>3
        <4> QED BY <1>5, <2>2, <4>1
      <3> QED BY <3>1, <3>2, <3>3
    <2> QED BY <1>7, <2>2, <2>3, <2>4
  <1>8. n = 0 \/ n > 0
    BY <1>1
  <1> QED BY <1>6, <1>7, <1>8, Zenon

LEMMA IndexOfKey ==
    ASSUME NEW tiles, NEW key, \E i \in DOMAIN tiles : tiles[i].key = key
    PROVE  /\ IndexOf(tiles, key) \in DOMAIN tiles
           /\ tiles[IndexOf(tiles, key)].key = key
  BY DEF IndexOf

\* A tile that is used stays, with the others.
LEMMA UsedTiles ==
    ASSUME NEW tiles \in Seq(Tiles), NEW tile \in Tiles
    PROVE  /\ Used(tiles, tile) \in Seq(Tiles)
           /\ \A k \in DOMAIN Used(tiles, tile) :
                \/ Used(tiles, tile)[k] = tile
                \/ \E j \in DOMAIN tiles : Used(tiles, tile)[k] = tiles[j]
           /\ \E k \in DOMAIN Used(tiles, tile) : Used(tiles, tile)[k] = tile
           /\ \A j \in DOMAIN tiles : \E k \in DOMAIN Used(tiles, tile) :
                Used(tiles, tile)[k].key = tiles[j].key
PROOF
  <1> DEFINE w == Without(tiles, tile.key)
  <1>1. /\ w \in Seq(Tiles)
        /\ \A k \in DOMAIN w : \E j \in DOMAIN tiles : w[k] = tiles[j]
        /\ \A j \in DOMAIN tiles : tiles[j].key # tile.key =>
             \E k \in DOMAIN w : w[k] = tiles[j]
    <2>1. CASE \E i \in DOMAIN tiles : tiles[i].key = tile.key
      <3> DEFINE i == IndexOf(tiles, tile.key)
      <3>1. i \in DOMAIN tiles /\ tiles[i].key = tile.key
        BY <2>1, IndexOfKey
      <3>2. w = Removed(tiles, i)
        BY <2>1 DEF Without
      <3> HIDE DEF i, w
      <3>3. /\ w \in Seq(Tiles)
            /\ \A k \in DOMAIN w : \E j \in DOMAIN tiles : w[k] = tiles[j]
            /\ \A j \in DOMAIN tiles \ {i} : \E k \in DOMAIN w : w[k] = tiles[j]
        <4>1. /\ Removed(tiles, i) \in Seq(Tiles)
              /\ tiles # <<>> => Len(Removed(tiles, i)) = Len(tiles) - 1
              /\ \A k \in DOMAIN Removed(tiles, i) :
                   \E j \in DOMAIN tiles : Removed(tiles, i)[k] = tiles[j]
              /\ i \in DOMAIN tiles => \A j \in DOMAIN tiles \ {i} :
                   \E k \in DOMAIN Removed(tiles, i) : Removed(tiles, i)[k] = tiles[j]
          BY ONLY RemovedRest, tiles \in Seq(Tiles)
        <4> QED BY <3>1, <3>2, <4>1, Zenon
      <3> QED BY <3>1, <3>3
    <2>2. CASE ~(\E i \in DOMAIN tiles : tiles[i].key = tile.key)
      BY <2>2 DEF Without
    <2> QED BY <2>1, <2>2
  <1>2. Used(tiles, tile) = Append(w, tile)
    BY DEF Used
  <1> HIDE DEF w
  <1>3. /\ Append(w, tile) \in Seq(Tiles) /\ Len(w) \in Nat
        /\ Len(Append(w, tile)) = Len(w) + 1
        /\ DOMAIN w = 1 .. Len(w)
        /\ DOMAIN Append(w, tile) = 1 .. Len(w) + 1
        /\ \A k \in 1 .. Len(w) : Append(w, tile)[k] = w[k]
        /\ Append(w, tile)[Len(w) + 1] = tile
    BY <1>1, AppendProperties, LenProperties
  <1> DEFINE u == Append(w, tile)
  <1> HIDE DEF u
  <1>4. /\ u \in Seq(Tiles) /\ DOMAIN u = 1 .. Len(w) + 1 /\ Len(w) \in Nat
        /\ \A k \in DOMAIN w : k \in DOMAIN u /\ u[k] = w[k]
        /\ Len(w) + 1 \in DOMAIN u /\ u[Len(w) + 1] = tile
        /\ \A k \in DOMAIN u : k \in DOMAIN w \/ k = Len(w) + 1
    BY <1>3 DEF u
  <1>5. \A k \in DOMAIN u : u[k] = tile \/ \E j \in DOMAIN tiles : u[k] = tiles[j]
    BY <1>1, <1>4
  <1>6. ASSUME NEW j \in DOMAIN tiles
        PROVE  \E k \in DOMAIN u : u[k].key = tiles[j].key
    <2>1. CASE tiles[j].key = tile.key
      BY <1>4, <2>1
    <2>2. CASE tiles[j].key # tile.key
      BY <1>1, <1>4, <2>2
    <2> QED BY <2>1, <2>2
  <1> QED BY <1>2, <1>4, <1>5, <1>6 DEF u

-----------------------------------------------------------------------------
(* What a tick asks of the cache.                                          *)

LEMMA WithDemands ==
    ASSUME NEW c \in Caches, NEW demands \in Seq(Demands)
    PROVE  LET d == [c EXCEPT !.demands = demands]
           IN  /\ d \in Caches /\ d.known = c.known /\ d.lease = c.lease
               /\ d.tiles = c.tiles /\ d.pending = c.pending
  BY DEF Caches

LEMMA WithTiles ==
    ASSUME NEW c \in Caches, NEW tiles \in Seq(Tiles)
    PROVE  LET d == [c EXCEPT !.tiles = tiles]
           IN  /\ d \in Caches /\ d.known = c.known /\ d.lease = c.lease
               /\ d.tiles = tiles /\ d.pending = c.pending
               /\ d.demands = c.demands
  BY DEF Caches

\* A demand that queues up changes nothing else.
LEMMA EnqueuedDemand ==
    ASSUME NEW c \in Caches, NEW key \in Places, NEW support \in BOOLEAN
    PROVE  LET d == Enqueued(c, key, support)
           IN  /\ d \in Caches /\ d.known = c.known /\ d.lease = c.lease
               /\ d.tiles = c.tiles /\ d.pending = c.pending
PROOF
  <1> DEFINE arrived == Demand(key, support)
  <1>1. c.demands \in Seq(Demands)
    BY DEF Caches
  <1>2. arrived \in Demands
    BY DEF Demand, Demands
  <1>3. Removed(c.demands, Max(Optional(c))) \in Seq(Demands)
    BY <1>1, RemovedRest
  <1>4. /\ Append(c.demands, arrived) \in Seq(Demands)
        /\ Append(Removed(c.demands, Max(Optional(c))), arrived) \in Seq(Demands)
    BY <1>1, <1>2, <1>3, AppendProperties
  <1> DEFINE raised == [ i \in DOMAIN c.demands |->
                           Demand( c.demands[i].key,
                                   c.demands[i].support
                                     \/ (support /\ c.demands[i].key = key) ) ]
  <1>5. raised \in Seq(Demands)
    <2>1. /\ Len(c.demands) \in Nat /\ DOMAIN c.demands = 1 .. Len(c.demands)
          /\ \A i \in 1 .. Len(c.demands) : c.demands[i] \in Demands
      BY <1>1, LenProperties
    <2>2. \A i \in 1 .. Len(c.demands) :
            Demand( c.demands[i].key,
                    c.demands[i].support
                      \/ (support /\ c.demands[i].key = key) ) \in Demands
      BY <2>1 DEF Demand, Demands
    <2>3. raised \in [1 .. Len(c.demands) -> Demands]
      BY <2>1, <2>2
    <2> QED BY <2>1, <2>3, SeqDef
  <1>6. Raised(c, key, support) = [c EXCEPT !.demands = raised]
    BY DEF Raised
  <1> HIDE DEF raised, arrived
  <1>7. \/ Enqueued(c, key, support) = c
        \/ \E demands \in Seq(Demands) :
             Enqueued(c, key, support) = [c EXCEPT !.demands = demands]
    BY <1>1, <1>3, <1>4, <1>5, <1>6 DEF Enqueued, arrived
  <1> QED BY <1>7, WithDemands

\* A cache that goes on with the tiles another has.
Continues(c, d) ==
    /\ d \in Caches /\ TilesOfKnown(d)
    /\ d.known = c.known /\ d.lease = c.lease /\ d.pending = c.pending
    /\ Keys(c) \subseteq Keys(d)

LEMMA ContinuesItself ==
    ASSUME NEW c \in Caches, TilesOfKnown(c)
    PROVE  Continues(c, c)
  BY DEF Continues

LEMMA ContinuesOn ==
    ASSUME NEW c, NEW d, NEW e, Continues(c, d), Continues(d, e)
    PROVE  Continues(c, e)
  BY DEF Continues

\* A query leaves the tiles there are, and is answered by one of them.
LEMMA QueryContinues ==
    ASSUME NEW c \in Caches, TilesOfKnown(c), NEW key \in Places,
           NEW support \in BOOLEAN
    PROVE  LET q == Query(c, key, support)
           IN  /\ Continues(c, q.cache) /\ q.found \in BOOLEAN
               /\ q.found => CanAnswer(c) /\ key \in Keys(q.cache)
PROOF
  <1> DEFINE tile == TileAt(c, key)
             mark == [tile EXCEPT !.pin = IF support THEN Pin ELSE @]
             used == [c EXCEPT !.tiles = Used(c.tiles, mark)]
             q == Query(c, key, support)
  <1>1. CASE ~CanAnswer(c)
    <2>1. q = [cache |-> c, found |-> FALSE]
      BY <1>1 DEF Query
    <2> QED BY <2>1, ContinuesItself
  <1>2. CASE CanAnswer(c) /\ key \notin Keys(c)
    <2>1. q = [cache |-> Enqueued(c, key, support), found |-> FALSE]
      BY <1>2 DEF Query
    <2>2. Continues(c, Enqueued(c, key, support))
      BY EnqueuedDemand DEF Continues, TilesOfKnown, Keys
    <2> QED BY <2>1, <2>2
  <1>3. CASE CanAnswer(c) /\ key \in Keys(c)
    <2>1. c.tiles \in Seq(Tiles) /\ DOMAIN c.tiles = 1 .. Len(c.tiles)
      BY LenProperties DEF Caches
    <2>2. PICK i \in DOMAIN c.tiles : i = IndexOf(c.tiles, key) /\ c.tiles[i].key = key
      BY <1>3, IndexOfKey DEF Keys
    <2>3. tile = c.tiles[i] /\ tile \in Tiles /\ tile.key = key
      BY <2>1, <2>2, LenProperties DEF TileAt
    <2>4. /\ tile.by = c.known.context /\ tile.place = tile.key
          /\ tile.revision = c.known.revision
      BY <2>2, <2>3 DEF TilesOfKnown
    <2>5. /\ mark \in Tiles /\ mark.key = key /\ mark.by = c.known.context
          /\ mark.place = mark.key /\ mark.revision = c.known.revision
      BY <2>3, <2>4, TileAssumption DEF Tiles
    <2> DEFINE u == Used(c.tiles, mark)
    <2>6. /\ u \in Seq(Tiles)
          /\ \A k \in DOMAIN u :
               u[k] = mark \/ \E j \in DOMAIN c.tiles : u[k] = c.tiles[j]
          /\ \E k \in DOMAIN u : u[k] = mark
          /\ \A j \in DOMAIN c.tiles : \E k \in DOMAIN u : u[k].key = c.tiles[j].key
      <3> HIDE DEF mark, tile
      <3> QED BY <2>1, <2>5, UsedTiles
    <2> HIDE DEF u, mark
    <2>7. /\ used \in Caches /\ used.known = c.known /\ used.lease = c.lease
          /\ used.tiles = u /\ used.pending = c.pending
      BY <2>6, WithTiles DEF u
    <2> HIDE DEF used
    <2>8. TilesOfKnown(used)
      BY <2>5, <2>6, <2>7 DEF TilesOfKnown
    <2>9. Keys(c) \subseteq Keys(used) /\ key \in Keys(used)
      BY <2>5, <2>6, <2>7 DEF Keys
    <2>10. Continues(c, used)
      BY <2>7, <2>8, <2>9 DEF Continues
    <2>11. CASE ~tile.solved /\ tile.retry = 0
      <3>1. q = [cache |-> Enqueued(used, key, support), found |-> FALSE]
        BY <1>3, <2>11 DEF Query, used, u, mark
      <3>2. Continues(used, Enqueued(used, key, support))
        BY <2>7, <2>8, EnqueuedDemand DEF Continues, TilesOfKnown, Keys
      <3>3. Continues(c, Enqueued(used, key, support))
        BY <2>10, <3>2, ContinuesOn
      <3> QED BY <3>1, <3>3
    <2>12. CASE ~(~tile.solved /\ tile.retry = 0)
      <3>1. q = [cache |-> used, found |-> tile.solved]
        BY <1>3, <2>12 DEF Query, used, u, mark
      <3>2. tile.solved \in BOOLEAN
        BY <2>3 DEF Tiles
      <3> QED BY <1>3, <2>9, <2>10, <3>1, <3>2
    <2> QED BY <2>11, <2>12
  <1> QED BY <1>1, <1>2, <1>3

\* What a body has of its queries, from the cache c.
Answers(c) == {p \in [cache : Caches, found : BOOLEAN] : Continues(c, p.cache)}

LEMMA QueriedContinues ==
    ASSUME NEW c \in Caches, NEW p \in Answers(c), NEW key \in Places,
           NEW support \in BOOLEAN
    PROVE  LET q == Queried(p, key, support)
           IN  /\ q \in Answers(c) /\ Continues(p.cache, q.cache)
               /\ q.found => p.found /\ CanAnswer(c) /\ key \in Keys(q.cache)
PROOF
  <1>1. p.cache \in Caches /\ TilesOfKnown(p.cache) /\ Continues(c, p.cache)
    BY DEF Answers, Continues
  <1>2. CASE ~p.found
    BY <1>1, <1>2, ContinuesItself DEF Queried
  <1>3. CASE p.found
    <2> DEFINE q == Query(p.cache, key, support)
    <2>1. Queried(p, key, support) = q
      BY <1>3 DEF Queried
    <2>2. /\ Continues(p.cache, q.cache) /\ q.found \in BOOLEAN
          /\ q.found => CanAnswer(p.cache) /\ key \in Keys(q.cache)
      BY <1>1, QueryContinues
    <2>3. q = [cache |-> q.cache, found |-> q.found]
      BY DEF Query
    <2>4. CanAnswer(p.cache) = CanAnswer(c)
      BY <1>1 DEF CanAnswer, Continues
    <2> HIDE DEF q
    <2>5. Continues(c, q.cache) /\ q.cache \in Caches
      BY <1>1, <2>2, ContinuesOn DEF Continues
    <2>6. q \in Answers(c)
      BY <2>2, <2>3, <2>5 DEF Answers
    <2> QED BY <1>3, <2>1, <2>2, <2>4, <2>6
  <1> QED BY <1>2, <1>3 DEF Answers

\* done tells what there is of the queries after each of them.
QueriesUpTo(done, c, keys, support) ==
    done = [n \in 0 .. Len(keys) |->
              IF n = 0 THEN [cache |-> c, found |-> TRUE]
                       ELSE Only({ Queried(d, keys[n], support) :
                                     d \in {done[n - 1]} })]

LEMMA QueriesAreDefined ==
    ASSUME NEW c \in Caches, TilesOfKnown(c), NEW keys \in Seq(Places),
           NEW support \in BOOLEAN
    PROVE  \E done : /\ QueriesUpTo(done, c, keys, support)
                     /\ Queries(c, keys, support) = done[Len(keys)]
PROOF
  <1> DEFINE N == Len(keys)
             V == Answers(c)
             v == [cache |-> c, found |-> TRUE]
             step == [x \in V \X (1..N) |-> Queried(x[1], keys[x[2]], support)]
  <1>1. N \in Nat /\ \A n \in 1..N : keys[n] \in Places
    BY LenProperties
  <1>2. v \in V
    BY ContinuesItself DEF Answers
  <1>3. step \in [V \X (1..N) -> V]
    <2>1. ASSUME NEW p \in V, NEW n \in 1..N
          PROVE  Queried(p, keys[n], support) \in V
      BY <1>1, <2>1, QueriedContinues
    <2> HIDE DEF V, N
    <2> QED BY <2>1
  <1> HIDE DEF N, V, v
  <1>4. PICK f \in [0..N -> V] : Steps(f, v, step, N)
    <2> HIDE DEF step
    <2>1. N \in Nat
      BY <1>1
    <2> QED BY ONLY <2>1, <1>2, <1>3, StepsExist
  <1>5. ASSUME NEW n \in 0..N
        PROVE  f[n] = IF n = 0 THEN v
                      ELSE Only({Queried(d, keys[n], support) : d \in {f[n - 1]}})
    <2>1. CASE n = 0
      BY <1>1, <1>4, <2>1 DEF Steps
    <2>2. CASE n # 0
      <3>1. n \in 1..N /\ n - 1 \in 0..N /\ f[n - 1] \in V
        <4>1. n \in 1..N /\ n - 1 \in 0..N
          BY <1>1, <2>2
        <4> QED BY <1>4, <4>1
      <3>2. f[n] = step[<<f[n - 1], n>>]
        BY <1>4, <2>2 DEF Steps
      <3>3. step[<<f[n - 1], n>>] = Queried(f[n - 1], keys[n], support)
        BY <3>1
      <3>4. {Queried(d, keys[n], support) : d \in {f[n - 1]}}
              = {Queried(f[n - 1], keys[n], support)}
        OBVIOUS
      <3> QED BY <2>2, <3>2, <3>3, <3>4, OnlyOne
    <2> QED BY <2>1, <2>2
  <1>6. f = [n \in 0..N |-> f[n]]
    BY <1>4
  <1>7. QueriesUpTo(f, c, keys, support)
    BY <1>5, <1>6 DEF QueriesUpTo, N, v
  <1> DEFINE g == CHOOSE done : done = [n \in 0 .. Len(keys) |->
              IF n = 0 THEN [cache |-> c, found |-> TRUE]
                       ELSE Only({ Queried(d, keys[n], support) :
                                     d \in {done[n - 1]} })]
  <1>8. QueriesUpTo(g, c, keys, support)
    BY <1>7 DEF QueriesUpTo
  <1>9. Queries(c, keys, support) = g[Len(keys)]
    BY DEF Queries
  <1> QED BY <1>8, <1>9

\* A body that has found its ground found it in tiles that are still there.
LEMMA QueriesContinue ==
    ASSUME NEW c \in Caches, TilesOfKnown(c), NEW keys \in Seq(Places),
           NEW support \in BOOLEAN
    PROVE  LET q == Queries(c, keys, support)
           IN  /\ q \in Answers(c)
               /\ q.found => \A i \in DOMAIN keys :
                               CanAnswer(c) /\ keys[i] \in Keys(q.cache)
PROOF
  <1> DEFINE N == Len(keys)
  <1>1. /\ N \in Nat /\ DOMAIN keys = 1..N
        /\ \A n \in 1..N : keys[n] \in Places
    BY LenProperties
  <1>2. PICK f : QueriesUpTo(f, c, keys, support) /\ Queries(c, keys, support) = f[N]
    BY QueriesAreDefined
  <1> HIDE DEF N
  <1> DEFINE Good(p, n) ==
               /\ p \in Answers(c)
               /\ p.found => \A i \in 1..n :
                               CanAnswer(c) /\ keys[i] \in Keys(p.cache)
             M == {n \in 0..N : Good(f[n], n)}
  <1>3. 0 \in M
    <2>1. f[0] = [cache |-> c, found |-> TRUE]
      BY <1>1, <1>2 DEF QueriesUpTo, N
    <2>2. f[0] \in Answers(c)
      BY <2>1, ContinuesItself DEF Answers
    <2> QED BY <1>1, <2>2
  <1>4. ASSUME NEW n \in 0..N - 1, n \in M PROVE n + 1 \in M
    <2>1. n + 1 \in 1..N /\ n + 1 \in 0..N /\ (n + 1) - 1 = n /\ n + 1 # 0
      BY <1>1
    <2> DEFINE p == f[n]
               q == f[n + 1]
    <2>2. Good(p, n)
      BY <1>4
    <2>3. q = Only({Queried(d, keys[n + 1], support) : d \in {p}})
      BY <1>1, <1>2, <2>1 DEF QueriesUpTo, N
    <2>4. {Queried(d, keys[n + 1], support) : d \in {p}}
            = {Queried(p, keys[n + 1], support)}
      OBVIOUS
    <2>5. q = Queried(p, keys[n + 1], support)
      BY <2>3, <2>4, OnlyOne
    <2> HIDE DEF p, q
    <2>6. /\ q \in Answers(c) /\ Continues(p.cache, q.cache)
          /\ q.found => p.found /\ CanAnswer(c) /\ keys[n + 1] \in Keys(q.cache)
      BY <1>1, <2>1, <2>2, <2>5, QueriedContinues
    <2>7. ASSUME q.found, NEW i \in 1..n + 1
          PROVE  CanAnswer(c) /\ keys[i] \in Keys(q.cache)
      <3>1. CASE i = n + 1
        BY <2>6, <2>7, <3>1
      <3>2. CASE i \in 1..n
        BY <2>2, <2>6, <2>7, <3>2 DEF Continues
      <3> QED BY <2>1, <3>1, <3>2
    <2>8. Good(q, n + 1)
      BY <2>6, <2>7
    <2> QED BY <2>1, <2>8 DEF q
  <1>5. N \in M => Good(f[N], N)
    OBVIOUS
  <1> HIDE DEF M
  <1>6. \A n \in 0..N : n \in M
    BY <1>1, <1>3, <1>4, IntervalInduction
  <1>7. Good(f[N], N)
    BY <1>1, <1>5, <1>6
  <1> QED BY <1>1, <1>2, <1>7

-----------------------------------------------------------------------------
(* What a tick makes of the bodies, one after the other.                   *)

LEMMA RoutesAreLegal ==
    ASSUME TilesTypeOK
    PROVE  /\ Len(scene.routes) \in Nat /\ Bodies = 1 .. Len(scene.routes)
           /\ \A b \in Bodies : \A i \in DOMAIN scene.routes[b] :
                /\ scene.routes[b][i].stand \in Seq(Places)
                /\ scene.routes[b][i].plan \in Seq(Places)
           /\ \A b \in Bodies : NextOf(b) \in DOMAIN scene.routes[b]
           /\ \A b \in Bodies : NextOf(b) \in Nat
PROOF
  <1> DEFINE Poses == [stand : Seq(Places), plan : Seq(Places)]
  <1>1. scene.routes \in Seq(Seq(Poses) \ {<<>>})
    BY TileAssumption DEF TilesTypeOK, Scene
  <1> HIDE DEF Poses
  <1>2. /\ Len(scene.routes) \in Nat /\ Bodies = 1 .. Len(scene.routes)
        /\ \A b \in Bodies : scene.routes[b] \in Seq(Poses) \ {<<>>}
    BY <1>1, LenProperties DEF Bodies
  <1>3. ASSUME NEW b \in Bodies
        PROVE  /\ Len(scene.routes[b]) \in Nat \ {0}
               /\ DOMAIN scene.routes[b] = 1 .. Len(scene.routes[b])
               /\ \A i \in DOMAIN scene.routes[b] : scene.routes[b][i] \in Poses
    <2> DEFINE r == scene.routes[b]
    <2>1. r \in Seq(Poses) /\ r # <<>>
      BY <1>2
    <2> HIDE DEF r
    <2>2. Len(r) \in Nat \ {0} /\ DOMAIN r = 1 .. Len(r)
          /\ \A i \in DOMAIN r : r[i] \in Poses
      BY <2>1, LenProperties, EmptySeq
    <2> QED BY <2>2 DEF r
  <1>4. ASSUME NEW b \in Bodies
        PROVE  NextOf(b) \in DOMAIN scene.routes[b] /\ NextOf(b) \in Nat
    <2>1. traffic.at[b] \in Nat
      BY <1>3 DEF TilesTypeOK, Positions
    <2>2. \A n \in Nat, k \in Nat \ {0} : (n % k) + 1 \in 1..k
      OBVIOUS
    <2>3. NextOf(b) \in 1 .. Len(scene.routes[b])
      BY <1>3, <2>1, <2>2 DEF NextOf
    <2> QED BY <1>3, <2>3
  <1> QED BY <1>2, <1>3, <1>4 DEF Poses

\* What there is of a tick when it has come to a body, from the cache c.
Entering(c) ==
    {d \in [cache : Caches, spawned : SUBSET Bodies, waiting : BOOLEAN] :
       Continues(c, d.cache)}

LEMMA SpawnedContinues ==
    ASSUME TilesTypeOK, NEW c \in Caches, NEW d \in Entering(c), NEW b \in Bodies
    PROVE  Spawned(d, b) \in Entering(c)
PROOF
  <1>1. d.cache \in Caches /\ TilesOfKnown(d.cache) /\ Continues(c, d.cache)
        /\ d.spawned \in SUBSET Bodies /\ d.waiting \in BOOLEAN
    BY DEF Entering, Continues
  <1>2. CASE b \in d.spawned
    BY <1>2 DEF Spawned
  <1>3. CASE b \notin d.spawned
    <2> DEFINE q == Queries(d.cache, Here(b).stand, TRUE)
    <2>1. Here(b).stand \in Seq(Places)
      BY RoutesAreLegal DEF Here, TilesTypeOK, Positions
    <2>2. q \in Answers(d.cache)
      BY <1>1, <2>1, QueriesContinue
    <2>3. Spawned(d, b) = Entered(d, b, q)
      <3>1. {Entered(d, b, a) : a \in {q}} = {Entered(d, b, q)}
        OBVIOUS
      <3> QED BY <1>3, <3>1, OnlyOne DEF Spawned
    <2> HIDE DEF q
    <2>4. q.cache \in Caches /\ q.found \in BOOLEAN /\ Continues(c, q.cache)
      BY <1>1, <2>2, ContinuesOn DEF Answers
    <2>5. Entered(d, b, q) \in Entering(c)
      BY <1>1, <2>4 DEF Entered, Entering
    <2> QED BY <2>3, <2>5
  <1> QED BY <1>2, <1>3

InitializedUpTo(done, c) ==
    done = [b \in 0 .. Len(scene.routes) |->
              IF b = 0
                THEN [ cache |-> c, spawned |-> traffic.spawned,
                       waiting |-> IF owner.ready /\ traffic.waiting
                                     THEN ~CanAnswer(c) ELSE traffic.waiting ]
                ELSE Only({Spawned(d, b) : d \in {done[b - 1]}})]

LEMMA InitializedContinues ==
    ASSUME TilesTypeOK, NEW c \in Caches, TilesOfKnown(c)
    PROVE  Initialized(c) \in Entering(c)
PROOF
  <1> DEFINE N == Len(scene.routes)
             V == Entering(c)
             v == [ cache |-> c, spawned |-> traffic.spawned,
                    waiting |-> IF owner.ready /\ traffic.waiting
                                  THEN ~CanAnswer(c) ELSE traffic.waiting ]
             step == [x \in V \X (1..N) |-> Spawned(x[1], x[2])]
  <1>1. N \in Nat /\ Bodies = 1..N
    BY RoutesAreLegal
  <1>2. v \in V
    <2>1. traffic.spawned \in SUBSET Bodies /\ traffic.waiting \in BOOLEAN
      BY DEF TilesTypeOK
    <2> QED BY <2>1, ContinuesItself DEF Entering
  <1>3. step \in [V \X (1..N) -> V]
    <2>1. ASSUME NEW d \in V, NEW b \in 1..N PROVE Spawned(d, b) \in V
      BY <1>1, SpawnedContinues
    <2> HIDE DEF V, N
    <2> QED BY <2>1
  <1> HIDE DEF N, V, v
  <1>4. PICK f \in [0..N -> V] : Steps(f, v, step, N)
    <2> HIDE DEF step
    <2>1. N \in Nat
      BY <1>1
    <2> QED BY ONLY <2>1, <1>2, <1>3, StepsExist
  <1>5. ASSUME NEW b \in 0..N
        PROVE  f[b] = IF b = 0 THEN v ELSE Only({Spawned(d, b) : d \in {f[b - 1]}})
    <2>1. CASE b = 0
      BY <1>1, <1>4, <2>1 DEF Steps
    <2>2. CASE b # 0
      <3>1. b \in 1..N /\ b - 1 \in 0..N
        BY <1>1, <2>2
      <3>2. f[b - 1] \in V
        BY <1>4, <3>1
      <3>3. f[b] = step[<<f[b - 1], b>>]
        BY <1>4, <2>2 DEF Steps
      <3>4. step[<<f[b - 1], b>>] = Spawned(f[b - 1], b)
        BY <3>1, <3>2
      <3>5. {Spawned(d, b) : d \in {f[b - 1]}} = {Spawned(f[b - 1], b)}
        OBVIOUS
      <3> QED BY <2>2, <3>3, <3>4, <3>5, OnlyOne
    <2> QED BY <2>1, <2>2
  <1>6. f = [b \in 0..N |-> f[b]]
    BY <1>4
  <1>7. InitializedUpTo(f, c)
    BY <1>5, <1>6 DEF InitializedUpTo, N, v
  <1> DEFINE g == CHOOSE done : done = [b \in 0 .. Len(scene.routes) |->
              IF b = 0
                THEN [ cache |-> c, spawned |-> traffic.spawned,
                       waiting |-> IF owner.ready /\ traffic.waiting
                                     THEN ~CanAnswer(c) ELSE traffic.waiting ]
                ELSE Only({Spawned(d, b) : d \in {done[b - 1]}})]
  <1>8. InitializedUpTo(g, c)
    BY <1>7 DEF InitializedUpTo
  <1>9. Initialized(c) = g[N] \/ Initialized(c) = v
    BY DEF Initialized, N, v
  <1> HIDE DEF g
  <1> DEFINE M == {b \in 0..N : g[b] \in V}
  <1>10. 0 \in M
    BY <1>1, <1>2, <1>8 DEF InitializedUpTo, N, v
  <1>11. ASSUME NEW b \in 0..N - 1, b \in M PROVE b + 1 \in M
    <2>1. b + 1 \in 1..N /\ b + 1 \in 0..N /\ (b + 1) - 1 = b /\ b + 1 # 0
      BY <1>1
    <2>2. g[b] \in V
      BY <1>11
    <2>3. g[b + 1] = Only({Spawned(d, b + 1) : d \in {g[b]}})
      BY <1>8, <2>1 DEF InitializedUpTo, N
    <2>4. {Spawned(d, b + 1) : d \in {g[b]}} = {Spawned(g[b], b + 1)}
      OBVIOUS
    <2>5. g[b + 1] = Spawned(g[b], b + 1)
      BY <2>3, <2>4, OnlyOne
    <2>6. Spawned(g[b], b + 1) \in V
      BY <1>1, <2>1, <2>2, SpawnedContinues DEF V
    <2> QED BY <2>1, <2>5, <2>6
  <1>12. \A b \in 0..N : b \in M => g[b] \in V
    OBVIOUS
  <1> HIDE DEF M
  <1>13. \A b \in 0..N : b \in M
    BY <1>1, <1>10, <1>11, IntervalInduction
  <1>14. g[N] \in V
    BY <1>1, <1>12, <1>13
  <1> QED BY <1>2, <1>9, <1>14 DEF V

Driving(c) ==
    {d \in [cache : Caches, at : Positions] : Continues(c, d.cache)}

\* A body that moves goes on to a pose of its route.
LEMMA MovedIfContinues ==
    ASSUME TilesTypeOK, NEW c, NEW q, q.found \in BOOLEAN, q.cache \in Caches,
           Continues(c, q.cache), NEW at \in Positions, NEW b \in Bodies
    PROVE  MovedIf(q, at, b) \in Driving(c)
PROOF
  <1> DEFINE to == IF q.found THEN [at EXCEPT ![b] = NextOf(b)] ELSE at
  <1>1. to \in Positions
    <2>1. NextOf(b) \in DOMAIN scene.routes[b] /\ NextOf(b) \in Nat
      BY RoutesAreLegal
    <2>2. at \in [Bodies -> Nat] /\ \A a \in Bodies : at[a] \in DOMAIN scene.routes[a]
      BY DEF Positions
    <2> DEFINE new == [at EXCEPT ![b] = NextOf(b)]
    <2>3. new \in [Bodies -> Nat]
      BY <2>1, <2>2
    <2>4. \A a \in Bodies : new[a] \in DOMAIN scene.routes[a]
      BY <2>1, <2>2
    <2>5. new \in Positions
      BY <2>3, <2>4 DEF Positions
    <2> HIDE DEF new
    <2>6. to = new \/ to = at
      BY DEF new
    <2> QED BY <2>5, <2>6
  <1>2. MovedIf(q, at, b) = [cache |-> q.cache, at |-> to]
    BY DEF MovedIf
  <1> HIDE DEF to
  <1> QED BY <1>1, <1>2 DEF Driving

LEMMA SteeredContinues ==
    ASSUME TilesTypeOK, NEW c \in Caches, NEW d \in Driving(c), NEW b \in Bodies
    PROVE  Steered(d, b) \in Driving(c)
PROOF
  <1>1. d.cache \in Caches /\ TilesOfKnown(d.cache) /\ Continues(c, d.cache)
        /\ d.at \in Positions
    BY DEF Driving, Continues
  <1>2. Ahead(b).stand \in Seq(Places) /\ Ahead(b).plan \in Seq(Places)
    BY RoutesAreLegal DEF Ahead
  <1> DEFINE p == Queries(d.cache, Ahead(b).plan, FALSE)
             q == IF p.found THEN Queries(p.cache, Ahead(b).stand, TRUE) ELSE p
  <1>3. p \in Answers(d.cache)
    BY <1>1, <1>2, QueriesContinue
  <1>4. Steered(d, b) = Moving(p, d.at, b)
    <2>1. {Moving(a, d.at, b) : a \in {p}} = {Moving(p, d.at, b)}
      OBVIOUS
    <2> QED BY <2>1, OnlyOne DEF Steered
  <1>5. Moving(p, d.at, b) = MovedIf(q, d.at, b)
    <2>1. {MovedIf(a, d.at, b) : a \in {q}} = {MovedIf(q, d.at, b)}
      OBVIOUS
    <2> QED BY <2>1, OnlyOne DEF Moving
  <1> HIDE DEF p
  <1>6. /\ p.cache \in Caches /\ p.found \in BOOLEAN
        /\ Continues(c, p.cache) /\ TilesOfKnown(p.cache)
    BY <1>1, <1>3, ContinuesOn DEF Answers, Continues
  <1>7. q.cache \in Caches /\ q.found \in BOOLEAN /\ Continues(c, q.cache)
    <2>1. CASE p.found
      <3> DEFINE a == Queries(p.cache, Ahead(b).stand, TRUE)
      <3>1. a \in Answers(p.cache)
        BY <1>2, <1>6, QueriesContinue
      <3>2. q = a
        BY <2>1
      <3> HIDE DEF a, q
      <3> QED BY <1>6, <3>1, <3>2, ContinuesOn DEF Answers
    <2>2. CASE ~p.found
      BY <1>6, <2>2
    <2> QED BY <1>6, <2>1, <2>2
  <1> HIDE DEF q
  <1>8. MovedIf(q, d.at, b) \in Driving(c)
    BY <1>1, <1>7, MovedIfContinues
  <1> QED BY <1>4, <1>5, <1>8

TrafficUpTo(done, init) ==
    done = [b \in 0 .. Len(scene.routes) |->
              IF b = 0 THEN [cache |-> init.cache, at |-> traffic.at]
                       ELSE Only({Steered(d, b) : d \in {done[b - 1]}})]

LEMMA TrafficContinues ==
    ASSUME TilesTypeOK, NEW init, init.cache \in Caches, TilesOfKnown(init.cache)
    PROVE  AfterTraffic(init) \in Driving(init.cache)
PROOF
  <1> DEFINE N == Len(scene.routes)
             V == Driving(init.cache)
             v == [cache |-> init.cache, at |-> traffic.at]
             step == [x \in V \X (1..N) |-> Steered(x[1], x[2])]
  <1>1. N \in Nat /\ Bodies = 1..N
    BY RoutesAreLegal
  <1>2. v \in V
    <2>1. traffic.at \in Positions
      BY DEF TilesTypeOK
    <2> QED BY <2>1, ContinuesItself DEF Driving
  <1>3. step \in [V \X (1..N) -> V]
    <2>1. ASSUME NEW d \in V, NEW b \in 1..N PROVE Steered(d, b) \in V
      BY <1>1, SteeredContinues
    <2> HIDE DEF V, N
    <2> QED BY <2>1
  <1> HIDE DEF N, V, v
  <1>4. PICK f \in [0..N -> V] : Steps(f, v, step, N)
    <2> HIDE DEF step
    <2>1. N \in Nat
      BY <1>1
    <2> QED BY ONLY <2>1, <1>2, <1>3, StepsExist
  <1>5. ASSUME NEW b \in 0..N
        PROVE  f[b] = IF b = 0 THEN v ELSE Only({Steered(d, b) : d \in {f[b - 1]}})
    <2>1. CASE b = 0
      BY <1>1, <1>4, <2>1 DEF Steps
    <2>2. CASE b # 0
      <3>1. b \in 1..N /\ b - 1 \in 0..N
        BY <1>1, <2>2
      <3>2. f[b - 1] \in V
        BY <1>4, <3>1
      <3>3. f[b] = step[<<f[b - 1], b>>]
        BY <1>4, <2>2 DEF Steps
      <3>4. step[<<f[b - 1], b>>] = Steered(f[b - 1], b)
        BY <3>1, <3>2
      <3>5. {Steered(d, b) : d \in {f[b - 1]}} = {Steered(f[b - 1], b)}
        OBVIOUS
      <3> QED BY <2>2, <3>3, <3>4, <3>5, OnlyOne
    <2> QED BY <2>1, <2>2
  <1>6. f = [b \in 0..N |-> f[b]]
    BY <1>4
  <1>7. TrafficUpTo(f, init)
    BY <1>5, <1>6 DEF TrafficUpTo, N, v
  <1> DEFINE g == CHOOSE done : done = [b \in 0 .. Len(scene.routes) |->
              IF b = 0 THEN [cache |-> init.cache, at |-> traffic.at]
                       ELSE Only({Steered(d, b) : d \in {done[b - 1]}})]
  <1>8. TrafficUpTo(g, init)
    BY <1>7 DEF TrafficUpTo
  <1>9. AfterTraffic(init) = g[N] \/ AfterTraffic(init) = v
    BY DEF AfterTraffic, N, v
  <1> HIDE DEF g
  <1> DEFINE M == {b \in 0..N : g[b] \in V}
  <1>10. 0 \in M
    BY <1>1, <1>2, <1>8 DEF TrafficUpTo, N, v
  <1>11. ASSUME NEW b \in 0..N - 1, b \in M PROVE b + 1 \in M
    <2>1. b + 1 \in 1..N /\ b + 1 \in 0..N /\ (b + 1) - 1 = b /\ b + 1 # 0
      BY <1>1
    <2>2. g[b] \in V
      BY <1>11
    <2>3. g[b + 1] = Only({Steered(d, b + 1) : d \in {g[b]}})
      BY <1>8, <2>1 DEF TrafficUpTo, N
    <2>4. {Steered(d, b + 1) : d \in {g[b]}} = {Steered(g[b], b + 1)}
      OBVIOUS
    <2>5. g[b + 1] = Steered(g[b], b + 1)
      BY <2>3, <2>4, OnlyOne
    <2>6. Steered(g[b], b + 1) \in V
      BY <1>1, <2>1, <2>2, SteeredContinues DEF V
    <2> QED BY <2>1, <2>5, <2>6
  <1>12. \A b \in 0..N : b \in M => g[b] \in V
    OBVIOUS
  <1> HIDE DEF M
  <1>13. \A b \in 0..N : b \in M
    BY <1>1, <1>10, <1>11, IntervalInduction
  <1>14. g[N] \in V
    BY <1>1, <1>12, <1>13
  <1> QED BY <1>2, <1>9, <1>14 DEF V

\* What the first n bodies stand on is among the tiles.
StandUpTo(c, p, at, n) ==
    \A b \in 1 .. n : \A i \in DOMAIN Support(at, b) :
      CanAnswer(c) /\ Support(at, b)[i] \in Keys(p.cache)

LEMMA SupportedContinues ==
    ASSUME TilesTypeOK, NEW c \in Caches, NEW p \in Answers(c),
           NEW at \in Positions, NEW b \in Bodies
    PROVE  LET q == Supported(p, at, b)
           IN  /\ q \in Answers(c) /\ Continues(p.cache, q.cache)
               /\ q.found => /\ p.found
                             /\ \A i \in DOMAIN Support(at, b) :
                                  /\ CanAnswer(c)
                                  /\ Support(at, b)[i] \in Keys(q.cache)
PROOF
  <1>1. p.cache \in Caches /\ TilesOfKnown(p.cache) /\ Continues(c, p.cache)
    BY DEF Answers, Continues
  <1>2. Support(at, b) \in Seq(Places)
    BY RoutesAreLegal DEF Support, Positions
  <1>3. CASE ~p.found
    BY <1>1, <1>3, ContinuesItself DEF Supported
  <1>4. CASE p.found
    <2> DEFINE q == Queries(p.cache, Support(at, b), TRUE)
    <2>1. Supported(p, at, b) = q
      BY <1>4 DEF Supported
    <2>2. /\ q \in Answers(p.cache)
          /\ q.found => \A i \in DOMAIN Support(at, b) :
                          /\ CanAnswer(p.cache)
                          /\ Support(at, b)[i] \in Keys(q.cache)
      BY <1>1, <1>2, QueriesContinue
    <2> HIDE DEF q
    <2>3. CanAnswer(p.cache) = CanAnswer(c)
      BY <1>1 DEF CanAnswer, Continues
    <2>4. q \in Answers(c) /\ Continues(p.cache, q.cache)
      BY <1>1, <2>2, ContinuesOn DEF Answers
    <2> QED BY <1>4, <2>1, <2>2, <2>3, <2>4
  <1> QED BY <1>3, <1>4

ValidatedUpTo(done, c, at) ==
    done = [b \in 0 .. Len(scene.routes) |->
              IF b = 0 THEN [cache |-> c, found |-> TRUE]
                       ELSE Only({Supported(d, at, b) : d \in {done[b - 1]}})]

\* A tick that is valid has every body on tiles that are there at its end.
LEMMA ValidatedContinues ==
    ASSUME TilesTypeOK, NEW c \in Caches, TilesOfKnown(c), NEW at \in Positions
    PROVE  LET p == Validated(c, at)
           IN  /\ p \in Answers(c)
               /\ p.found => StandUpTo(c, p, at, Len(scene.routes))
PROOF
  <1> DEFINE N == Len(scene.routes)
             V == Answers(c)
             v == [cache |-> c, found |-> TRUE]
             step == [x \in V \X (1..N) |-> Supported(x[1], at, x[2])]
  <1>1. N \in Nat /\ Bodies = 1..N
    BY RoutesAreLegal
  <1>2. v \in V
    BY ContinuesItself DEF Answers
  <1>3. step \in [V \X (1..N) -> V]
    <2>1. ASSUME NEW d \in V, NEW b \in 1..N PROVE Supported(d, at, b) \in V
      BY <1>1, SupportedContinues
    <2> HIDE DEF V, N
    <2> QED BY <2>1
  <1> HIDE DEF N, V, v
  <1>4. PICK f \in [0..N -> V] : Steps(f, v, step, N)
    <2> HIDE DEF step
    <2>1. N \in Nat
      BY <1>1
    <2> QED BY ONLY <2>1, <1>2, <1>3, StepsExist
  <1>5. ASSUME NEW b \in 0..N
        PROVE  f[b] = IF b = 0 THEN v
                      ELSE Only({Supported(d, at, b) : d \in {f[b - 1]}})
    <2>1. CASE b = 0
      BY <1>1, <1>4, <2>1 DEF Steps
    <2>2. CASE b # 0
      <3>1. b \in 1..N /\ b - 1 \in 0..N
        BY <1>1, <2>2
      <3>2. f[b - 1] \in V
        BY <1>4, <3>1
      <3>3. f[b] = step[<<f[b - 1], b>>]
        BY <1>4, <2>2 DEF Steps
      <3>4. step[<<f[b - 1], b>>] = Supported(f[b - 1], at, b)
        BY <3>1, <3>2
      <3>5. {Supported(d, at, b) : d \in {f[b - 1]}} = {Supported(f[b - 1], at, b)}
        OBVIOUS
      <3> QED BY <2>2, <3>3, <3>4, <3>5, OnlyOne
    <2> QED BY <2>1, <2>2
  <1>6. f = [b \in 0..N |-> f[b]]
    BY <1>4
  <1>7. ValidatedUpTo(f, c, at)
    BY <1>5, <1>6 DEF ValidatedUpTo, N, v
  <1> DEFINE g == CHOOSE done : done = [b \in 0 .. Len(scene.routes) |->
              IF b = 0 THEN [cache |-> c, found |-> TRUE]
                       ELSE Only({Supported(d, at, b) : d \in {done[b - 1]}})]
  <1>8. ValidatedUpTo(g, c, at)
    BY <1>7 DEF ValidatedUpTo
  <1>9. Validated(c, at) = g[N]
    BY DEF Validated, N
  <1> HIDE DEF g
  <1> DEFINE Good(p, n) == p \in V /\ (p.found => StandUpTo(c, p, at, n))
             M == {b \in 0..N : Good(g[b], b)}
  <1>10. 0 \in M
    <2>1. g[0] = v
      BY <1>1, <1>8 DEF ValidatedUpTo, N, v
    <2> QED BY <1>1, <1>2, <2>1 DEF StandUpTo
  <1>11. ASSUME NEW b \in 0..N - 1, b \in M PROVE b + 1 \in M
    <2>1. b + 1 \in 1..N /\ b + 1 \in 0..N /\ (b + 1) - 1 = b /\ b + 1 # 0
      BY <1>1
    <2> DEFINE p == g[b]
               q == g[b + 1]
    <2>2. Good(p, b)
      BY <1>11
    <2>3. q = Only({Supported(d, at, b + 1) : d \in {p}})
      BY <1>8, <2>1 DEF ValidatedUpTo, N
    <2>4. {Supported(d, at, b + 1) : d \in {p}} = {Supported(p, at, b + 1)}
      OBVIOUS
    <2>5. q = Supported(p, at, b + 1)
      BY <2>3, <2>4, OnlyOne
    <2> HIDE DEF p, q
    <2>6. /\ q \in V /\ Continues(p.cache, q.cache)
          /\ q.found => /\ p.found
                        /\ \A i \in DOMAIN Support(at, b + 1) :
                             /\ CanAnswer(c)
                             /\ Support(at, b + 1)[i] \in Keys(q.cache)
      BY <1>1, <2>1, <2>2, <2>5, SupportedContinues DEF V
    <2>7. ASSUME q.found, NEW a \in 1 .. b + 1, NEW i \in DOMAIN Support(at, a)
          PROVE  CanAnswer(c) /\ Support(at, a)[i] \in Keys(q.cache)
      <3>1. CASE a = b + 1
        BY <2>6, <2>7, <3>1
      <3>2. CASE a \in 1 .. b
        BY <2>2, <2>6, <2>7, <3>2 DEF Continues, StandUpTo
      <3> QED BY <2>1, <3>1, <3>2
    <2>8. Good(q, b + 1)
      BY <2>6, <2>7 DEF StandUpTo
    <2> QED BY <2>1, <2>8 DEF q
  <1>12. \A b \in 0..N : b \in M => Good(g[b], b)
    OBVIOUS
  <1> HIDE DEF M
  <1>13. \A b \in 0..N : b \in M
    BY <1>1, <1>10, <1>11, IntervalInduction
  <1>14. Good(g[N], N)
    BY <1>1, <1>12, <1>13
  <1> QED BY <1>9, <1>14 DEF V, N

-----------------------------------------------------------------------------
(* The outcome of a tick.                                                  *)

LEMMA EmptiedCache ==
    ASSUME NEW c \in Caches
    PROVE  /\ Emptied(c) \in Caches /\ Emptied(c).known = c.known
           /\ Emptied(c).lease = c.lease /\ Emptied(c).tiles = <<>>
           /\ Emptied(c).pending = NoDemand
PROOF
  <1>1. NoDemand \in Requests
    BY TileAssumption DEF NoDemand, Requests
  <1>2. <<>> \in Seq(Tiles) /\ <<>> \in Seq(Demands)
    BY EmptySeq
  <1> QED BY <1>1, <1>2 DEF Emptied, Caches

LEMMA NoWorldOf ==
    ASSUME NEW context \in Nat
    PROVE  LET w == [NoWorld EXCEPT !.context = context]
           IN  w \in Worlds /\ w.context = context /\ w.ready = FALSE
  BY DEF NoWorld, Worlds

LEMMA ContextCache ==
    ASSUME NEW c \in Caches, NEW context \in Nat
    PROVE  /\ InContext(c, context) \in Caches
           /\ InContext(c, context).known.context = context
           /\ \/ InContext(c, context) = c
              \/ /\ InContext(c, context).lease = 0
                 /\ InContext(c, context).tiles = <<>>
                 /\ InContext(c, context).pending = NoDemand
PROOF
  <1> DEFINE new == [NoCache EXCEPT !.known.context = context]
  <1>1. NoDemand \in Requests
    BY TileAssumption DEF NoDemand, Requests
  <1>2. <<>> \in Seq(Tiles) /\ <<>> \in Seq(Demands)
    BY EmptySeq
  <1> DEFINE w == [NoWorld EXCEPT !.context = context]
  <1>3. w \in Worlds /\ w.context = context
    BY NoWorldOf
  <1>4. new = [ known |-> w, lease |-> 0, tiles |-> <<>>, demands |-> <<>>,
                pending |-> NoDemand ]
    <2>1. NoCache.known = NoWorld
      BY DEF NoCache
    <2>2. new = [NoCache EXCEPT !.known = w]
      BY <2>1
    <2> HIDE DEF w
    <2> QED BY <2>2 DEF NoCache
  <1> HIDE DEF new, w
  <1>5. /\ new \in Caches /\ new.known.context = context
        /\ new.lease = 0 /\ new.tiles = <<>> /\ new.pending = NoDemand
    BY <1>1, <1>2, <1>3, <1>4, TileAssumption DEF Caches
  <1> QED BY <1>5 DEF InContext, Caches, Worlds, new

LEMMA BegunCache ==
    ASSUME NEW c \in Caches
    PROVE  /\ Begun(c) \in Caches /\ Begun(c).known = c.known
           /\ Begun(c).lease = c.lease
           /\ \/ Begun(c) = c
              \/ Begun(c).tiles = <<>> /\ Begun(c).pending = NoDemand
  BY EmptiedCache DEF Begun

LEMMA NoTilesOfKnown == ASSUME NEW c, c.tiles = <<>> PROVE TilesOfKnown(c)
  BY DEF TilesOfKnown

LEMMA TilesAtTickAre ==
    ASSUME TilesTypeOK, TilesOfKnown(cache)
    PROVE  /\ TilesAtTick \in Caches /\ TilesOfKnown(TilesAtTick)
           /\ TilesAtTick.pending \in {cache.pending, NoDemand}
           /\ owner.ready => /\ TilesAtTick.known = cache.known
                             /\ TilesAtTick.lease = cache.lease
           /\ ~owner.ready => TilesAtTick.known.context = 0
           /\ TilesAtTick.lease > 0 => /\ TilesAtTick.known = cache.known
                                       /\ TilesAtTick.lease = cache.lease
PROOF
  <1> DEFINE c == IF owner.ready THEN cache ELSE InContext(cache, 0)
  <1>1. cache \in Caches /\ owner.ready \in BOOLEAN
    BY DEF TilesTypeOK
  <1>2. /\ InContext(cache, 0) \in Caches
        /\ InContext(cache, 0).known.context = 0
        /\ \/ InContext(cache, 0) = cache
           \/ /\ InContext(cache, 0).lease = 0
              /\ InContext(cache, 0).tiles = <<>>
              /\ InContext(cache, 0).pending = NoDemand
    BY <1>1, ContextCache
  <1>3. /\ c \in Caches /\ TilesOfKnown(c)
        /\ c.pending \in {cache.pending, NoDemand}
        /\ owner.ready => c = cache
        /\ ~owner.ready => c.known.context = 0
        /\ c = cache \/ c.lease = 0
    BY <1>1, <1>2, NoTilesOfKnown
  <1>4. TilesAtTick = Begun(c)
    BY DEF TilesAtTick
  <1> HIDE DEF c
  <1>5. /\ Begun(c) \in Caches /\ Begun(c).known = c.known
        /\ Begun(c).lease = c.lease
        /\ \/ Begun(c) = c
           \/ Begun(c).tiles = <<>> /\ Begun(c).pending = NoDemand
    BY <1>3, BegunCache
  <1>6. c.lease \in Nat
    BY <1>3, TileAssumption DEF Caches
  <1>7. TilesOfKnown(Begun(c))
    BY <1>3, <1>5, NoTilesOfKnown
  <1> QED BY <1>3, <1>4, <1>5, <1>6, <1>7

\* What a tick comes to: it continues the cache, and a tick that counts has
\* found every body's ground in it.
LEMMA OutcomeIs ==
    ASSUME TilesTypeOK, TilesOfKnown(cache)
    PROVE  /\ Continues(TilesAtTick, Outcome.cache)
           /\ Outcome.at \in Positions /\ Outcome.spawned \in SUBSET Bodies
           /\ Outcome.waiting \in BOOLEAN /\ Outcome.accepted \in BOOLEAN
           /\ Outcome.accepted =>
                /\ owner.ready /\ KnownToPlayer.ready
                /\ \A b \in Bodies : \A i \in DOMAIN Support(Outcome.at, b) :
                     /\ CanAnswer(TilesAtTick)
                     /\ Support(Outcome.at, b)[i] \in Keys(Outcome.cache)
PROOF
  <1> DEFINE c == TilesAtTick
             init == Initialized(c)
             moved == AfterTraffic(init)
             valid == Validated(moved.cache, moved.at)
  <1>1. c \in Caches /\ TilesOfKnown(c)
    BY TilesAtTickAre
  <1>2. init \in Entering(c)
    BY <1>1, InitializedContinues
  <1>3. Outcome = Ended(init, moved, valid)
    <2>1. {Driven(a) : a \in {init}} = {Driven(init)}
      OBVIOUS
    <2>2. Outcome = Driven(init)
      BY <2>1, OnlyOne DEF Outcome
    <2>3. {Followed(init, a) : a \in {moved}} = {Followed(init, moved)}
      OBVIOUS
    <2>4. Driven(init) = Followed(init, moved)
      BY <2>3, OnlyOne DEF Driven
    <2>5. {Ended(init, moved, a) : a \in {valid}} = {Ended(init, moved, valid)}
      OBVIOUS
    <2>6. Followed(init, moved) = Ended(init, moved, valid)
      BY <2>5, OnlyOne DEF Followed
    <2> QED BY <2>2, <2>4, <2>6
  <1> HIDE DEF c, init
  <1>4. /\ init.cache \in Caches /\ TilesOfKnown(init.cache)
        /\ Continues(c, init.cache)
        /\ init.spawned \in SUBSET Bodies /\ init.waiting \in BOOLEAN
    BY <1>2 DEF Entering, Continues
  <1>5. moved \in Driving(init.cache)
    BY <1>4, TrafficContinues
  <1> HIDE DEF moved
  <1>6. /\ moved.cache \in Caches /\ TilesOfKnown(moved.cache)
        /\ Continues(c, moved.cache) /\ moved.at \in Positions
    BY <1>4, <1>5, ContinuesOn DEF Driving, Continues
  <1>7. /\ valid \in Answers(moved.cache)
        /\ valid.found => StandUpTo(moved.cache, valid, moved.at, Len(scene.routes))
    BY <1>6, ValidatedContinues
  <1> HIDE DEF valid
  <1>8. Continues(c, valid.cache) /\ valid.found \in BOOLEAN
    BY <1>6, <1>7, ContinuesOn DEF Answers
  <1>9. KnownToPlayer.ready \in BOOLEAN /\ owner.ready \in BOOLEAN
    BY DEF KnownToPlayer, TilesTypeOK, Worlds, NoWorld
  <1>10. CanAnswer(moved.cache) = CanAnswer(c)
    BY <1>6 DEF CanAnswer, Continues
  <1>11. Bodies = 1 .. Len(scene.routes)
    BY RoutesAreLegal
  <1>12. Tried(init) \in BOOLEAN
    BY <1>4, <1>9 DEF Tried
  <1> DEFINE out == Ended(init, moved, valid)
  <1>13. /\ out.spawned = init.spawned /\ out.waiting = init.waiting
         /\ out.at = moved.at /\ out.accepted = (Tried(init) /\ valid.found)
         /\ out.cache = IF Tried(init) THEN valid.cache ELSE moved.cache
    BY DEF Ended
  <1> HIDE DEF out
  <1>14. Continues(c, out.cache)
    BY <1>6, <1>8, <1>13
  <1>15. ASSUME out.accepted
         PROVE  /\ owner.ready /\ KnownToPlayer.ready
                /\ \A b \in Bodies : \A i \in DOMAIN Support(out.at, b) :
                     CanAnswer(c) /\ Support(out.at, b)[i] \in Keys(out.cache)
    <2>1. Tried(init) /\ valid.found
      BY <1>13, <1>15
    <2>2. owner.ready /\ KnownToPlayer.ready
      BY <2>1 DEF Tried
    <2>3. StandUpTo(moved.cache, valid, moved.at, Len(scene.routes))
      BY <1>7, <2>1
    <2> QED BY <1>10, <1>11, <1>13, <2>1, <2>2, <2>3 DEF StandUpTo
  <1> QED BY <1>3, <1>4, <1>6, <1>8, <1>12, <1>13, <1>14, <1>15 DEF c, out

\* A tick that counts has every body on ground of this world.
LEMMA GroundInvStands == GroundInv => TrafficStandsOnThisWorld
PROOF
  <1> SUFFICES ASSUME GroundInv, Outcome.accepted, NEW b \in Bodies,
                      NEW i \in DOMAIN Support(Outcome.at, b)
               PROVE  StandsOnThisWorld(Outcome.cache, Support(Outcome.at, b)[i])
    BY DEF TrafficStandsOnThisWorld
  <1> DEFINE c == Outcome.cache
             key == Support(Outcome.at, b)[i]
             tile == TileAt(c, key)
  <1>1. TilesTypeOK /\ Acquaintance /\ TilesOfKnown(cache) /\ Freshness
    BY DEF GroundInv
  <1>2. /\ Continues(TilesAtTick, c) /\ CanAnswer(TilesAtTick)
        /\ owner.ready /\ KnownToPlayer.ready /\ key \in Keys(c)
    BY <1>1, OutcomeIs
  <1>3. /\ c.known = cache.known /\ cache.lease > 0 /\ TilesOfKnown(c)
    BY <1>1, <1>2, TilesAtTickAre DEF Continues, CanAnswer
  <1>4. player.ready /\ player.context = owner.session
    BY <1>2 DEF KnownToPlayer, NoWorld
  <1>5. cache.known.context = owner.session
    BY <1>1, <1>4 DEF Acquaintance
  <1>6. LeftWithin(world, cache.known.revision, TileLifetime + scene.delay - cache.lease)
    BY <1>1, <1>3, <1>5 DEF Freshness
  <1> HIDE DEF c, key
  <1>7. /\ tile.key = key /\ tile.by = c.known.context
        /\ tile.place = tile.key /\ tile.revision = c.known.revision
    <2>1. \E k \in DOMAIN c.tiles : c.tiles[k].key = key
      BY <1>2 DEF Keys
    <2>2. /\ IndexOf(c.tiles, key) \in DOMAIN c.tiles
          /\ c.tiles[IndexOf(c.tiles, key)].key = key
      BY <2>1, IndexOfKey
    <2> QED BY <1>3, <2>2 DEF TilesOfKnown, TileAt
  <1> HIDE DEF tile
  <1>8. cache.lease \in Nat /\ scene.delay \in Nat /\ TileLifetime \in Nat
    BY <1>1, TileAssumption DEF TilesTypeOK, Caches, Scene
  <1>9. \/ tile.revision = world.revision
        \/ /\ tile.revision \in DOMAIN world.left
           /\ world.left[tile.revision] < TileLifetime + scene.delay
    <2>1. \A r \in DOMAIN world.left : world.left[r] \in Nat
      BY <1>1 DEF TilesTypeOK
    <2> QED BY <1>3, <1>6, <1>7, <1>8, <2>1 DEF LeftWithin
  <1> QED BY <1>2, <1>3, <1>5, <1>7, <1>9 DEF StandsOnThisWorld, tile, c, key

-----------------------------------------------------------------------------
(* Asking for a tile.                                                      *)

\* There are more numbers than are in use.
LEMMA NewRequestIs ==
    ASSUME TilesTypeOK
    PROVE  /\ NewRequestId \in Nat \ {0}
           /\ NewRequestId # asked.id /\ NewRequestId # cache.pending.id
           /\ \A i \in DOMAIN mail : mail[i].id # NewRequestId
PROOF
  <1> DEFINE n == Len(mail)
             IsNew(id) == /\ id \notin {asked.id, cache.pending.id}
                          /\ \A i \in DOMAIN mail : mail[i].id # id
             code == [k \in 1 .. n + 2 |->
                        IF k \in 1 .. n THEN mail[k].id
                        ELSE IF k = n + 1 THEN asked.id ELSE cache.pending.id]
  <1>1. n \in Nat /\ DOMAIN mail = 1 .. n
    BY LenProperties DEF TilesTypeOK
  <1> HIDE DEF n
  <1>2. \E id \in 1 .. n + 3 : IsNew(id)
    <2> SUFFICES ASSUME \A id \in 1 .. n + 3 : ~IsNew(id)
                 PROVE  FALSE
      OBVIOUS
    <2>1. \A id \in 1 .. n + 3 : \E k \in 1 .. n + 2 : code[k] = id
      <3> SUFFICES ASSUME NEW id \in 1 .. n + 3
                   PROVE  \E k \in 1 .. n + 2 : code[k] = id
        OBVIOUS
      <3>1. n + 1 \in 1 .. n + 2 /\ n + 2 \in 1 .. n + 2
        BY <1>1
      <3>2. code[n + 1] = asked.id /\ code[n + 2] = cache.pending.id
        BY <1>1
      <3>3. \A k \in 1 .. n : k \in 1 .. n + 2 /\ code[k] = mail[k].id
        BY <1>1
      <3>4. id = asked.id \/ id = cache.pending.id
              \/ \E k \in 1 .. n : mail[k].id = id
        BY <1>1
      <3> HIDE DEF code
      <3> QED BY <3>1, <3>2, <3>3, <3>4
    <2> DEFINE f == [id \in 1 .. n + 3 |-> CHOOSE k \in 1 .. n + 2 : code[k] = id]
    <2> HIDE DEF code
    <2>2. f \in [1 .. n + 3 -> 1 .. n + 2]
      BY <2>1
    <2>3. \A id \in 1 .. n + 3 : code[f[id]] = id
      BY <2>1
    <2>4. /\ IsFiniteSet(1 .. n + 3) /\ Cardinality(1 .. n + 3) = n + 3
          /\ IsFiniteSet(1 .. n + 2) /\ Cardinality(1 .. n + 2) = n + 2
      BY <1>1, FS_Interval
    <2> HIDE DEF f
    <2>5. \E x, y \in 1 .. n + 3 : x # y /\ f[x] = f[y]
      <3> DEFINE S == 1 .. n + 3
                 T == 1 .. n + 2
      <3>1. /\ IsFiniteSet(S) /\ IsFiniteSet(T) /\ f \in [S -> T]
            /\ Cardinality(T) < Cardinality(S)
        BY <1>1, <2>2, <2>4
      <3> HIDE DEF S, T
      <3>2. \E x, y \in S : x # y /\ f[x] = f[y]
        BY <3>1, FS_PigeonHole
      <3> QED BY <3>2 DEF S
    <2> QED BY <2>3, <2>5
  <1>3. NewRequestId \in 1 .. n + 3 /\ IsNew(NewRequestId)
    BY <1>2 DEF NewRequestId, n
  <1> QED BY <1>1, <1>3

LEMMA WithPending ==
    ASSUME NEW c \in Caches, NEW pending \in Requests
    PROVE  LET d == [c EXCEPT !.pending = pending]
           IN  /\ d \in Caches /\ d.known = c.known /\ d.lease = c.lease
               /\ d.tiles = c.tiles /\ d.pending = pending
  BY DEF Caches

\* A request that is overdue, and the one that is made now.
Asks(pending, cached) ==
    \/ pending \in {cached, NoDemand}
    \/ /\ pending.id = NewRequestId /\ pending.key \in Places
       /\ pending.left = TileLifetime

LEMMA ReaskedCache ==
    ASSUME NEW c \in Caches, c.pending # NoDemand => c.pending.key \in Places
    PROVE  LET d == Reasked(c)
           IN  /\ d \in Caches /\ d.known = c.known /\ d.lease = c.lease
               /\ d.tiles = c.tiles /\ d.pending \in {c.pending, NoDemand}
PROOF
  <1>1. CASE c.pending # NoDemand /\ c.pending.left = 0
    <2> DEFINE e == [c EXCEPT !.pending = NoDemand]
    <2>1. NoDemand \in Requests
      BY TileAssumption DEF NoDemand, Requests
    <2>2. /\ e \in Caches /\ e.known = c.known /\ e.lease = c.lease
          /\ e.tiles = c.tiles /\ e.pending = NoDemand
      BY <2>1, WithPending
    <2>3. Reasked(c) = Enqueued(e, c.pending.key, c.pending.support)
      BY <1>1 DEF Reasked
    <2>4. c.pending.key \in Places /\ c.pending.support \in BOOLEAN
      BY <1>1 DEF Caches, Requests
    <2> HIDE DEF e
    <2> DEFINE d == Enqueued(e, c.pending.key, c.pending.support)
    <2>5. /\ d \in Caches /\ d.known = e.known /\ d.lease = e.lease
          /\ d.tiles = e.tiles /\ d.pending = e.pending
      BY <2>2, <2>4, EnqueuedDemand
    <2> HIDE DEF d
    <2> QED BY <2>2, <2>3, <2>5 DEF d
  <1>2. CASE ~(c.pending # NoDemand /\ c.pending.left = 0)
    BY <1>2 DEF Reasked
  <1> QED BY <1>1, <1>2

LEMMA LeastDemand ==
    ASSUME NEW c \in Caches, c.demands # <<>>
    PROVE  LET next == IF ForSupport(c) # {} THEN Min(ForSupport(c)) ELSE 1
           IN  next \in DOMAIN c.demands
PROOF
  <1>1. c.demands \in Seq(Demands)
    BY DEF Caches
  <1>2. Len(c.demands) \in Nat \ {0} /\ DOMAIN c.demands = 1 .. Len(c.demands)
    BY <1>1, EmptySeq, LenProperties
  <1>3. CASE ForSupport(c) # {}
    <2>1. ForSupport(c) \in SUBSET Nat /\ ForSupport(c) \subseteq DOMAIN c.demands
      BY <1>2 DEF ForSupport
    <2>2. \E m \in ForSupport(c) : \A n \in ForSupport(c) : m <= n
      BY <1>3, <2>1, LeastOfNaturals
    <2>3. Min(ForSupport(c)) \in ForSupport(c)
      BY <2>2 DEF Min
    <2> QED BY <1>3, <2>1, <2>3
  <1>4. CASE ForSupport(c) = {}
    BY <1>2, <1>4
  <1> QED BY <1>3, <1>4

LEMMA WithRoomTiles ==
    ASSUME NEW c \in Caches, NEW key
    PROVE  /\ WithRoom(c, key) \in Seq(Tiles)
           /\ \A k \in DOMAIN WithRoom(c, key) :
                \E j \in DOMAIN c.tiles : WithRoom(c, key)[k] = c.tiles[j]
PROOF
  <1>1. c.tiles \in Seq(Tiles)
    BY DEF Caches
  <1> DEFINE r == Removed(c.tiles, Min(Evictable(c)))
  <1>2. /\ r \in Seq(Tiles)
        /\ \A k \in DOMAIN r : \E j \in DOMAIN c.tiles : r[k] = c.tiles[j]
    BY <1>1, RemovedRest
  <1> HIDE DEF r
  <1>3. WithRoom(c, key) = c.tiles \/ WithRoom(c, key) = r
    BY DEF WithRoom, r
  <1> QED BY <1>1, <1>2, <1>3

LEMMA AskingCache ==
    ASSUME TilesTypeOK, NEW c \in Caches, TilesOfKnown(c),
           c.pending # NoDemand => c.pending.key \in Places
    PROVE  LET d == Asking(c)
           IN  /\ d \in Caches /\ TilesOfKnown(d)
               /\ d.known = c.known /\ d.lease = c.lease
               /\ Asks(d.pending, c.pending)
PROOF
  <1> DEFINE w == Reasked(c)
             next == IF ForSupport(w) # {} THEN Min(ForSupport(w)) ELSE 1
             demand == w.demands[next]
             request == [ key |-> demand.key, support |-> demand.support,
                          id |-> NewRequestId, left |-> TileLifetime ]
             asking == [ w EXCEPT !.tiles = WithRoom(w, demand.key),
                                  !.demands = Removed(w.demands, next),
                                  !.pending = request ]
  <1>1. /\ w \in Caches /\ w.known = c.known /\ w.lease = c.lease
        /\ w.tiles = c.tiles /\ w.pending \in {c.pending, NoDemand}
    BY ReaskedCache
  <1>2. Asking(c) = w
          \/ (w.demands # <<>> /\ Asking(c) = asking)
    BY DEF Asking
  <1> HIDE DEF w
  <1>3. TilesOfKnown(w)
    BY <1>1 DEF TilesOfKnown
  <1>4. CASE Asking(c) = w
    BY <1>1, <1>3, <1>4 DEF Asks
  <1>5. CASE w.demands # <<>> /\ Asking(c) = asking
    <2>1. next \in DOMAIN w.demands
      BY <1>1, <1>5, LeastDemand
    <2> HIDE DEF next
    <2>2. demand \in Demands /\ Removed(w.demands, next) \in Seq(Demands)
      <3>1. w.demands \in Seq(Demands)
        BY <1>1 DEF Caches
      <3> QED BY <2>1, <3>1, LenProperties, RemovedRest
    <2> HIDE DEF demand
    <2>3. /\ request \in Requests /\ request.id = NewRequestId
          /\ request.key \in Places /\ request.left = TileLifetime
      <3>1. demand.key \in Places /\ demand.key \in Nat /\ demand.support \in BOOLEAN
        BY <2>2 DEF Demands, Places
      <3>2. NewRequestId \in Nat /\ TileLifetime \in 0 .. TileLifetime
        BY NewRequestIs, TileAssumption
      <3> QED BY <3>1, <3>2 DEF Requests
    <2> HIDE DEF request
    <2> DEFINE r == WithRoom(w, demand.key)
    <2>4. /\ r \in Seq(Tiles)
          /\ \A k \in DOMAIN r : \E j \in DOMAIN w.tiles : r[k] = w.tiles[j]
      BY <1>1, WithRoomTiles
    <2> HIDE DEF r
    <2>5. /\ asking \in Caches /\ asking.known = w.known /\ asking.lease = w.lease
          /\ asking.tiles = r /\ asking.pending = request
      BY <1>1, <2>2, <2>3, <2>4 DEF Caches, r
    <2> HIDE DEF asking
    <2>6. TilesOfKnown(asking)
      BY <1>3, <2>4, <2>5 DEF TilesOfKnown
    <2> QED BY <1>1, <1>5, <2>3, <2>5, <2>6 DEF Asks
  <1> QED BY <1>2, <1>4, <1>5

-----------------------------------------------------------------------------
(* The invariant, action by action.                                        *)

LEMMA NoTrafficIs ==
    ASSUME scene \in Scenes
    PROVE  NoTraffic \in [ at : Positions, spawned : SUBSET Bodies,
                           waiting : BOOLEAN, held : BOOLEAN ]
PROOF
  <1>1. scene \in Scene
    BY TileAssumption
  <1> DEFINE Poses == [stand : Seq(Places), plan : Seq(Places)]
             at == [b \in Bodies |-> 1]
  <1>2. scene.routes \in Seq(Seq(Poses) \ {<<>>})
    BY <1>1 DEF Scene
  <1> HIDE DEF Poses
  <1>3. ASSUME NEW b \in Bodies PROVE 1 \in DOMAIN scene.routes[b]
    <2>1. scene.routes[b] \in Seq(Poses) /\ scene.routes[b] # <<>>
      BY <1>2, LenProperties DEF Bodies
    <2> DEFINE r == scene.routes[b]
    <2> HIDE DEF r
    <2>2. r \in Seq(Poses) /\ r # <<>> => 1 \in DOMAIN r
      BY LenProperties, EmptySeq
    <2> QED BY <2>1, <2>2 DEF r
  <1>4. at \in Positions
    BY <1>3 DEF Positions
  <1> HIDE DEF at
  <1>5. NoTraffic = [at |-> at, spawned |-> {}, waiting |-> TRUE, held |-> TRUE]
    BY DEF NoTraffic, at
  <1> QED BY <1>4, <1>5

LEMMA GroundInvInit == TilesInit => GroundInv
PROOF
  <1> SUFFICES ASSUME TilesInit PROVE GroundInv
    OBVIOUS
  <1>1. scene \in Scene
    BY TileAssumption DEF TilesInit
  <1>2. /\ <<>> \in Seq(Tiles) /\ <<>> \in Seq(Demands) /\ <<>> \in Seq(Frames)
        /\ DOMAIN <<>> = {} /\ Len(<<>>) = 0
    BY EmptySeq
  <1>3. NoDemand \in Requests /\ NoWorld \in Worlds
    BY TileAssumption DEF NoDemand, Requests, NoWorld, Worlds
  <1>4. NoCache \in Caches /\ NoCache.known = NoWorld /\ NoCache.lease = 0
        /\ NoCache.tiles = <<>> /\ NoCache.pending = NoDemand
    BY <1>2, <1>3, TileAssumption DEF NoCache, Caches
  <1>5. NoTraffic \in [ at : Positions, spawned : SUBSET Bodies,
                        waiting : BOOLEAN, held : BOOLEAN ]
    BY NoTrafficIs DEF TilesInit
  <1>6. TilesTypeOK
    <2>1. owner \in [session : 0 .. scene.owners, ready : BOOLEAN]
      BY <1>1 DEF TilesInit, Scene
    <2>2. asked \in [id : Nat, key : Nat, revision : Nat]
      BY DEF TilesInit, NoRequestYet
    <2> QED BY <1>2, <1>3, <1>4, <1>5, <2>1, <2>2 DEF TilesTypeOK, TilesInit
  <1>7. Acquaintance
    BY <1>4 DEF Acquaintance, TilesInit, NoWorld
  <1>8. TilesOfKnown(cache)
    BY <1>4, NoTilesOfKnown DEF TilesInit
  <1>9. Freshness
    BY <1>2, <1>4 DEF Freshness, TilesInit
  <1>10. Numbering
    BY <1>4 DEF Numbering, TilesInit
  <1> QED BY <1>6, <1>7, <1>8, <1>9, <1>10 DEF GroundInv

LEMMA GroundInvTick == GroundInv /\ TickOnTiles => GroundInv'
PROOF
  <1> SUFFICES ASSUME GroundInv, TickOnTiles PROVE GroundInv'
    OBVIOUS
  <1>1. /\ TilesTypeOK /\ Acquaintance /\ TilesOfKnown(cache)
        /\ Freshness /\ Numbering
    BY DEF GroundInv
  <1> DEFINE out == Outcome
             c == IF owner.ready /\ CanAnswer(out.cache)
                    THEN Asking(out.cache) ELSE out.cache
             T == TilesAtTick
  <1>2. /\ cache' = c
        /\ asked' = IF owner.ready /\ c.pending # NoDemand
                      THEN [ id |-> c.pending.id, key |-> c.pending.key,
                             revision |-> c.known.revision ]
                      ELSE NoRequestYet
        /\ traffic' = [ at |-> IF out.accepted THEN out.at ELSE traffic.at,
                        spawned |-> out.spawned, waiting |-> out.waiting,
                        held |-> ~out.accepted ]
        /\ player' = KnownToPlayer
        /\ UNCHANGED <<scene, owner, mail, world>>
    BY DEF TickOnTiles
  <1>3. /\ Continues(T, out.cache)
        /\ out.at \in Positions /\ out.spawned \in SUBSET Bodies
        /\ out.waiting \in BOOLEAN /\ out.accepted \in BOOLEAN
    BY <1>1, OutcomeIs
  <1>4. /\ T.pending \in {cache.pending, NoDemand}
        /\ owner.ready => T.known = cache.known /\ T.lease = cache.lease
        /\ ~owner.ready => T.known.context = 0
        /\ T.lease > 0 => T.known = cache.known /\ T.lease = cache.lease
    BY <1>1, TilesAtTickAre
  <1> HIDE DEF out, T
  <1>5. /\ out.cache \in Caches /\ TilesOfKnown(out.cache)
        /\ out.cache.known = T.known /\ out.cache.lease = T.lease
        /\ out.cache.pending = T.pending
    BY <1>3 DEF Continues
  <1>6. out.cache.pending # NoDemand => out.cache.pending.key \in Places
    BY <1>1, <1>4, <1>5 DEF Numbering
  <1>7. /\ c \in Caches /\ TilesOfKnown(c)
        /\ c.known = T.known /\ c.lease = T.lease
        /\ Asks(c.pending, T.pending)
    <2>1. CASE owner.ready /\ CanAnswer(out.cache)
      <3> DEFINE d == Asking(out.cache)
      <3>1. /\ d \in Caches /\ TilesOfKnown(d)
            /\ d.known = out.cache.known /\ d.lease = out.cache.lease
            /\ Asks(d.pending, out.cache.pending)
        BY <1>1, <1>5, <1>6, AskingCache
      <3> HIDE DEF d
      <3>2. c = d
        BY <2>1 DEF d
      <3> QED BY <1>5, <3>1, <3>2
    <2>2. CASE ~(owner.ready /\ CanAnswer(out.cache))
      BY <1>5, <2>2 DEF Asks
    <2> QED BY <2>1, <2>2
  <1> HIDE DEF c
  <1>8. /\ c.pending \in Requests /\ c.known \in Worlds
        /\ c.known.revision \in Nat /\ c.known.context \in Nat
        /\ c.pending.id \in Nat /\ c.pending.key \in Nat
    BY <1>7 DEF Caches, Worlds, Requests
  <1>9. player' \in Worlds
    <2> DEFINE own == IF owner.ready THEN owner.session ELSE 0
               w == [NoWorld EXCEPT !.context = own]
    <2>1. own \in Nat /\ player \in Worlds
      BY <1>1 DEF TilesTypeOK
    <2> HIDE DEF own
    <2>2. w \in Worlds
      BY <2>1, NoWorldOf
    <2> HIDE DEF w
    <2>3. player' = player \/ player' = w
      BY <1>2 DEF KnownToPlayer, w, own
    <2> QED BY <2>1, <2>2, <2>3
  <1>10. TilesTypeOK'
    <2>1. asked' \in [id : Nat, key : Nat, revision : Nat]
      BY <1>2, <1>8 DEF NoRequestYet
    <2>2. traffic.at \in Positions
      BY <1>1 DEF TilesTypeOK
    <2>3. traffic' \in [ at : Positions, spawned : SUBSET Bodies,
                         waiting : BOOLEAN, held : BOOLEAN ]
      BY <1>2, <1>3, <2>2
    <2>4. Positions' = Positions /\ Bodies' = Bodies
      BY <1>2 DEF Positions, Bodies
    <2> QED BY <1>1, <1>2, <1>7, <1>9, <2>1, <2>3, <2>4 DEF TilesTypeOK
  <1>11. Acquaintance'
    <2>1. /\ owner.session \in Nat /\ player \in Worlds /\ owner.ready \in BOOLEAN
      BY <1>1 DEF TilesTypeOK
    <2>2. CASE owner.ready
      <3>1. c.known = cache.known
        BY <1>4, <1>7, <2>2
      <3>2. player' = player \/ player' = [NoWorld EXCEPT !.context = owner.session]
        BY <1>2, <2>2 DEF KnownToPlayer
      <3>3. CASE player' = player
        BY <1>1, <1>2, <3>1, <3>3 DEF Acquaintance
      <3>4. CASE player' = [NoWorld EXCEPT !.context = owner.session]
        <4>1. player'.context = owner.session /\ player'.ready = FALSE
          BY <3>4 DEF NoWorld
        <4> QED BY <1>1, <1>2, <2>1, <3>1, <4>1 DEF Acquaintance
      <3> QED BY <3>2, <3>3, <3>4
    <2>3. CASE ~owner.ready
      <3>1. player'.context = 0 /\ ~player'.ready
        <4>1. player.context = 0 \/ player' = [NoWorld EXCEPT !.context = 0]
          BY <1>2, <2>3 DEF KnownToPlayer
        <4>2. player.context = 0 => player' = player
          BY <1>2, <2>3 DEF KnownToPlayer
        <4> QED BY <1>1, <4>1, <4>2 DEF Acquaintance, NoWorld
      <3>2. c.known.context = 0
        BY <1>4, <1>7, <2>3
      <3> QED BY <1>1, <1>2, <2>1, <3>1, <3>2 DEF Acquaintance
    <2> QED BY <2>1, <2>2, <2>3
  <1>12. TilesOfKnown(cache)'
    BY <1>2, <1>7 DEF TilesOfKnown
  <1>13. Freshness'
    BY <1>1, <1>2, <1>4, <1>7 DEF Freshness, LeftWithin
  <1>14. Numbering'
    <2>1. CASE c.pending = NoDemand
      BY <1>2, <2>1 DEF Numbering
    <2>2. CASE c.pending # NoDemand
      <3>1. c.pending.id > 0 /\ c.pending.key \in Places
        BY <1>1, <1>4, <1>7, <2>2, NewRequestIs DEF Asks, Numbering
      <3>2. asked'.id = c.pending.id => asked'.key = c.pending.key
        BY <1>2, <3>1 DEF NoRequestYet
      <3>3. ASSUME NEW i \in DOMAIN mail,
                   mail[i].kind = "tile" /\ mail[i].id = c.pending.id
            PROVE  mail[i].key = c.pending.key
        BY <1>1, <1>4, <1>7, <2>2, <3>3, NewRequestIs DEF Asks, Numbering
      <3> QED BY <1>2, <3>1, <3>2, <3>3 DEF Numbering
    <2> QED BY <2>1, <2>2
  <1> QED BY <1>10, <1>11, <1>12, <1>13, <1>14 DEF GroundInv

LEMMA LessIs ==
    ASSUME NEW bound \in Nat, NEW time \in 0 .. bound
    PROVE  /\ Less(time) \in 0 .. bound /\ Less(time) <= time
           /\ Less(time) > 0 => time > 0 /\ Less(time) = time - 1
  BY DEF Less

\* Time takes from the lease what it adds to the age of a revision.
LEMMA GroundInvTime == GroundInv /\ TimePasses => GroundInv'
PROOF
  <1> SUFFICES ASSUME GroundInv, TimePasses PROVE GroundInv'
    OBVIOUS
  <1>1. /\ TilesTypeOK /\ Acquaintance /\ TilesOfKnown(cache)
        /\ Freshness /\ Numbering
    BY DEF GroundInv
  <1>2. /\ \A i \in DOMAIN mail : mail[i].age < scene.delay
        /\ mail' = [i \in DOMAIN mail |-> [mail[i] EXCEPT !.age = @ + 1]]
        /\ UNCHANGED <<scene, traffic, owner, player, asked>>
    BY DEF TimePasses
  <1>3. scene.delay \in Nat /\ TileLifetime \in Nat
    BY <1>1, TileAssumption DEF TilesTypeOK, Scene
  <1> DEFINE tiles == [ i \in DOMAIN cache.tiles |->
                          [ cache.tiles[i] EXCEPT !.pin = Less(@),
                                                  !.retry = Less(@) ] ]
             pending == [cache.pending EXCEPT !.left = Less(@)]
  <1>4. cache' = [ cache EXCEPT !.lease = Less(cache.lease),
                                !.pending = pending, !.tiles = tiles ]
    BY DEF TimePasses, Aged
  <1>5. /\ cache \in Caches /\ cache.tiles \in Seq(Tiles)
        /\ cache.pending \in Requests /\ cache.lease \in 0 .. TileLifetime
        /\ cache.known \in Worlds
    BY <1>1 DEF TilesTypeOK, Caches
  <1>6. /\ tiles \in Seq(Tiles) /\ DOMAIN tiles = DOMAIN cache.tiles
        /\ \A i \in DOMAIN tiles : /\ tiles[i].by = cache.tiles[i].by
                                   /\ tiles[i].place = cache.tiles[i].place
                                   /\ tiles[i].key = cache.tiles[i].key
                                   /\ tiles[i].revision = cache.tiles[i].revision
    <2>1. /\ Len(cache.tiles) \in Nat
          /\ DOMAIN cache.tiles = 1 .. Len(cache.tiles)
          /\ \A i \in DOMAIN cache.tiles : cache.tiles[i] \in Tiles
      BY <1>5, LenProperties
    <2>2. ASSUME NEW t \in Tiles
          PROVE  LET u == [t EXCEPT !.pin = Less(@), !.retry = Less(@)]
                 IN  /\ u \in Tiles /\ u.by = t.by /\ u.place = t.place
                     /\ u.key = t.key /\ u.revision = t.revision
      <3>1. Less(t.pin) \in 0 .. Pin /\ Less(t.retry) \in 0 .. Retry
        BY LessIs, TileAssumption DEF Tiles
      <3> QED BY <3>1 DEF Tiles
    <2>3. tiles \in [1 .. Len(cache.tiles) -> Tiles]
      BY <2>1, <2>2
    <2>4. tiles \in Seq(Tiles)
      <3> HIDE DEF tiles
      <3> QED BY <2>1, <2>3, SeqDef
    <2> QED BY <2>1, <2>2, <2>4
  <1>7. /\ pending \in Requests /\ pending.id = cache.pending.id
        /\ pending.key = cache.pending.key
        /\ cache.pending = NoDemand => pending = NoDemand
    <2>1. Less(cache.pending.left) \in 0 .. TileLifetime
      BY <1>3, <1>5, LessIs DEF Requests
    <2>2. [NoDemand EXCEPT !.left = Less(@)] = NoDemand
      BY DEF NoDemand, Less
    <2> QED BY <1>5, <2>1, <2>2 DEF Requests
  <1> HIDE DEF tiles, pending
  <1>8. /\ cache' \in Caches /\ cache'.known = cache.known
        /\ cache'.lease = Less(cache.lease) /\ cache'.tiles = tiles
        /\ cache'.pending = pending
    BY <1>3, <1>4, <1>5, <1>6, <1>7, LessIs DEF Caches
  <1>9. /\ mail' \in Seq(Frames) /\ DOMAIN mail' = DOMAIN mail
        /\ \A i \in DOMAIN mail : /\ mail'[i].age = mail[i].age + 1
                                  /\ mail'[i].kind = mail[i].kind
                                  /\ mail'[i].id = mail[i].id
                                  /\ mail'[i].key = mail[i].key
                                  /\ mail'[i].revision = mail[i].revision
                                  /\ mail[i].age \in Nat
    <2>1. /\ Len(mail) \in Nat /\ DOMAIN mail = 1 .. Len(mail)
          /\ \A i \in DOMAIN mail : mail[i] \in Frames
      BY <1>1, LenProperties DEF TilesTypeOK
    <2>2. ASSUME NEW f \in Frames
          PROVE  LET g == [f EXCEPT !.age = @ + 1]
                 IN  /\ g \in Frames /\ g.age = f.age + 1 /\ g.kind = f.kind
                     /\ g.id = f.id /\ g.key = f.key /\ g.revision = f.revision
                     /\ f.age \in Nat
      BY DEF Frames
    <2>3. mail' \in [1 .. Len(mail) -> Frames]
      BY <1>2, <2>1, <2>2
    <2>4. mail' \in Seq(Frames)
      BY <2>1, <2>3, SeqDef
    <2> QED BY <1>2, <2>1, <2>2, <2>4
  <1>10. /\ world'.revision = world.revision /\ world'.ready = world.ready
         /\ DOMAIN world'.left = DOMAIN world.left
         /\ \A r \in DOMAIN world.left :
              /\ world.left[r] \in Nat /\ world'.left[r] \in Nat
              /\ world'.left[r] <= world.left[r] + 1
    <2> DEFINE left == [r \in DOMAIN world.left |->
                   IF world.left[r] < TileLifetime + scene.delay
                     THEN world.left[r] + 1 ELSE world.left[r]]
    <2>1. world' = [world EXCEPT !.left = left]
      BY DEF TimePasses
    <2>2. /\ world.revision \in Nat /\ world.ready \in BOOLEAN
          /\ world \in [revision : Nat, ready : BOOLEAN, left : {world.left}]
      BY <1>1 DEF TilesTypeOK
    <2>3. \A r \in DOMAIN world.left : world.left[r] \in Nat
      BY <1>1 DEF TilesTypeOK
    <2>4. /\ DOMAIN left = DOMAIN world.left
          /\ \A r \in DOMAIN world.left :
               left[r] \in Nat /\ left[r] <= world.left[r] + 1
      BY <1>3, <2>3
    <2> HIDE DEF left
    <2>5. /\ world'.revision = world.revision /\ world'.ready = world.ready
          /\ world'.left = left
      BY <2>1, <2>2
    <2> QED BY <2>3, <2>4, <2>5
  <1>11. TilesTypeOK'
    <2>1. Positions' = Positions /\ Bodies' = Bodies
      BY <1>2 DEF Positions, Bodies
    <2>2. world' \in [revision : Nat, ready : BOOLEAN, left : {world'.left}]
      BY <1>1 DEF TilesTypeOK, TimePasses
    <2> QED BY <1>1, <1>2, <1>8, <1>9, <1>10, <2>1, <2>2 DEF TilesTypeOK
  <1>12. Acquaintance'
    BY <1>1, <1>2, <1>8 DEF Acquaintance
  <1>13. TilesOfKnown(cache)'
    BY <1>1, <1>6, <1>8 DEF TilesOfKnown
  <1>14. Freshness'
    <2>0. ASSUME NEW r, NEW t \in Int, LeftWithin(world, r, t)
          PROVE  LeftWithin(world', r, t + 1)
      BY <1>10, <2>0 DEF LeftWithin
    <2>1. ASSUME NEW i \in DOMAIN mail, mail[i].kind = "notice"
          PROVE  LeftWithin(world', mail'[i].revision, mail'[i].age)
      <3>1. LeftWithin(world, mail[i].revision, mail[i].age)
        BY <1>1, <2>1 DEF Freshness
      <3>2. mail[i].age \in Int
        BY <1>9
      <3> QED BY <1>9, <2>0, <3>1, <3>2
    <2>2. \A i \in DOMAIN mail : mail'[i].age <= scene.delay
      BY <1>2, <1>3, <1>9
    <2>3. ASSUME cache'.known.context = owner.session, cache'.lease > 0
          PROVE  LeftWithin(world', cache'.known.revision,
                            TileLifetime + scene.delay - cache'.lease)
      <3>1. cache.lease > 0 /\ cache'.lease = cache.lease - 1
        BY <1>3, <1>5, <1>8, <2>3, LessIs
      <3>2. LeftWithin(world, cache.known.revision,
                       TileLifetime + scene.delay - cache.lease)
        BY <1>1, <1>8, <2>3, <3>1 DEF Freshness
      <3>3. /\ TileLifetime + scene.delay - cache.lease \in Int
            /\ (TileLifetime + scene.delay - cache.lease) + 1
                 = TileLifetime + scene.delay - cache'.lease
        BY <1>3, <1>5, <3>1
      <3> QED BY <1>8, <2>0, <3>2, <3>3
    <2> QED BY <1>2, <1>9, <2>1, <2>2, <2>3 DEF Freshness
  <1>15. Numbering'
    <2>1. CASE pending = NoDemand
      BY <1>8, <2>1 DEF Numbering
    <2>2. CASE pending # NoDemand
      <3>1. cache.pending # NoDemand
        BY <1>7, <2>2
      <3>2. /\ pending.id > 0 /\ pending.key \in Places
            /\ asked.id = pending.id => asked.key = pending.key
            /\ \A i \in DOMAIN mail :
                 mail[i].kind = "tile" /\ mail[i].id = pending.id
                   => mail[i].key = pending.key
        BY <1>1, <1>7, <3>1 DEF Numbering
      <3>3. \A i \in DOMAIN mail' :
              mail'[i].kind = "tile" /\ mail'[i].id = pending.id
                => mail'[i].key = pending.key
        BY <1>9, <3>2
      <3> QED BY <1>2, <1>8, <3>2, <3>3 DEF Numbering
    <2> QED BY <2>1, <2>2
  <1> QED BY <1>11, <1>12, <1>13, <1>14, <1>15 DEF GroundInv

\* What nobody but the session and the client touches.
LEMMA GroundInvLeft ==
    ASSUME GroundInv, UNCHANGED <<scene, traffic, player, cache, asked>>
    PROVE  TilesOfKnown(cache)' /\ Positions' = Positions /\ Bodies' = Bodies
  BY DEF GroundInv, TilesOfKnown, Positions, Bodies

LEMMA NewOwnerIs ==
    ASSUME TilesTypeOK, NewOwner
    PROVE  /\ scene' = scene /\ mail' = <<>>
           /\ mail' \in Seq(Frames) /\ DOMAIN mail' = {}
           /\ owner' \in [session : 0 .. scene.owners, ready : BOOLEAN]
           /\ owner'.session = owner.session + 1 /\ owner'.ready
           /\ owner.session \in Nat
           /\ world' \in [revision : Nat, ready : BOOLEAN, left : {world'.left}]
           /\ DOMAIN world'.left = {}
PROOF
  <1>1. scene \in Scene /\ owner.session \in 0 .. scene.owners
    BY TileAssumption DEF TilesTypeOK
  <1>2. scene.owners \in Nat /\ scene.revisions \in Nat
    BY <1>1 DEF Scene
  <1>3. /\ <<>> \in Seq(Frames) /\ DOMAIN <<>> = {}
    BY EmptySeq
  <1> QED BY <1>1, <1>2, <1>3 DEF NewOwner

LEMMA GroundInvTakeOver == GroundInv /\ TakeOver => GroundInv'
PROOF
  <1> SUFFICES ASSUME GroundInv, TakeOver PROVE GroundInv'
    OBVIOUS
  <1>1. /\ TilesTypeOK /\ Acquaintance /\ TilesOfKnown(cache)
        /\ Freshness /\ Numbering
    BY DEF GroundInv
  <1>2. /\ scene' = scene /\ mail' = <<>>
        /\ mail' \in Seq(Frames) /\ DOMAIN mail' = {}
        /\ owner' \in [session : 0 .. scene.owners, ready : BOOLEAN]
        /\ owner'.session = owner.session + 1 /\ owner'.ready
        /\ owner.session \in Nat
        /\ world' \in [revision : Nat, ready : BOOLEAN, left : {world'.left}]
        /\ DOMAIN world'.left = {}
    BY <1>1, NewOwnerIs DEF TakeOver
  <1>3. UNCHANGED <<traffic, player, cache, asked>>
    BY DEF TakeOver
  <1>4. Positions' = Positions /\ Bodies' = Bodies /\ TilesOfKnown(cache)'
    BY <1>2, <1>3, GroundInvLeft
  <1>5. TilesTypeOK'
    BY <1>1, <1>2, <1>3, <1>4 DEF TilesTypeOK
  <1>6. player.context \in Nat /\ cache.known.context \in Nat
    BY <1>1 DEF TilesTypeOK, Worlds, Caches
  <1>7. Acquaintance'
    BY <1>1, <1>2, <1>3, <1>6 DEF Acquaintance
  <1>8. Freshness'
    BY <1>1, <1>2, <1>3, <1>6 DEF Freshness, Acquaintance
  <1>9. Numbering'
    BY <1>1, <1>2, <1>3 DEF Numbering
  <1> QED BY <1>4, <1>5, <1>7, <1>8, <1>9 DEF GroundInv

LEMMA GroundInvBeginAnew == GroundInv /\ BeginAnew => GroundInv'
PROOF
  <1> SUFFICES ASSUME GroundInv, BeginAnew PROVE GroundInv'
    OBVIOUS
  <1>1. /\ TilesTypeOK /\ Acquaintance /\ TilesOfKnown(cache)
        /\ Freshness /\ Numbering
    BY DEF GroundInv
  <1>2. /\ scene' = scene /\ mail' = <<>>
        /\ mail' \in Seq(Frames) /\ DOMAIN mail' = {}
        /\ owner' \in [session : 0 .. scene.owners, ready : BOOLEAN]
        /\ owner'.session = owner.session + 1 /\ owner'.ready
        /\ owner.session \in Nat
        /\ world' \in [revision : Nat, ready : BOOLEAN, left : {world'.left}]
        /\ DOMAIN world'.left = {}
    BY <1>1, NewOwnerIs DEF BeginAnew
  <1>3. /\ traffic' = NoTraffic /\ player' = NoWorld
        /\ cache' = InContext(cache, 0) /\ asked' = NoRequestYet
    BY DEF BeginAnew
  <1>4. /\ cache' \in Caches /\ cache'.known.context = 0
        /\ \/ cache' = cache
           \/ cache'.lease = 0 /\ cache'.tiles = <<>> /\ cache'.pending = NoDemand
    BY <1>1, <1>3, ContextCache DEF TilesTypeOK
  <1>5. Positions' = Positions /\ Bodies' = Bodies
    BY <1>2 DEF Positions, Bodies
  <1>6. NoTraffic \in [ at : Positions, spawned : SUBSET Bodies,
                        waiting : BOOLEAN, held : BOOLEAN ]
    BY <1>1, NoTrafficIs DEF TilesTypeOK
  <1>7. TilesTypeOK'
    <2>1. NoWorld \in Worlds /\ NoRequestYet \in [id : Nat, key : Nat, revision : Nat]
      BY DEF NoWorld, Worlds, NoRequestYet
    <2> QED BY <1>1, <1>2, <1>3, <1>4, <1>5, <1>6, <2>1 DEF TilesTypeOK
  <1>8. Acquaintance'
    BY <1>2, <1>3, <1>4 DEF Acquaintance, NoWorld
  <1>9. TilesOfKnown(cache)'
    BY <1>1, <1>4 DEF TilesOfKnown
  <1>10. Freshness'
    BY <1>2, <1>4 DEF Freshness
  <1>11. Numbering'
    BY <1>1, <1>2, <1>3, <1>4 DEF Numbering, NoRequestYet
  <1> QED BY <1>7, <1>8, <1>9, <1>10, <1>11 DEF GroundInv

LEMMA GroundInvLoseOwner == GroundInv /\ LoseOwner => GroundInv'
PROOF
  <1> SUFFICES ASSUME GroundInv, LoseOwner PROVE GroundInv'
    OBVIOUS
  <1>1. /\ TilesTypeOK /\ Acquaintance /\ TilesOfKnown(cache)
        /\ Freshness /\ Numbering
    BY DEF GroundInv
  <1>2. /\ owner' = [owner EXCEPT !.ready = FALSE]
        /\ UNCHANGED <<scene, traffic, player, cache, asked, mail, world>>
    BY DEF LoseOwner
  <1>3. /\ owner' \in [session : 0 .. scene.owners, ready : BOOLEAN]
        /\ owner'.session = owner.session /\ ~owner'.ready
    BY <1>1, <1>2 DEF TilesTypeOK
  <1>4. Positions' = Positions /\ Bodies' = Bodies /\ TilesOfKnown(cache)'
    BY <1>2, GroundInvLeft
  <1>5. TilesTypeOK'
    BY <1>1, <1>2, <1>3, <1>4 DEF TilesTypeOK
  <1>6. Acquaintance' /\ Freshness'
    BY <1>1, <1>2, <1>3 DEF Acquaintance, Freshness
  <1>7. Numbering'
    BY <1>1, <1>2 DEF Numbering
  <1> QED BY <1>4, <1>5, <1>6, <1>7 DEF GroundInv

LEMMA MailedIs ==
    ASSUME TilesTypeOK, NEW f \in Frames, Mailed(f)
    PROVE  /\ mail' \in Seq(Frames)
           /\ \A i \in DOMAIN mail' :
                mail'[i] = f \/ \E j \in DOMAIN mail : mail'[i] = mail[j]
           /\ owner.ready
           /\ UNCHANGED <<scene, traffic, owner, player, cache, asked, world>>
           /\ Positions' = Positions /\ Bodies' = Bodies
PROOF
  <1>1. mail \in Seq(Frames) /\ mail' = Append(mail, f)
    BY DEF TilesTypeOK, Mailed
  <1>2. /\ Append(mail, f) \in Seq(Frames) /\ Len(mail) \in Nat
        /\ DOMAIN mail = 1 .. Len(mail)
        /\ Len(Append(mail, f)) = Len(mail) + 1
        /\ DOMAIN Append(mail, f) = 1 .. Len(mail) + 1
        /\ \A i \in 1 .. Len(mail) : Append(mail, f)[i] = mail[i]
        /\ Append(mail, f)[Len(mail) + 1] = f
    BY <1>1, AppendProperties, LenProperties
  <1>3. \A i \in DOMAIN Append(mail, f) :
          i = Len(mail) + 1 \/ i \in DOMAIN mail
    BY <1>2
  <1>4. \A i \in DOMAIN Append(mail, f) :
          \/ Append(mail, f)[i] = f
          \/ \E j \in DOMAIN mail : Append(mail, f)[i] = mail[j]
    BY <1>2, <1>3
  <1>5. UNCHANGED <<scene, traffic, owner, player, cache, asked, world>>
    BY DEF Mailed
  <1> QED BY <1>1, <1>2, <1>4, <1>5 DEF Mailed, Positions, Bodies

\* A frame of the client keeps the invariant if it says what is so.
LEMMA GroundInvMailed ==
    ASSUME GroundInv, NEW f \in Frames, Mailed(f), f.age = 0,
           f.kind = "notice" => f.revision = world.revision,
           f.kind = "tile" => f.id = asked.id /\ f.key = asked.key
    PROVE  GroundInv'
PROOF
  <1>1. /\ TilesTypeOK /\ Acquaintance /\ TilesOfKnown(cache)
        /\ Freshness /\ Numbering
    BY DEF GroundInv
  <1>2. /\ mail' \in Seq(Frames)
        /\ \A i \in DOMAIN mail' :
             mail'[i] = f \/ \E j \in DOMAIN mail : mail'[i] = mail[j]
        /\ UNCHANGED <<scene, traffic, owner, player, cache, asked, world>>
        /\ Positions' = Positions /\ Bodies' = Bodies
    BY <1>1, MailedIs
  <1>3. scene.delay \in Nat
    BY <1>1, TileAssumption DEF TilesTypeOK, Scene
  <1>4. TilesTypeOK'
    BY <1>1, <1>2 DEF TilesTypeOK
  <1>5. Acquaintance' /\ TilesOfKnown(cache)'
    BY <1>1, <1>2 DEF Acquaintance, TilesOfKnown
  <1>6. Freshness'
    <2>1. ASSUME NEW i \in DOMAIN mail'
          PROVE  /\ mail'[i].age <= scene.delay
                 /\ mail'[i].kind = "notice"
                      => LeftWithin(world, mail'[i].revision, mail'[i].age)
      <3>1. CASE mail'[i] = f
        BY <1>3, <3>1 DEF LeftWithin
      <3>2. CASE \E j \in DOMAIN mail : mail'[i] = mail[j]
        BY <1>1, <3>2 DEF Freshness
      <3> QED BY <1>2, <3>1, <3>2
    <2> QED BY <1>1, <1>2, <2>1 DEF Freshness
  <1>7. Numbering'
    <2>1. CASE cache.pending = NoDemand
      BY <1>2, <2>1 DEF Numbering
    <2>2. CASE cache.pending # NoDemand
      <3>1. ASSUME NEW i \in DOMAIN mail',
                   mail'[i].kind = "tile" /\ mail'[i].id = cache.pending.id
            PROVE  mail'[i].key = cache.pending.key
        <4>1. CASE mail'[i] = f
          BY <1>1, <2>2, <3>1, <4>1 DEF Numbering
        <4>2. CASE \E j \in DOMAIN mail : mail'[i] = mail[j]
          BY <1>1, <2>2, <3>1, <4>2 DEF Numbering
        <4> QED BY <1>2, <4>1, <4>2
      <3> QED BY <1>1, <1>2, <2>2, <3>1 DEF Numbering
    <2> QED BY <2>1, <2>2
  <1> QED BY <1>4, <1>5, <1>6, <1>7 DEF GroundInv

LEMMA GroundInvTell == GroundInv /\ TellWorld => GroundInv'
PROOF
  <1> SUFFICES ASSUME GroundInv, TellWorld PROVE GroundInv'
    OBVIOUS
  <1> DEFINE f == [ kind |-> "notice", id |-> 0, key |-> 0, age |-> 0,
                    revision |-> world.revision, ready |-> world.ready ]
  <1>1. f \in Frames
    BY DEF GroundInv, TilesTypeOK, Frames
  <1>2. Mailed(f)
    BY DEF TellWorld
  <1>3. f.age = 0 /\ f.kind = "notice" /\ f.revision = world.revision
    OBVIOUS
  <1> HIDE DEF f
  <1> QED BY <1>1, <1>2, <1>3, GroundInvMailed

LEMMA GroundInvAnswer == GroundInv /\ AnswerTile => GroundInv'
PROOF
  <1> SUFFICES ASSUME GroundInv, AnswerTile PROVE GroundInv'
    OBVIOUS
  <1> DEFINE f == [ kind |-> "tile", id |-> asked.id, key |-> asked.key, age |-> 0,
                    revision |-> asked.revision, ready |-> TRUE ]
  <1>1. f \in Frames
    BY DEF GroundInv, TilesTypeOK, Frames
  <1>2. Mailed(f)
    BY DEF AnswerTile
  <1>3. f.age = 0 /\ f.kind = "tile" /\ f.id = asked.id /\ f.key = asked.key
    OBVIOUS
  <1> HIDE DEF f
  <1> QED BY <1>1, <1>2, <1>3, GroundInvMailed

LEMMA GroundInvMoves == GroundInv /\ WorldMoves => GroundInv'
PROOF
  <1> SUFFICES ASSUME GroundInv, WorldMoves PROVE GroundInv'
    OBVIOUS
  <1>1. /\ TilesTypeOK /\ Acquaintance /\ TilesOfKnown(cache)
        /\ Freshness /\ Numbering
    BY DEF GroundInv
  <1>2. UNCHANGED <<scene, traffic, owner, player, cache, asked, mail>>
    BY DEF WorldMoves
  <1> DEFINE left == [ r \in DOMAIN world.left \cup {world.revision} |->
                         IF r = world.revision THEN 0 ELSE world.left[r] ]
  <1>3. PICK ready \in BOOLEAN :
          world' = [revision |-> world.revision + 1, ready |-> ready, left |-> left]
    BY DEF WorldMoves
  <1>4. /\ world.revision \in Nat
        /\ \A r \in DOMAIN world.left : r \in Nat /\ world.left[r] \in Nat
    BY <1>1 DEF TilesTypeOK
  <1>5. /\ DOMAIN left = DOMAIN world.left \cup {world.revision}
        /\ \A r \in DOMAIN left : r \in Nat /\ left[r] \in Nat
        /\ left[world.revision] = 0
        /\ \A r \in DOMAIN world.left : left[r] <= world.left[r]
    BY <1>4
  <1> HIDE DEF left
  <1>6. ASSUME NEW r, NEW t \in Nat, LeftWithin(world, r, t)
        PROVE  LeftWithin(world', r, t)
    <2>1. CASE r = world.revision
      BY <1>3, <1>5, <1>6, <2>1 DEF LeftWithin
    <2>2. CASE r \in DOMAIN world.left /\ world.left[r] <= t
      BY <1>3, <1>4, <1>5, <1>6, <2>2 DEF LeftWithin
    <2> QED BY <1>6, <2>1, <2>2 DEF LeftWithin
  <1>7. TilesTypeOK'
    <2>1. Positions' = Positions /\ Bodies' = Bodies
      BY <1>2 DEF Positions, Bodies
    <2>2. /\ world' \in [revision : Nat, ready : BOOLEAN, left : {world'.left}]
          /\ \A r \in DOMAIN world'.left : r \in Nat /\ world'.left[r] \in Nat
      BY <1>3, <1>4, <1>5
    <2> QED BY <1>1, <1>2, <2>1, <2>2 DEF TilesTypeOK
  <1>8. Acquaintance' /\ TilesOfKnown(cache)'
    BY <1>1, <1>2 DEF Acquaintance, TilesOfKnown
  <1>9. Freshness'
    <2>1. scene.delay \in Nat /\ TileLifetime \in Nat /\ cache.lease \in 0 .. TileLifetime
      BY <1>1, TileAssumption DEF TilesTypeOK, Scene, Caches
    <2>2. \A i \in DOMAIN mail : mail[i].age \in Nat
      <3>1. \A i \in DOMAIN mail : mail[i] \in Frames
        BY <1>1, LenProperties DEF TilesTypeOK
      <3> QED BY <3>1 DEF Frames
    <2>3. \A i \in DOMAIN mail : mail[i].kind = "notice"
            => LeftWithin(world', mail[i].revision, mail[i].age)
      BY <1>1, <1>6, <2>2 DEF Freshness
    <2>4. TileLifetime + scene.delay - cache.lease \in Nat
      BY <2>1
    <2>5. cache.known.context = owner.session /\ cache.lease > 0
            => LeftWithin(world', cache.known.revision,
                          TileLifetime + scene.delay - cache.lease)
      BY <1>1, <1>6, <2>4 DEF Freshness
    <2> QED BY <1>1, <1>2, <2>3, <2>5 DEF Freshness
  <1>10. Numbering'
    BY <1>1, <1>2 DEF Numbering
  <1> QED BY <1>7, <1>8, <1>9, <1>10 DEF GroundInv

\* What a notice makes of the cache.
LEMMA LearnedCache ==
    ASSUME NEW c \in Caches, TilesOfKnown(c), NEW notice \in Frames
    PROVE  LET d == Learned(c, notice)
           IN  /\ d \in Caches /\ TilesOfKnown(d)
               /\ d.known.context = c.known.context
               /\ d.known.revision = notice.revision
               /\ d.lease = TileLifetime
               /\ d.pending \in {c.pending, NoDemand}
PROOF
  <1> DEFINE now == [c.known EXCEPT !.revision = notice.revision,
                                    !.ready = notice.ready]
             e == IF now = c.known THEN c ELSE Emptied(c)
  <1>1. c.known \in Worlds /\ notice.revision \in Nat /\ notice.ready \in BOOLEAN
    BY DEF Caches, Frames
  <1>2. /\ now \in Worlds /\ now.context = c.known.context
        /\ now.revision = notice.revision
    BY <1>1 DEF Worlds
  <1>3. /\ Emptied(c) \in Caches /\ Emptied(c).tiles = <<>>
        /\ Emptied(c).pending = NoDemand
    BY EmptiedCache
  <1> HIDE DEF now
  <1>4. /\ e \in Caches /\ e.pending \in {c.pending, NoDemand}
        /\ (e = c /\ now = c.known) \/ e.tiles = <<>>
    BY <1>3
  <1>5. Learned(c, notice) = [e EXCEPT !.known = now, !.lease = TileLifetime]
    BY DEF Learned, now
  <1> HIDE DEF e
  <1> DEFINE d == Learned(c, notice)
  <1>6. /\ d \in Caches /\ d.known = now /\ d.lease = TileLifetime
        /\ d.tiles = e.tiles /\ d.pending = e.pending
    <2>1. TileLifetime \in 0 .. TileLifetime
      BY TileAssumption
    <2> HIDE DEF d
    <2>2. e \in Caches /\ now \in Worlds
            /\ d = [e EXCEPT !.known = now, !.lease = TileLifetime]
      BY <1>2, <1>4, <1>5 DEF d
    <2> QED BY ONLY <2>1, <2>2 DEF Caches
  <1> HIDE DEF d
  <1>7. TilesOfKnown(d)
    BY <1>4, <1>6 DEF TilesOfKnown
  <1> QED BY <1>2, <1>4, <1>6, <1>7 DEF d

\* A reply is kept as the ground of the place that was asked for.
LEMMA AcceptedCache ==
    ASSUME NEW c \in Caches, TilesOfKnown(c), NEW reply \in Frames,
           owner.session \in Nat, c.known.context = owner.session,
           IsAnswer(c, reply) =>
             c.pending.key \in Places /\ reply.key = c.pending.key
    PROVE  LET d == Accepted(c, reply)
           IN  /\ d \in Caches /\ TilesOfKnown(d)
               /\ d.known = c.known /\ d.lease = c.lease
               /\ d.pending \in {c.pending, NoDemand}
PROOF
  <1> DEFINE d == Accepted(c, reply)
             tile == [ key |-> c.pending.key, place |-> reply.key,
                       by |-> owner.session, revision |-> reply.revision,
                       solved |-> c.pending.key \in scene.solid,
                       pin |-> IF c.pending.support THEN Pin ELSE 0,
                       retry |-> Retry ]
             room == WithRoom(c, c.pending.key)
             used == Used(room, tile)
  <1>1. CASE d = c
    BY <1>1
  <1>2. CASE d # c
    <2>1. IsAnswer(c, reply)
      BY <1>2 DEF Accepted
    <2>2. d = [c EXCEPT !.tiles = used, !.pending = NoDemand]
      BY <1>2 DEF Accepted
    <2>3. /\ c.pending.key \in Places /\ reply.key = c.pending.key
          /\ reply.revision = c.known.revision
      BY <2>1 DEF IsAnswer
    <2>4. /\ tile \in Tiles /\ tile.by = c.known.context
          /\ tile.place = tile.key /\ tile.revision = c.known.revision
      <3>1. reply.revision \in Nat
        BY DEF Frames
      <3> QED BY <2>3, <3>1, TileAssumption DEF Tiles
    <2> HIDE DEF d, tile
    <2>5. /\ room \in Seq(Tiles)
          /\ \A k \in DOMAIN room : \E j \in DOMAIN c.tiles : room[k] = c.tiles[j]
      BY WithRoomTiles
    <2> HIDE DEF room
    <2>6. /\ used \in Seq(Tiles)
          /\ \A k \in DOMAIN used :
               used[k] = tile \/ \E j \in DOMAIN room : used[k] = room[j]
      BY <2>4, <2>5, UsedTiles
    <2> HIDE DEF used
    <2>7. NoDemand \in Requests
      BY TileAssumption DEF NoDemand, Requests
    <2>8. /\ d \in Caches /\ d.known = c.known /\ d.lease = c.lease
          /\ d.tiles = used /\ d.pending = NoDemand
      BY <2>2, <2>6, <2>7 DEF Caches
    <2>9. TilesOfKnown(d)
      BY <2>4, <2>5, <2>6, <2>8 DEF TilesOfKnown
    <2> QED BY <2>8, <2>9 DEF d
  <1> QED BY <1>1, <1>2

LEMMA TailOfMail ==
    ASSUME TilesTypeOK, mail # <<>>
    PROVE  /\ Tail(mail) \in Seq(Frames) /\ Head(mail) \in Frames
           /\ 1 \in DOMAIN mail /\ Head(mail) = mail[1]
           /\ \A i \in DOMAIN Tail(mail) :
                \E j \in DOMAIN mail : Tail(mail)[i] = mail[j]
PROOF
  <1>1. mail \in Seq(Frames)
    BY DEF TilesTypeOK
  <1>2. /\ Len(mail) \in Nat /\ Len(mail) # 0 /\ DOMAIN mail = 1 .. Len(mail)
    BY <1>1, EmptySeq, LenProperties
  <1>3. /\ Tail(mail) \in Seq(Frames) /\ Head(mail) \in Frames
        /\ Len(Tail(mail)) = Len(mail) - 1
        /\ \A i \in 1 .. Len(Tail(mail)) : Tail(mail)[i] = mail[i + 1]
    BY <1>1, HeadTailProperties
  <1>4. DOMAIN Tail(mail) = 1 .. Len(Tail(mail))
    BY <1>3, LenProperties
  <1>5. ASSUME NEW i \in DOMAIN Tail(mail)
        PROVE  \E j \in DOMAIN mail : Tail(mail)[i] = mail[j]
    <2>1. i + 1 \in DOMAIN mail
      BY <1>2, <1>3, <1>4
    <2> QED BY <1>3, <1>4, <2>1
  <1>6. Head(mail) = mail[1]
    BY DEF Head
  <1> QED BY <1>2, <1>3, <1>5, <1>6

\* What a frame leaves of the cache and of what the vehicle's patch knows.
Heard ==
    /\ cache' \in Caches /\ player' \in Worlds
    /\ traffic' \in [ at : Positions, spawned : SUBSET Bodies,
                      waiting : BOOLEAN, held : BOOLEAN ]
    /\ TilesOfKnown(cache')
    /\ cache'.pending \in {cache.pending, NoDemand}
    /\ cache'.known.context = owner.session
    /\ player' = player \/ player'.context = owner.session
    /\ cache'.lease > 0 =>
         \/ /\ cache.known.context = owner.session /\ cache'.known = cache.known
            /\ cache'.lease = cache.lease
         \/ /\ cache'.lease = TileLifetime /\ Head(mail).kind = "notice"
            /\ cache'.known.revision = Head(mail).revision

LEMMA HearNoticeIs ==
    ASSUME GroundInv, owner.ready, NEW notice \in Frames, notice = Head(mail),
           notice.kind = "notice", HearNotice(notice)
    PROVE  Heard
PROOF
  <1> DEFINE known == IF player.context = owner.session
                        THEN player
                        ELSE [NoWorld EXCEPT !.context = owner.session]
             c == InContext(cache, owner.session)
             heard == CanLearn(c.known, notice) /\ CanLearn(known, notice)
             new == heard /\ notice.revision # known.revision
             told == [known EXCEPT !.revision = notice.revision,
                                   !.ready = notice.ready]
  <1>1. /\ player' = IF heard THEN told ELSE known
        /\ cache' = IF heard THEN Learned(c, notice) ELSE c
        /\ traffic' = [ traffic EXCEPT !.waiting = @ \/ new, !.held = @ \/ new ]
    BY DEF HearNotice
  <1>2. /\ TilesTypeOK /\ TilesOfKnown(cache)
        /\ cache \in Caches /\ player \in Worlds /\ owner.session \in Nat
    BY DEF GroundInv, TilesTypeOK
  <1>3. /\ c \in Caches /\ c.known.context = owner.session
        /\ \/ c = cache
           \/ c.lease = 0 /\ c.tiles = <<>> /\ c.pending = NoDemand
    BY <1>2, ContextCache
  <1>4. known \in Worlds /\ known.context = owner.session
    BY <1>2, NoWorldOf
  <1>5. traffic' \in [ at : Positions, spawned : SUBSET Bodies,
                      waiting : BOOLEAN, held : BOOLEAN ]
    <2>1. new \in BOOLEAN
      BY DEF CanLearn
    <2> HIDE DEF new
    <2> QED BY <1>1, <1>2, <2>1 DEF TilesTypeOK
  <1> HIDE DEF known, c
  <1>6. told \in Worlds /\ told.context = owner.session
    BY <1>4 DEF Worlds, Frames
  <1> HIDE DEF told
  <1>7. player' \in Worlds /\ player'.context = owner.session
    BY <1>1, <1>4, <1>6
  <1>8. TilesOfKnown(c)
    BY <1>2, <1>3, NoTilesOfKnown
  <1>9. CASE heard
    <2> DEFINE d == Learned(c, notice)
    <2>1. /\ d \in Caches /\ TilesOfKnown(d)
          /\ d.known.context = c.known.context
          /\ d.known.revision = notice.revision
          /\ d.lease = TileLifetime
          /\ d.pending \in {c.pending, NoDemand}
      BY <1>3, <1>8, LearnedCache
    <2>2. cache' = d
      BY <1>1, <1>9
    <2> HIDE DEF d
    <2> QED BY <1>3, <1>5, <1>7, <2>1, <2>2 DEF Heard
  <1>10. CASE ~heard
    <2>1. cache' = c
      BY <1>1, <1>10
    <2> QED BY <1>3, <1>5, <1>7, <1>8, <2>1 DEF Heard
  <1> QED BY <1>9, <1>10

LEMMA HearTileIs ==
    ASSUME GroundInv, owner.ready, NEW reply \in Frames, mail # <<>>,
           reply = Head(mail), reply.kind # "notice", HearTile(reply)
    PROVE  Heard
PROOF
  <1> DEFINE b == InContext(cache, owner.session)
             c == Begun(b)
             d == Accepted(c, reply)
  <1>1. cache' = d /\ UNCHANGED <<player, traffic>>
    BY DEF HearTile
  <1>2. /\ TilesTypeOK /\ TilesOfKnown(cache) /\ Numbering
        /\ cache \in Caches /\ player \in Worlds /\ owner.session \in Nat
    BY DEF GroundInv, TilesTypeOK
  <1>3. /\ b \in Caches /\ b.known.context = owner.session
        /\ \/ b = cache
           \/ b.lease = 0 /\ b.tiles = <<>> /\ b.pending = NoDemand
    BY <1>2, ContextCache
  <1> HIDE DEF b
  <1>4. /\ c \in Caches /\ c.known = b.known /\ c.lease = b.lease
        /\ \/ c = b
           \/ c.tiles = <<>> /\ c.pending = NoDemand
    <2>1. b \in Caches
      BY <1>3
    <2> QED BY ONLY <2>1, BegunCache
  <1> HIDE DEF c
  <1>5. TilesOfKnown(c) /\ c.pending \in {cache.pending, NoDemand}
    BY <1>2, <1>3, <1>4, NoTilesOfKnown
  <1>6. ASSUME IsAnswer(c, reply)
        PROVE  c.pending.key \in Places /\ reply.key = c.pending.key
    <2>1. c.pending.left > 0 /\ reply.id = c.pending.id
      BY <1>6 DEF IsAnswer
    <2>2. c.pending # NoDemand /\ c.pending = cache.pending
      BY <1>5, <2>1 DEF NoDemand
    <2>3. 1 \in DOMAIN mail /\ reply = mail[1] /\ reply.kind = "tile"
      BY <1>2, TailOfMail DEF Frames
    <2> QED BY <1>2, <2>1, <2>2, <2>3 DEF Numbering
  <1>7. /\ d \in Caches /\ TilesOfKnown(d)
        /\ d.known = c.known /\ d.lease = c.lease
        /\ d.pending \in {c.pending, NoDemand}
    BY <1>2, <1>3, <1>4, <1>5, <1>6, AcceptedCache
  <1> HIDE DEF d
  <1>8. traffic' \in [ at : Positions, spawned : SUBSET Bodies,
                      waiting : BOOLEAN, held : BOOLEAN ]
    BY <1>1, <1>2 DEF TilesTypeOK
  <1>9. d.lease > 0 => b = cache
    BY <1>3, <1>4, <1>7
  <1> QED BY <1>1, <1>2, <1>3, <1>4, <1>5, <1>7, <1>8, <1>9 DEF Heard

LEMMA GroundInvHear == GroundInv /\ HearFrame => GroundInv'
PROOF
  <1> SUFFICES ASSUME GroundInv, HearFrame PROVE GroundInv'
    OBVIOUS
  <1>1. /\ TilesTypeOK /\ Acquaintance /\ TilesOfKnown(cache)
        /\ Freshness /\ Numbering
    BY DEF GroundInv
  <1>2. /\ mail # <<>> /\ mail' = Tail(mail)
        /\ UNCHANGED <<scene, owner, asked, world>>
    BY DEF HearFrame
  <1>3. /\ mail' \in Seq(Frames) /\ Head(mail) \in Frames
        /\ 1 \in DOMAIN mail /\ Head(mail) = mail[1]
        /\ \A i \in DOMAIN mail' : \E j \in DOMAIN mail : mail'[i] = mail[j]
    BY <1>1, <1>2, TailOfMail
  <1>4. Positions' = Positions /\ Bodies' = Bodies
    BY <1>2 DEF Positions, Bodies
  <1>5. \/ ~owner.ready /\ UNCHANGED <<player, cache, traffic>>
        \/ owner.ready /\ Heard
    <2>1. CASE ~owner.ready
      BY <2>1 DEF HearFrame
    <2>2. CASE owner.ready /\ Head(mail).kind = "notice"
      <3>1. HearNotice(Head(mail))
        BY <2>2 DEF HearFrame
      <3> QED BY <1>3, <2>2, <3>1, HearNoticeIs
    <2>3. CASE owner.ready /\ Head(mail).kind # "notice"
      <3>1. HearTile(Head(mail))
        BY <2>3 DEF HearFrame
      <3> QED BY <1>2, <1>3, <2>3, <3>1, HearTileIs
    <2> QED BY <2>1, <2>2, <2>3
  <1>6. TilesTypeOK'
    BY <1>1, <1>2, <1>3, <1>4, <1>5 DEF TilesTypeOK, Heard
  <1>7. Acquaintance'
    <2>1. owner.session \in Nat
      BY <1>1 DEF TilesTypeOK
    <2> QED BY <1>1, <1>2, <1>5, <2>1 DEF Acquaintance, Heard
  <1>8. TilesOfKnown(cache)'
    BY <1>1, <1>5 DEF TilesOfKnown, Heard
  <1>9. Freshness'
    <2>1. scene.delay \in Nat /\ TileLifetime \in Nat
      BY <1>1, TileAssumption DEF TilesTypeOK, Scene
    <2>2. \A r \in DOMAIN world.left : world.left[r] \in Nat
      BY <1>1 DEF TilesTypeOK
    <2>3. \A i \in DOMAIN mail' :
            /\ mail'[i].age <= scene.delay
            /\ mail'[i].kind = "notice" => LeftWithin(world, mail'[i].revision, mail'[i].age)
      BY <1>1, <1>3 DEF Freshness
    <2>4. ASSUME cache'.known.context = owner.session, cache'.lease > 0
          PROVE  LeftWithin(world, cache'.known.revision,
                            TileLifetime + scene.delay - cache'.lease)
      <3>1. CASE cache.known.context = owner.session /\ cache'.known = cache.known
                   /\ cache'.lease = cache.lease
        BY <1>1, <2>4, <3>1 DEF Freshness
      <3>2. CASE cache'.lease = TileLifetime /\ Head(mail).kind = "notice"
                   /\ cache'.known.revision = Head(mail).revision
        <4>1. /\ LeftWithin(world, cache'.known.revision, mail[1].age)
              /\ mail[1].age <= scene.delay
          BY <1>1, <1>3, <3>2 DEF Freshness
        <4>2. mail[1].age \in Nat
          BY <1>3 DEF Frames
        <4>3. TileLifetime + scene.delay - cache'.lease = scene.delay
          BY <2>1, <3>2
        <4> QED BY <2>1, <2>2, <4>1, <4>2, <4>3 DEF LeftWithin
      <3> QED BY <1>5, <2>4, <3>1, <3>2 DEF Heard
    <2> QED BY <1>2, <2>3, <2>4 DEF Freshness
  <1>10. Numbering'
    <2>1. cache'.pending \in {cache.pending, NoDemand}
      BY <1>5 DEF Heard
    <2>2. CASE cache'.pending = NoDemand
      BY <2>2 DEF Numbering
    <2>3. CASE cache'.pending = cache.pending /\ cache.pending # NoDemand
      <3>1. \A i \in DOMAIN mail' :
              mail'[i].kind = "tile" /\ mail'[i].id = cache.pending.id
                => mail'[i].key = cache.pending.key
        BY <1>1, <1>3, <2>3 DEF Numbering
      <3> QED BY <1>1, <1>2, <2>3, <3>1 DEF Numbering
    <2> QED BY <2>1, <2>2, <2>3
  <1> QED BY <1>6, <1>7, <1>8, <1>9, <1>10 DEF GroundInv

LEMMA GroundInvNext == GroundInv /\ [TilesNext]_tileVars => GroundInv'
PROOF
  <1> SUFFICES ASSUME GroundInv, [TilesNext]_tileVars PROVE GroundInv'
    OBVIOUS
  <1>1. CASE UNCHANGED tileVars
    BY <1>1 DEF tileVars, GroundInv, TilesTypeOK, Acquaintance, TilesOfKnown,
                Freshness, Numbering, Positions, Bodies
  <1> QED
    BY <1>1, GroundInvTick, GroundInvTime, GroundInvTakeOver, GroundInvBeginAnew,
       GroundInvLoseOwner, GroundInvTell, GroundInvAnswer, GroundInvMoves,
       GroundInvHear DEF TilesNext

\* In every behaviour the cache, the requests and the frames are what they are
\* said to be, and every body's place on its route is one.
THEOREM GroundTypeCorrect == TilesSpec => []TilesTypeOK
PROOF
  <1>1. TilesInit => GroundInv
    BY GroundInvInit
  <1>2. GroundInv /\ [TilesNext]_tileVars => GroundInv'
    BY GroundInvNext
  <1>3. GroundInv => TilesTypeOK
    BY DEF GroundInv
  <1> QED BY <1>1, <1>2, <1>3, PTL DEF TilesSpec

\* Whatever is lost, late or taken over, a tick that counts has every body on
\* ground that the client that drives now has measured there, of its world as
\* it is or was less than a lease and a frame's delay ago.
THEOREM TrafficStandsOnMeasuredGround == TilesSpec => []TrafficStandsOnThisWorld
PROOF
  <1>1. TilesInit => GroundInv
    BY GroundInvInit
  <1>2. GroundInv /\ [TilesNext]_tileVars => GroundInv'
    BY GroundInvNext
  <1>3. GroundInv => TrafficStandsOnThisWorld
    BY GroundInvStands
  <1> QED BY <1>1, <1>2, <1>3, PTL DEF TilesSpec
=============================================================================
