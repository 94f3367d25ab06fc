------------------------------ MODULE NpcGround ------------------------------
(***************************************************************************)
(* The ground of the traffic when it is measured (terrain/                 *)
(* live_npc_ground.cpp): a cache of tiles of the client's world, one       *)
(* request at a time, a short queue of what to ask for next, and the lease *)
(* that the client's world notices give to all of it.  With it what a tick *)
(* of the host asks (simulation_host.cpp, simulation_host_npc.cpp), the    *)
(* frames of the client (simulation_host_ground_shadow.cpp) and the client *)
(* that measures (SimCoreClientComponent.cpp, SimCoreLiveGroundPatch.cpp). *)
(*                                                                         *)
(* A place is the key of a tile.  What a body needs is the tiles under it, *)
(* its support, and what it would like is the tiles its planning looks at. *)
(* A measured tile answers there (it is solid) or is too rough to answer.  *)
(* Times are what is left of them: of the lease, of a request, of a pin.   *)
(* The patch of ground under the vehicle itself is module LiveMeasurement; *)
(* here it counts for the world it knows, and the rest of it is left open. *)
(***************************************************************************)
EXTENDS Integers, Sequences, FiniteSetsExt

CONSTANTS
    TileLifetime,   \* Lifetime: of the lease, and of a request
    Pin,            \* how long a tile a body stood on is not evicted
    Retry,          \* how long a tile is not measured again
    MaximumTiles, MaximumDemands,
    Scenes          \* the bounds of a run, chosen at its start

Places == Nat \ {0}

\* The bounds of a run.
Scene ==
    [ routes : Seq(Seq([stand : Seq(Places), plan : Seq(Places)]) \ {<<>>}),
                           \* of each body, which goes round it
      solid : SUBSET Places,   \* the places that can be measured
      owners : Nat,        \* on the sessions that come to own the vehicle;
                           \* the last one stays
      revisions : Nat,     \* on the revisions of a client's world
      delay : Nat,         \* the longest a frame of the client is on its way
      notices : Nat ]      \* on the world notices on their way

ASSUME TileAssumption ==
    /\ TileLifetime \in Nat \ {0}
    /\ Pin \in Nat /\ Retry \in Nat
    /\ MaximumTiles \in Nat \ {0} /\ MaximumDemands \in Nat \ {0}
    /\ Scenes \subseteq Scene

VARIABLES
    scene,      \* the bounds of this run
    traffic,    \* where on its route each body is, which ones exist, whether
                \* some are awaited, and whether the last tick was held
    owner,      \* the session that owns the vehicle
    player,     \* the world the vehicle's own patch of ground knows
    cache,      \* live_npc_ground_
    asked,      \* the request in the world state broadcast last
    mail,       \* frames of the client on their way to the server
    world       \* the client's world; history: since when it left each one

tileVars == <<scene, traffic, owner, player, cache, asked, mail, world>>

NoDemand == [key |-> 0, support |-> FALSE, id |-> 0, left |-> 0]
NoRequestYet == [id |-> 0, key |-> 0, revision |-> 0]
NoWorld == [context |-> 0, revision |-> 0, ready |-> FALSE]

\* context_, revision_ and world_ready_; what is left of the lease; tiles_ in
\* the order of their last use, demands_ and pending_.
NoCache ==
    [ known |-> NoWorld, lease |-> 0, tiles |-> <<>>, demands |-> <<>>,
      pending |-> NoDemand ]

\* The element of a set of one.  Of Only({F(v) : v \in {x}}), which is F(x), TLC
\* evaluates x once, however often F looks at it.
Only(S) == CHOOSE y \in S : TRUE

Bodies == DOMAIN scene.routes
NoTraffic ==
    [ at |-> [b \in Bodies |-> 1], spawned |-> {}, waiting |-> TRUE,
      held |-> TRUE ]

TilesInit ==
    /\ scene \in Scenes
    /\ traffic = NoTraffic
    /\ owner = [session |-> 0, ready |-> FALSE]
    /\ player = NoWorld
    /\ cache = NoCache
    /\ asked = NoRequestYet
    /\ mail = <<>>
    /\ world = [revision |-> 1, ready |-> TRUE, left |-> <<>>]

-----------------------------------------------------------------------------
(* The cache.                                                              *)

\* Mutant of Emptied: what the queue holds is all that is forgotten.
EmptiedOfDemands(c) == [c EXCEPT !.demands = <<>>, !.pending = NoDemand]

\* clear_measurements()
Emptied(c) ==
    [c EXCEPT !.tiles = <<>>, !.demands = <<>>, !.pending = NoDemand]

InContext(c, context) ==
    IF context = c.known.context
      THEN c
      ELSE [NoCache EXCEPT !.known.context = context]

\* can_observe_world_revision(), and what both patches of ground ask.
CanLearn(known, notice) ==
    /\ notice.revision >= known.revision
    /\ notice.revision = known.revision => notice.ready = known.ready

\* The tiles of another revision go; those of this one live on.
Learned(c, notice) ==
    LET now == [ c.known EXCEPT !.revision = notice.revision,
                                !.ready = notice.ready ]
    IN  [ (IF now = c.known THEN c ELSE Emptied(c)) EXCEPT
            !.known = now, !.lease = TileLifetime ]

\* begin_tick(): a lease that has run out takes the tiles with it.
Begun(c) == IF c.lease = 0 THEN Emptied(c) ELSE c

CanAnswer(c) == c.known.context # 0 /\ c.known.ready /\ c.lease > 0

\* A sequence without its item i.
Removed(s, i) == [k \in 1 .. Len(s) - 1 |-> s[IF k < i THEN k ELSE k + 1]]

Keys(c) == {c.tiles[i].key : i \in DOMAIN c.tiles}
IndexOf(tiles, key) == CHOOSE i \in DOMAIN tiles : tiles[i].key = key
TileAt(c, key) == c.tiles[IndexOf(c.tiles, key)]

\* A tile goes to the end of the tiles, and takes the place of what was there.
Without(tiles, key) ==
    IF \E i \in DOMAIN tiles : tiles[i].key = key
      THEN Removed(tiles, IndexOf(tiles, key))
      ELSE tiles
Used(tiles, tile) == Append(Without(tiles, tile.key), tile)

Demanded(c, key) == {i \in DOMAIN c.demands : c.demands[i].key = key}
ForSupport(c) == {i \in DOMAIN c.demands : c.demands[i].support}
Optional(c) == DOMAIN c.demands \ ForSupport(c)
Demand(key, support) == [key |-> key, support |-> support]

\* A demand that is there becomes one for support.
Raised(c, key, support) ==
    [ c EXCEPT !.demands =
        [ i \in DOMAIN c.demands |->
            Demand( c.demands[i].key,
                    c.demands[i].support
                      \/ (support /\ c.demands[i].key = key) ) ] ]

\* Mutant of Enqueued: who comes to a full queue is turned away.
EnqueuedIfRoom(c, key, support) ==
    IF c.pending.key = key THEN c
    ELSE IF Demanded(c, key) # {} THEN Raised(c, key, support)
    ELSE IF Len(c.demands) = MaximumDemands THEN c
    ELSE [c EXCEPT !.demands = Append(c.demands, Demand(key, support))]

\* enqueue(): to a full queue support comes in place of the optional demand
\* that came last.
Enqueued(c, key, support) ==
    LET kept == IF Len(c.demands) < MaximumDemands
                  THEN c.demands
                  ELSE Removed(c.demands, Max(Optional(c)))
    IN  IF c.pending.key = key THEN c
        ELSE IF Demanded(c, key) # {} THEN Raised(c, key, support)
        ELSE IF Len(c.demands) < MaximumDemands
                  \/ (support /\ Optional(c) # {})
          THEN [c EXCEPT !.demands = Append(kept, Demand(key, support))]
          ELSE c

Evictable(c) == {i \in DOMAIN c.tiles : c.tiles[i].pin = 0}

\* make_room(): whether there is room, and the tiles it leaves.
HasRoom(c, key) ==
    key \in Keys(c) \/ Len(c.tiles) < MaximumTiles \/ Evictable(c) # {}

WithRoom(c, key) ==
    IF key \in Keys(c) \/ Len(c.tiles) < MaximumTiles
      THEN c.tiles
      ELSE Removed(c.tiles, Min(Evictable(c)))

\* query_down(): the cache it leaves, and whether the ground is known.
Query(c, key, support) ==
    LET tile == TileAt(c, key)
        used == [c EXCEPT !.tiles = Used(c.tiles,
                   [tile EXCEPT !.pin = IF support THEN Pin ELSE @])]
    IN  IF ~CanAnswer(c) THEN [cache |-> c, found |-> FALSE]
        ELSE IF key \notin Keys(c)
          THEN [cache |-> Enqueued(c, key, support), found |-> FALSE]
        ELSE IF ~tile.solved /\ tile.retry = 0
          THEN [cache |-> Enqueued(used, key, support), found |-> FALSE]
          ELSE [cache |-> used, found |-> tile.solved]

\* The first measurement that is missing ends what a body does.
Queried(done, key, support) ==
    IF done.found THEN Query(done.cache, key, support) ELSE done

Queries(c, keys, support) ==
    LET done[n \in 0 .. Len(keys)] ==
          IF n = 0 THEN [cache |-> c, found |-> TRUE]
                   ELSE Only({ Queried(d, keys[n], support) :
                                 d \in {done[n - 1]} })
    IN  done[Len(keys)]

\* A request that is overdue queues up again.
Reasked(c) ==
    IF c.pending # NoDemand /\ c.pending.left = 0
      THEN Enqueued([c EXCEPT !.pending = NoDemand],
                    c.pending.key, c.pending.support)
      ELSE c

\* A number no request or reply in circulation has.
NewRequestId ==
    CHOOSE id \in 1..(Len(mail) + 3) :
      /\ id \notin {asked.id, cache.pending.id}
      /\ \A i \in DOMAIN mail : mail[i].id # id

\* prepare(): support first.  Without room nothing is asked this time.
Asking(c) ==
    LET waits == Reasked(c)
        next  == IF ForSupport(waits) # {} THEN Min(ForSupport(waits)) ELSE 1
        d     == waits.demands[next]
    IN  IF waits.pending # NoDemand \/ waits.demands = <<>>
              \/ ~HasRoom(waits, d.key)
          THEN waits
          ELSE [ waits EXCEPT
                   !.tiles = WithRoom(waits, d.key),
                   !.demands = Removed(waits.demands, next),
                   !.pending = [ key |-> d.key, support |-> d.support,
                                 id |-> NewRequestId,
                                 left |-> TileLifetime ] ]

IsAnswer(c, reply) ==
    /\ CanAnswer(c)
    /\ c.pending.left > 0
    /\ reply.id = c.pending.id
    /\ reply.revision = c.known.revision

\* accept() of a reply that is complete.  HasRoom holds here since the
\* request was prepared.
Accepted(c, reply) ==
    IF ~IsAnswer(c, reply) \/ ~HasRoom(c, c.pending.key)
      THEN c
      ELSE [ c EXCEPT
               !.tiles = Used(WithRoom(c, c.pending.key),
                  [ key |-> c.pending.key, place |-> reply.key,
                    by |-> owner.session, revision |-> reply.revision,
                    solved |-> c.pending.key \in scene.solid,
                    pin |-> IF c.pending.support THEN Pin ELSE 0,
                    retry |-> Retry ]),
               !.pending = NoDemand ]

-----------------------------------------------------------------------------
(* The tick.                                                               *)

Here(b) == scene.routes[b][traffic.at[b]]
NextOf(b) == (traffic.at[b] % Len(scene.routes[b])) + 1
Ahead(b) == scene.routes[b][NextOf(b)]

\* A body that is not in the world yet enters it where it stands.
Entered(done, b, q) ==
    [ cache |-> q.cache,
      spawned |-> IF q.found THEN done.spawned \cup {b} ELSE done.spawned,
      waiting |-> done.waiting \/ ~q.found ]

Spawned(done, b) ==
    IF b \in done.spawned
      THEN done
      ELSE Only({ Entered(done, b, q) :
                    q \in {Queries(done.cache, Here(b).stand, TRUE)} })

\* initialize_live_npc_ground_entities()
Initialized(c) ==
    LET begin == [ cache |-> c, spawned |-> traffic.spawned,
                   waiting |-> IF owner.ready /\ traffic.waiting
                                 THEN ~CanAnswer(c) ELSE traffic.waiting ]
        done[b \in 0 .. Len(scene.routes)] ==
          IF b = 0 THEN begin ELSE Only({Spawned(d, b) : d \in {done[b - 1]}})
    IN  IF owner.ready /\ traffic.waiting /\ CanAnswer(c)
          THEN done[Len(scene.routes)]
          ELSE begin

\* prepare_lane_npc() of a body: it looks ahead, then moves.  What it cannot
\* measure freezes it where it is.
MovedIf(q, at, b) ==
    [ cache |-> q.cache,
      at |-> IF q.found THEN [at EXCEPT ![b] = NextOf(b)] ELSE at ]

Moving(p, at, b) ==
    Only({ MovedIf(q, at, b) :
             q \in {IF p.found THEN Queries(p.cache, Ahead(b).stand, TRUE)
                               ELSE p} })

Steered(done, b) ==
    Only({ Moving(p, done.at, b) :
             p \in {Queries(done.cache, Ahead(b).plan, FALSE)} })

\* The traffic waits until all bodies are in the world.
AfterTraffic(init) ==
    LET begin == [cache |-> init.cache, at |-> traffic.at]
        done[b \in 0 .. Len(scene.routes)] ==
          IF b = 0 THEN begin ELSE Only({Steered(d, b) : d \in {done[b - 1]}})
    IN  IF init.waiting THEN begin ELSE done[Len(scene.routes)]

\* validate_live_npc_ground_after_collision(): what each body stands on.
Support(at, b) == scene.routes[b][at[b]].stand

Supported(done, at, b) ==
    IF done.found THEN Queries(done.cache, Support(at, b), TRUE) ELSE done

Validated(c, at) ==
    LET done[b \in 0 .. Len(scene.routes)] ==
          IF b = 0 THEN [cache |-> c, found |-> TRUE]
                   ELSE Only({Supported(d, at, b) : d \in {done[b - 1]}})
    IN  done[Len(scene.routes)]

\* prepare_live_ground(): the world the vehicle's patch knows, and the tiles.
KnownToPlayer ==
    LET own == IF owner.ready THEN owner.session ELSE 0
    IN  IF player.context = own THEN player
                                ELSE [NoWorld EXCEPT !.context = own]
TilesAtTick == Begun(IF owner.ready THEN cache ELSE InContext(cache, 0))

\* What run_tick() makes of the measurements: the cache with what was asked
\* of it, where the traffic is after, and whether the tick counts.
Tried(init) == owner.ready /\ ~init.waiting /\ KnownToPlayer.ready

Ended(init, moved, valid) ==
    [ spawned |-> init.spawned, waiting |-> init.waiting,
      cache |-> IF Tried(init) THEN valid.cache ELSE moved.cache,
      at |-> moved.at, accepted |-> Tried(init) /\ valid.found ]

Followed(init, moved) ==
    Only({ Ended(init, moved, valid) :
             valid \in {Validated(moved.cache, moved.at)} })
Driven(init) == Only({Followed(init, moved) : moved \in {AfterTraffic(init)}})

Outcome == Only({Driven(init) : init \in {Initialized(TilesAtTick)}})

\* A tick, and the world state it broadcasts.  A tick that does not count
\* leaves the traffic where it was, and what was asked for asked.
TickOnTiles ==
    \E out \in {Outcome} :
      \E c \in {IF owner.ready /\ CanAnswer(out.cache)
                  THEN Asking(out.cache) ELSE out.cache} :
        /\ cache' = c
        /\ asked' = IF owner.ready /\ c.pending # NoDemand
                      THEN [ id |-> c.pending.id, key |-> c.pending.key,
                             revision |-> c.known.revision ]
                      ELSE NoRequestYet
        /\ traffic' = [ at |-> IF out.accepted THEN out.at ELSE traffic.at,
                        spawned |-> out.spawned, waiting |-> out.waiting,
                        held |-> ~out.accepted ]
        /\ player' = KnownToPlayer
        /\ UNCHANGED <<scene, owner, mail, world>>

Less(time) == IF time = 0 THEN 0 ELSE time - 1

\* What is left in a cache a unit of time later.
Aged(c) ==
    [ c EXCEPT
        !.lease = Less(c.lease),
        !.pending = [c.pending EXCEPT !.left = Less(@)],
        !.tiles = [ i \in DOMAIN c.tiles |->
                      [ c.tiles[i] EXCEPT !.pin = Less(@), !.retry = Less(@) ] ] ]

\* A unit of time passes; no frame is on its way for longer than the delay.
TimePasses ==
    /\ \A i \in DOMAIN mail : mail[i].age < scene.delay
    /\ mail' = [i \in DOMAIN mail |-> [mail[i] EXCEPT !.age = @ + 1]]
    /\ cache' = Aged(cache)
    /\ world' = [world EXCEPT !.left = [ r \in DOMAIN world.left |->
                    IF world.left[r] < TileLifetime + scene.delay
                      THEN world.left[r] + 1 ELSE world.left[r] ]]
    /\ UNCHANGED <<scene, traffic, owner, player, asked>>

-----------------------------------------------------------------------------
(* The session.  What becomes of it is module SimulationHost's matter.     *)

NewOwner ==
    /\ owner.session < scene.owners
    /\ owner' = [session |-> owner.session + 1, ready |-> TRUE]
    /\ mail' = <<>>
    /\ \E r \in 1..scene.revisions, ready \in BOOLEAN :
         world' = [revision |-> r, ready |-> ready, left |-> <<>>]
    /\ UNCHANGED scene

\* A connection takes the running play over; the cache learns of it later.
TakeOver ==
    /\ owner.session > 0
    /\ NewOwner
    /\ UNCHANGED <<traffic, player, cache, asked>>

\* A new play, or a map: the traffic begins again.
BeginAnew ==
    /\ NewOwner
    /\ traffic' = NoTraffic
    /\ player' = NoWorld
    /\ cache' = InContext(cache, 0)
    /\ asked' = NoRequestYet

LoseOwner ==
    /\ owner.ready
    /\ owner.session < scene.owners
    /\ owner' = [owner EXCEPT !.ready = FALSE]
    /\ UNCHANGED <<scene, traffic, player, cache, asked, mail, world>>

-----------------------------------------------------------------------------
(* The client and its frames.                                              *)

Mailed(frame) ==
    /\ owner.ready
    /\ mail' = Append(mail, frame)
    /\ UNCHANGED <<scene, traffic, owner, player, cache, asked, world>>

\* When its world has changed, and every tenth of a second.
TellWorld ==
    /\ Len(SelectSeq(mail, LAMBDA f : f.kind = "notice")) < scene.notices
    /\ Mailed([ kind |-> "notice", id |-> 0, key |-> 0, age |-> 0,
                revision |-> world.revision, ready |-> world.ready ])

\* TickObservedRevision(): a scan takes several frames, and is begun anew
\* when the world changes.  It answers a request once; that it may again
\* when its answer has arrived is left open.
AnswerTile ==
    /\ asked # NoRequestYet
    /\ world.ready
    /\ asked.revision = world.revision
    /\ \A i \in DOMAIN mail : mail[i].id # asked.id
    /\ Mailed([ kind |-> "tile", id |-> asked.id, key |-> asked.key, age |-> 0,
                revision |-> asked.revision, ready |-> TRUE ])

\* The scene of the client changes.
WorldMoves ==
    /\ world.revision < scene.revisions
    /\ \E ready \in BOOLEAN :
         world' = [ revision |-> world.revision + 1, ready |-> ready,
                    left |-> [ r \in DOMAIN world.left \cup {world.revision} |->
                                 IF r = world.revision THEN 0
                                                       ELSE world.left[r] ] ]
    /\ UNCHANGED <<scene, traffic, owner, player, cache, asked, mail>>

\* handle_ground_world_revision(): the vehicle's patch and the tiles learn
\* it, or none of them does.
HearNotice(notice) ==
    LET known == IF player.context = owner.session
                   THEN player
                   ELSE [NoWorld EXCEPT !.context = owner.session]
        c     == InContext(cache, owner.session)
        heard == CanLearn(c.known, notice) /\ CanLearn(known, notice)
        new   == heard /\ notice.revision # known.revision
    IN  /\ player' = IF heard THEN [ known EXCEPT !.revision = notice.revision,
                                                  !.ready = notice.ready ]
                              ELSE known
        /\ cache' = IF heard THEN Learned(c, notice) ELSE c
        /\ traffic' = [ traffic EXCEPT !.waiting = @ \/ new, !.held = @ \/ new ]

\* handle_ground_shadow() of a tile.
HearTile(reply) ==
    /\ cache' = Accepted(Begun(InContext(cache, owner.session)), reply)
    /\ UNCHANGED <<player, traffic>>

HearFrame ==
    /\ mail # <<>>
    /\ mail' = Tail(mail)
    /\ IF ~owner.ready THEN UNCHANGED <<player, cache, traffic>>
       ELSE IF Head(mail).kind = "notice" THEN HearNotice(Head(mail))
                                          ELSE HearTile(Head(mail))
    /\ UNCHANGED <<scene, owner, asked, world>>

-----------------------------------------------------------------------------
TilesNext ==
    \/ TickOnTiles
    \/ TimePasses
    \/ TakeOver
    \/ BeginAnew
    \/ LoseOwner
    \/ TellWorld
    \/ AnswerTile
    \/ WorldMoves
    \/ HearFrame

\* The host ticks and hears what arrives.  The client repeats its notice and,
\* asked often enough, measures a tile while there is time for the answer.
TilesFairness ==
    /\ WF_tileVars(TickOnTiles)
    /\ WF_tileVars(TimePasses)
    /\ WF_tileVars(HearFrame)
    /\ SF_tileVars(TellWorld)
    /\ SF_tileVars(AnswerTile /\ cache.pending.left > scene.delay)

TilesSpec == TilesInit /\ [][TilesNext]_tileVars /\ TilesFairness
-----------------------------------------------------------------------------
Tiles ==
    [ key : Places, place : Places, by : Nat, revision : Nat,
      solved : BOOLEAN, pin : 0 .. Pin, retry : 0 .. Retry ]

Demands == [key : Places, support : BOOLEAN]

Requests ==
    [ key : Nat, support : BOOLEAN, id : Nat, left : 0 .. TileLifetime ]

Worlds == [context : Nat, revision : Nat, ready : BOOLEAN]

Caches ==
    [ known : Worlds, lease : 0 .. TileLifetime, tiles : Seq(Tiles),
      demands : Seq(Demands), pending : Requests ]

Frames ==
    [ kind : {"notice", "tile"}, id : Nat, key : Nat, age : Nat,
      revision : Nat, ready : BOOLEAN ]

Positions ==
    {at \in [Bodies -> Nat] : \A b \in Bodies : at[b] \in DOMAIN scene.routes[b]}

TilesTypeOK ==
    /\ scene \in Scenes
    /\ traffic \in [ at : Positions, spawned : SUBSET Bodies,
                    waiting : BOOLEAN, held : BOOLEAN ]
    /\ owner \in [session : 0 .. scene.owners, ready : BOOLEAN]
    /\ player \in Worlds /\ cache \in Caches
    /\ asked \in [id : Nat, key : Nat, revision : Nat]
    /\ mail \in Seq(Frames)
    /\ world \in [revision : Nat, ready : BOOLEAN, left : {world.left}]
    /\ \A r \in DOMAIN world.left : r \in Nat /\ world.left[r] \in Nat

\* A tick that counts has every body on tiles that were measured there, by
\* the client that drives now, and of its world as it is or as it was less
\* than a lease and the delay of a frame ago: late replies, a client that
\* falls silent and one that comes instead leave nothing to stand on.
StandsOnThisWorld(c, key) ==
    LET tile == TileAt(c, key)
    IN  /\ key \in Keys(c)
        /\ tile.by = owner.session
        /\ tile.place = key
        /\ \/ tile.revision = world.revision
           \/ /\ tile.revision \in DOMAIN world.left
              /\ world.left[tile.revision] < TileLifetime + scene.delay

TrafficStandsOnThisWorld ==
    \A out \in {Outcome} : out.accepted =>
      \A b \in Bodies : \A i \in DOMAIN Support(out.at, b) :
        StandsOnThisWorld(out.cache, Support(out.at, b)[i])

\* While the world is known for good the player is not held for good: neither
\* what planning asks for, nor requests that come to nothing, nor a full cache
\* of tiles that may not be evicted keeps the ground from under a body.
PlayerIsNotHeldForever ==
    <>[](owner.ready /\ CanAnswer(cache)) => []<>~traffic.held
=============================================================================
