--------------------------- MODULE LiveMeasurement ---------------------------
(***************************************************************************)
(* Physics on measured ground (--live-ground --live-obstacles): the server *)
(* asks the Unreal client for patches of ground and for the obstacles      *)
(* around the vehicle (terrain/live_ground_patch.cpp,                      *)
(* terrain/live_obstacle_snapshot.cpp) and takes a physics step only when  *)
(* measurements cover it; else the vehicle is held                         *)
(* (simulation_host_ground_shadow.cpp, run_tick).  The client counts the   *)
(* revisions of its world and tells the server of each in a world notice,  *)
(* on the same connection as its replies (SimCoreClientComponent.cpp).     *)
(*                                                                         *)
(* Only the connection that owns the lifecycle is followed; a frame of any *)
(* other is rejected.  Its generation stands for the context of the        *)
(* measurements (play session, connection session, map), which no later    *)
(* connection repeats.  A request has a number no other in circulation     *)
(* has; it stands for the request's epoch and simulated time too, which a  *)
(* reply repeats with it.  Whether a measurement covers a query is left    *)
(* open: a step may rely on any that is usable.  NPC ground is off.        *)
(***************************************************************************)
EXTENDS Integers, Sequences, SequencesExt

CONSTANTS
    Lifetime,      \* of a request, and of what was measured for it
    Interval,      \* RequestInterval: between two requests
    Workloads      \* the bounds of a run, chosen at its start

\* The bounds of a run.
Workload ==
    [ gens : Nat,        \* on the connections that come to own the vehicle
      lapses : Nat,      \* on the Hellos a connection loses and repeats
      revisions : Nat \ {0},  \* on the revisions of a client's world
      frames : Nat \ {0},     \* on the frames on their way to the server
      time : Nat ]       \* on the server's clock

ASSUME MeasurementAssumption ==
    /\ Lifetime \in Nat \ {0} /\ Interval \in Nat \ {0}
    /\ Workloads \subseteq Workload

VARIABLES
    work,       \* the workload of this run
    now,        \* the server's steady clock
    session,    \* the connection of the lifecycle, as far as measuring goes
    probe,      \* live_ground_ and live_obstacles_
    published,  \* the requests in the world state broadcast last
    inbox,      \* frames of the connection on their way to the server
    client,     \* the client of the connection and its world
    left        \* history: when the client's world left each revision

vars == <<work, now, session, probe, published, inbox, client, left>>
serverVars == <<session, probe, published>>
clientVars == <<client, left>>

Kinds == {"ground", "obstacles"}
Revisions == 1..work.revisions
NoRequest == [id |-> 0, revision |-> 0, sentAt |-> 0]
NoPatch == [by |-> 0, revision |-> 0, until |-> 0, complete |-> FALSE]
NoRequests == [k \in Kinds |-> NoRequest]

FreshProbe ==
    [ context |-> 0, revision |-> 0, ready |-> FALSE, pending |-> NoRequest,
      installed |-> NoPatch, previous |-> NoPatch, nextSend |-> 0 ]

FreshProbes == [k \in Kinds |-> FreshProbe]

Init ==
    /\ work \in Workloads
    /\ now = 0
    /\ session = [gen |-> 0, state |-> "none", lapses |-> 0]
    /\ probe = FreshProbes
    /\ published = NoRequests
    /\ inbox = <<>>
    /\ client = [revision |-> 1, ready |-> FALSE, told |-> <<>>]
    /\ left = [r \in Revisions |-> 0]

-----------------------------------------------------------------------------
(* LiveGroundPatch and LiveObstacleSnapshot: what they have in common.     *)

ResetContext(p, context) ==
    IF context = p.context THEN p
                           ELSE [FreshProbe EXCEPT !.context = context]

\* observe_world_revision() returns true.
CanObserve(p, revision, ready) ==
    /\ revision >= p.revision
    /\ revision = p.revision => ready = p.ready

Observed(p, revision, ready) ==
    IF revision = p.revision
      THEN p
      ELSE [ FreshProbe EXCEPT !.context = p.context, !.revision = revision,
                               !.ready = ready ]

Overdue(request) == now - request.sentAt >= Lifetime

Unanswered(p) ==
    p.pending # NoRequest /\ ~Overdue(p.pending)

\* next_request_: a number that nothing in circulation refers to.
NewId(kind) ==
    LET frames == {f \in Range(inbox) : f.kind = kind}
    IN  CHOOSE id \in 1..(work.frames + 2) :
          /\ id \notin {published[kind].id, probe[kind].pending.id}
          /\ \A f \in frames : f.id # id

\* Mutant of MayAsk: nothing is asked before the first world notice.
MayAskWhenReady(kind, p) == p.context # 0 /\ p.ready

\* Ground is asked for before the client's world is known: the first request
\* makes the client send its first notice.
MayAsk(kind, p) ==
    /\ p.context # 0
    /\ kind = "obstacles" => p.ready

NextSend == now + Interval

Prepare(kind, p) ==
    IF Unanswered(p)
      THEN p
      ELSE IF MayAsk(kind, p) /\ now >= p.nextSend
        THEN [ p EXCEPT
                 !.pending  = [ id |-> NewId(kind), revision |-> p.revision,
                                sentAt |-> now ],
                 !.nextSend = NextSend ]
        ELSE [p EXCEPT !.pending = NoRequest]

CanInstall(p, reply) ==
    /\ p.ready
    /\ Unanswered(p)
    /\ reply.id = p.pending.id
    /\ reply.revision = p.revision
    /\ reply.revision = p.pending.revision

\* Mutant of ValidUntil: the life of a measurement begins when it arrives.
ValidFromArrival(p) == now + Lifetime

\* The life of a measurement begins with its request.
ValidUntil(p) == p.pending.sentAt + Lifetime

Installed(p, reply) ==
    [ p EXCEPT !.previous  = p.installed,
               !.installed = [ by |-> session.gen,
                               revision |-> p.pending.revision,
                               until |-> ValidUntil(p),
                               complete |-> reply.complete ],
               !.pending   = NoRequest ]

-----------------------------------------------------------------------------
(* Ticks, and the world states they broadcast.                             *)

\* live_ground_session_ready().  The session is what module SimulationHost
\* knows of it: "lost" is an owner whose lease ended with the hard deadline,
\* or an E-stop; "lapsed" one whose Hello was evicted from the table.
Ready(s) == s.state = "ready"

\* Mutant of Prepared: a session that is not ready leaves the obstacles alone.
PreparedGroundOnly(probes, s) ==
    IF Ready(s)
      THEN [ ground |-> Prepare("ground",
                          ResetContext(probes["ground"], s.gen)),
             obstacles |-> Prepare("obstacles", probes["obstacles"]) ]
      ELSE [probes EXCEPT !["ground"] = ResetContext(@, 0)]

\* Mutant of Prepared: the ground keeps a context it once has.
PreparedInOldContext(probes, s) ==
    LET ground == probes["ground"]
    IN  IF Ready(s)
          THEN [ ground |-> Prepare("ground",
                     ResetContext(ground, IF ground.context = 0
                                            THEN s.gen ELSE ground.context)),
                 obstacles |-> Prepare("obstacles", probes["obstacles"]) ]
          ELSE [k \in Kinds |-> ResetContext(probes[k], 0)]

\* prepare_live_ground() and prepare_live_obstacles(): the obstacles wait for
\* a world notice to learn their new context.
Prepared(probes, s) ==
    IF Ready(s)
      THEN [ ground |-> Prepare("ground",
                          ResetContext(probes["ground"], s.gen)),
             obstacles |-> Prepare("obstacles", probes["obstacles"]) ]
      ELSE [k \in Kinds |-> ResetContext(probes[k], 0)]

\* A world state is broadcast.
Publish(probes, s) ==
    /\ probe' = Prepared(probes, s)
    /\ published' = [ k \in Kinds |-> IF Ready(s) THEN probe'[k].pending
                                                  ELSE NoRequest ]

\* The physics step changes no state of this module.  A client that connects is sent a world state too.
Tick ==
    /\ Publish(probe, session)
    /\ UNCHANGED <<now, session, inbox, clientVars>>

Fresh(p) == {q \in {p.installed, p.previous} \ {NoPatch} : now < q.until}

\* The snapshots world_for_swept_body() may answer with.
Usable(p) ==
    {q \in Fresh(p) : p.ready /\ q.complete /\ q.revision = p.revision}

\* What the physics step of a tick now may rely on.  The wheels and the body
\* query the ground at many points; the obstacles are those of one snapshot.
\* Without one of the two the vehicle is held.
Measurements ==
    LET probes    == Prepared(probe, session)
        ground    == Fresh(probes["ground"])
        obstacles == Usable(probes["obstacles"])
    IN  IF Ready(session) /\ ground # {} /\ obstacles # {}
          THEN ground \cup obstacles
          ELSE {}

Advance ==
    /\ now < work.time
    /\ now' = now + 1
    /\ UNCHANGED <<serverVars, inbox, clientVars>>

-----------------------------------------------------------------------------
(* The session.                                                            *)

\* The new connection belongs to another client, or to one that counts and
\* announces its world anew.
NewClient ==
    /\ session.gen < work.gens
    /\ session' = [gen |-> session.gen + 1, state |-> "ready", lapses |-> 0]
    /\ inbox' = <<>>
    /\ client' \in [revision : Revisions, ready : BOOLEAN, told : {<<>>}]
    /\ left' = [r \in Revisions |-> 0]
    /\ UNCHANGED now

\* A reconnect of the running play leaves the measurements to the next tick.
Reconnect ==
    /\ session.state # "none"
    /\ NewClient
    /\ UNCHANGED <<probe, published>>

\* A new play is broadcast at once.
NewSimulation ==
    /\ NewClient
    /\ Publish([k \in Kinds |-> ResetContext(probe[k], 0)], session')

\* What the same tick broadcasts next is a Tick.
ReloadMap ==
    /\ session.state # "none"
    /\ session' = [session EXCEPT !.state = "none"]
    /\ probe' = [k \in Kinds |-> ResetContext(probe[k], 0)]
    /\ UNCHANGED <<now, published, inbox, clientVars>>

LoseSession ==
    /\ Ready(session)
    /\ session' = [session EXCEPT !.state = "lost"]
    /\ UNCHANGED <<now, probe, published, inbox, clientVars>>

EvictHello ==
    /\ Ready(session)
    /\ session.lapses < work.lapses
    /\ session' = [session EXCEPT !.state = "lapsed", !.lapses = @ + 1]
    /\ UNCHANGED <<now, probe, published, inbox, clientVars>>

Greet ==
    /\ session.state = "lapsed"
    /\ session' = [session EXCEPT !.state = "ready"]
    /\ UNCHANGED <<now, probe, published, inbox, clientVars>>

-----------------------------------------------------------------------------
(* Frames.  A frame of a session that is not ready is rejected.            *)

HandleNotice(notice) ==
    LET g == ResetContext(probe["ground"], session.gen)
        o == ResetContext(probe["obstacles"], session.gen)
        gCan == CanObserve(g, notice.revision, notice.ready)
        oCan == CanObserve(o, notice.revision, notice.ready)
    IN  probe' = [ ground    |-> IF gCan
                       THEN Observed(g, notice.revision, notice.ready)
                       ELSE g,
                   obstacles |-> IF gCan /\ oCan
                       THEN Observed(o, notice.revision, notice.ready)
                       ELSE o ]

\* Only a reply about ground brings its context up to date first.
HandleReply(reply) ==
    LET kind == reply.kind
        p    == IF kind = "ground"
                  THEN ResetContext(probe[kind], session.gen)
                  ELSE probe[kind]
    IN  probe' = [ probe EXCEPT ![kind] =
                     IF CanInstall(p, reply) THEN Installed(p, reply) ELSE p ]

HandleFrame ==
    /\ inbox # <<>>
    /\ inbox' = Tail(inbox)
    /\ IF ~Ready(session)
         THEN UNCHANGED probe
         ELSE IF Head(inbox).kind = "notice" THEN HandleNotice(Head(inbox))
                                             ELSE HandleReply(Head(inbox))
    /\ UNCHANGED <<now, session, published, clientVars>>

-----------------------------------------------------------------------------
(* The client.  A world state reaches it before the next one is broadcast: *)
(* what delay there is, its frames suffer in the inbox.                    *)

World == <<client.revision, client.ready>>

Send(frame) ==
    /\ Len(inbox) < work.frames
    /\ inbox' = Append(inbox, frame)

\* FWorldRevision::Poll finds another scene.
WorldChanges ==
    /\ client.revision < work.revisions
    /\ \E ready \in BOOLEAN :
         client' = [ client EXCEPT !.revision = @ + 1, !.ready = ready ]
    /\ left' = [left EXCEPT ![client.revision] = now]
    /\ UNCHANGED <<now, serverVars, inbox>>

\* The first notice waits for a request; a later one is sent when the world
\* changed, and again every tenth of a second.
SendNotice ==
    /\ client.told = <<>> => published["ground"] # NoRequest
    /\ Send([ kind |-> "notice", revision |-> client.revision,
              ready |-> client.ready ])
    /\ client' = [client EXCEPT !.told = World]
    /\ UNCHANGED <<now, serverVars, left>>

\* What is measured is the world of the last notice: the client looks at its
\* world, sends its notice and then its replies in one frame.  That it does
\* not answer a request twice is left open.
SendReply(kind) ==
    /\ client.ready
    /\ client.told = World
    /\ published[kind] # NoRequest
    /\ published[kind].revision = client.revision
    /\ \E complete \in IF kind = "ground" THEN {TRUE} ELSE BOOLEAN :
         Send([ kind |-> kind, id |-> published[kind].id,
                revision |-> client.revision, complete |-> complete ])
    /\ UNCHANGED <<now, serverVars, clientVars>>

-----------------------------------------------------------------------------
Step ==
    \/ Tick
    \/ Advance
    \/ Reconnect
    \/ NewSimulation
    \/ ReloadMap
    \/ LoseSession
    \/ EvictHello
    \/ Greet
    \/ HandleFrame
    \/ WorldChanges
    \/ SendNotice
    \/ \E kind \in Kinds : SendReply(kind)

Next == Step /\ UNCHANGED work

Spec == Init /\ [][Next]_vars

\* The server ticks and reads, and the client repeats its notice.  Nothing
\* makes it measure.
Fairness ==
    /\ WF_vars(HandleFrame /\ UNCHANGED work)
    /\ WF_vars(Tick /\ UNCHANGED work)
    /\ SF_vars(SendNotice /\ UNCHANGED work)

FairSpec == Spec /\ Fairness
-----------------------------------------------------------------------------
Requests ==
    [id : 0..(work.frames + 2), revision : 0..work.revisions, sentAt : 0..work.time]

Patches ==
    [ by : 0..work.gens, revision : 0..work.revisions, until : 0..work.time + Lifetime,
      complete : BOOLEAN ]

TypeOK ==
    /\ now \in 0..work.time
    /\ session \in [ gen : 0..work.gens, lapses : 0..work.lapses,
                     state : {"none", "ready", "lapsed", "lost"} ]
    /\ probe \in [ Kinds -> [ context : 0..work.gens, revision : 0..work.revisions,
                              ready : BOOLEAN, pending : Requests,
                              installed : Patches, previous : Patches,
                              nextSend : 0..work.time + Interval ] ]
    /\ published \in [Kinds -> Requests]
    /\ Len(inbox) <= work.frames
    /\ client.revision \in Revisions /\ client.ready \in BOOLEAN
    /\ client.told # <<>> => client.told \in Revisions \X BOOLEAN
    /\ left \in [Revisions -> 0..work.time]

\* A physics step relies on one world: all its measurements, of ground and of
\* obstacles, were made by the client that owns the vehicle now, and are of
\* the revision that client announced last.
StepsUseOneWorld ==
    \A p \in Measurements : /\ p.by = session.gen
                            /\ p.revision = probe["ground"].revision

\* And that world is recent, though notices may be late: it is still the
\* client's world, or was it less than a lifetime ago.
WorldIsRecent ==
    \A p \in Measurements : \/ p.revision = client.revision
                            \/ now - left[p.revision] < Lifetime

\* A world notice is taken by both or by none: as long as ground and
\* obstacles belong to one context they know the same revision.
RevisionsAgree ==
    probe["ground"].context = probe["obstacles"].context =>
      /\ probe["ground"].revision = probe["obstacles"].revision
      /\ probe["ground"].ready = probe["obstacles"].ready

\* Server and client do not wait for each other: while the session stays
\* ready the server comes to know the client's world.  (The client says
\* nothing before it is asked, and only a notice makes an answer welcome.)
WorldBecomesKnown ==
    <>[]Ready(session) =>
      <>[](\A k \in Kinds : <<probe[k].revision, probe[k].ready>> = World)
=============================================================================
