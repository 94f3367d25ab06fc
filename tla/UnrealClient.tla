---------------------------- MODULE UnrealClient ----------------------------
(***************************************************************************)
(* The network client of the Unreal side (USimCoreClientComponent): which  *)
(* connection it holds, which play, vehicle and map it believes in, and    *)
(* what it shows of the world states it receives.                          *)
(*                                                                         *)
(* Everything here runs on the game thread.  A socket's delegates may fire *)
(* on another thread: they carry the generation of their socket and queue  *)
(* a task for the game thread, which may run after the socket was replaced *)
(* ("tasks").  Generations of the sockets also name their connections and  *)
(* SessionIds, which are made together.                                    *)
(*                                                                         *)
(* Abstracted: the messages parse and carry the capabilities that the      *)
(* server of this repository announces; the settings and the vehicle       *)
(* catalog of the client are valid, and a socket can be made; the age of a *)
(* state (100 ms), the reconnect delay and the 5 s for a loadout are not   *)
(* measured: what waits for them may happen at any time.                   *)
(***************************************************************************)
EXTENDS Naturals, SequencesExt

CONSTANTS
    Classes, Loadouts,    \* vehicle classes and their loadouts
    FirstClass, NoLoadout,  \* SelectedVehicleClass; the empty loadout
    Maps, FirstMap,       \* checksums of map packages
    NotReady,             \* no checksum: the package does not verify
    MaxGen,               \* bound on the sockets of a run
    MaxTasks, MaxUp, MaxDown  \* bounds on the queues

Vehicles == Classes \X Loadouts
Gens == 1..MaxGen

ASSUME ClientAssumption ==
    /\ FirstClass \in Classes /\ NoLoadout \in Loadouts
    /\ FirstMap \in Maps /\ NotReady \notin Maps
    /\ {MaxGen, MaxTasks, MaxUp} \subseteq Nat /\ MaxDown \in Nat \ {0}

VARIABLES
    conn,      \* ConnectionState
    auto,      \* bAutoReconnectEnabled
    gen,       \* SocketGeneration
    bound,     \* Socket is held and its delegates are bound
    shake,     \* bProtocolHandshakeComplete, bMapHandshakeComplete
    mapId,     \* MapPackageChecksum
    play,      \* PlaySessionId: the fresh ones are numbered
    choice,    \* SelectedVehicleClass, SelectedLoadoutId
    pending,   \* bLoadoutPending
    latest,    \* LatestState while bHasState
    cache,     \* GlobalEstopHealthCache
    traffic,   \* bTrafficSnapshotAccepted
    proxies,   \* the stamps of RuntimeEntityStates
    tasks,     \* what the delegates have queued for the game thread
    disk,      \* external: the map package the manifest on disk describes
    link,      \* external: the transport of each socket
    down, up,  \* external: messages under way to and from the client
    newest,    \* history: the newest world state taken from this socket
    reason     \* history: why the client gave up, or may not get its play

clientVars == << conn, auto, gen, bound, shake, mapId, play, choice, pending,
                 latest, cache, traffic, proxies, newest, reason >>
netVars == <<link, down, up>>

None == [seq |-> 0]
NoCache == [gen |-> 0, map |-> NotReady, last |-> 0, estop |-> FALSE]
NoProxies == [gen |-> 0, play |-> 0, map |-> NotReady]
NoShake == [hello |-> FALSE, map |-> FALSE]

ClientInit ==
    /\ conn = "Disconnected"
    /\ auto = FALSE
    /\ gen = 0
    /\ bound = FALSE
    /\ shake = NoShake
    /\ mapId = NotReady
    /\ play = 1
    /\ choice = <<FirstClass, NoLoadout>>
    /\ pending = FALSE
    /\ latest = None
    /\ cache = NoCache
    /\ traffic = FALSE
    /\ proxies = NoProxies
    /\ tasks = <<>>
    /\ disk = FirstMap
    /\ link = [g \in Gens |-> "none"]
    /\ down = [g \in Gens |-> <<>>]
    /\ up = [g \in Gens |-> <<>>]
    /\ newest = None
    /\ reason = "none"

-----------------------------------------------------------------------------
(* The parts that the handlers are made of.                                *)

\* IsConnected().
IsConnected ==
    conn = "Connected" /\ bound /\ gen \in Gens /\ link[gen] = "open"

\* ReleaseSocket(): the delegates are unbound, so that what is still under
\* way is lost; tasks already queued stay.
Released ==
    [g \in Gens |-> IF g = gen /\ bound THEN "closed" ELSE link[g]]

Dropped == [g \in Gens |-> IF g = gen THEN <<>> ELSE down[g]]

\* ResetReceivedState(): no state, no actors, no cached health.
ForgetReceived ==
    /\ latest' = None
    /\ cache' = NoCache
    /\ traffic' = FALSE
    /\ proxies' = NoProxies
    /\ newest' = None

\* Mutant of ForgetConnection: the received state survives a new socket.
ForgetHandshakes ==
    /\ shake' = NoShake
    /\ UNCHANGED <<latest, cache, traffic, proxies, newest>>

\* ResetConnectionSession().
ForgetConnection == shake' = NoShake /\ ForgetReceived

\* ScheduleReconnect() keeps socket, state and handshakes.
AfterSchedule(on) == IF on THEN "WaitingToReconnect" ELSE "Disconnected"

HideForReconnect == proxies' = NoProxies /\ cache' = NoCache

\* Give up: no reconnect, the socket is released, its generation is over.
GiveUp(why) ==
    /\ auto' = FALSE
    /\ conn' = "Incompatible"
    /\ gen' = gen + 1
    /\ bound' = FALSE
    /\ link' = Released
    /\ down' = Dropped
    /\ ForgetReceived
    /\ reason' = why

-----------------------------------------------------------------------------
(* Connecting.  The play is p and reconnecting is enabled or not (on) when *)
(* the attempt starts, which may be in the middle of a selection.          *)

\* The manifest does not verify (a bake is writing it): the checksum known
\* so far is kept and the attempt is repeated later.
MapNotReady(p, on) ==
    /\ disk = NotReady
    /\ play' = p
    /\ conn' = AfterSchedule(on)
    /\ HideForReconnect
    /\ UNCHANGED << gen, bound, shake, mapId, latest, traffic, netVars,
                    newest >>

\* Mutant of PlayForMap: an attempt keeps the play over a changed map.
SamePlay(p) == p

\* A changed map package is a new play.
PlayForMap(p) == IF mapId \notin {NotReady, disk} THEN p + 1 ELSE p

\* A new socket replaces the old one; the play is p from now on.
Dial(p) ==
    /\ disk # NotReady
    /\ gen < MaxGen
    /\ mapId' = disk
    /\ play' = p
    /\ gen' = gen + 1
    /\ ForgetConnection
    /\ bound' = TRUE
    /\ link' = [Released EXCEPT ![gen + 1] = "dialing"]
    /\ down' = Dropped
    /\ conn' = "Connecting"
    /\ UNCHANGED up

StartConnectionAttempt(p, on) == MapNotReady(p, on) \/ Dial(PlayForMap(p))

\* A history of the next action: a client that has had a socket takes up a
\* map that is not the one it knew, and keeps its play.
ReasonToConnect == IF gen > 0 /\ mapId # disk THEN "connect" ELSE reason

\* BeginPlay() and the Blueprint function.  It takes up the checksum on disk
\* before the attempt compares it with the one before, so that for the
\* attempt the map is never a changed one: PlayForMap has no part in this.
\* That both read the same manifest is the one assumption here.
Connect ==
    /\ conn \notin {"Connecting", "Handshaking", "Connected"}
    /\ IF disk = NotReady
         THEN /\ auto' = FALSE
              /\ conn' = "Incompatible"
              /\ mapId' = NotReady
              /\ reason' = "map"
              /\ UNCHANGED << gen, bound, shake, play, latest, cache,
                              traffic, proxies, newest, netVars >>
         ELSE /\ auto' = TRUE
              /\ Dial(play)
              /\ reason' = ReasonToConnect
    /\ UNCHANGED <<choice, pending, tasks, disk>>

Disconnect ==
    /\ auto' = FALSE
    /\ conn' = "Disconnected"
    /\ gen' = gen + 1
    /\ bound' = FALSE
    /\ link' = Released
    /\ down' = Dropped
    /\ ForgetReceived
    /\ UNCHANGED << shake, mapId, play, choice, pending, up, tasks, disk,
                    reason >>

\* A fresh PlaySessionId.
NextPlay == play + 1

\* Another class resets the loadout and starts a new play.
SelectVehicleClass(c) ==
    /\ c # choice[1]
    /\ choice' = <<c, NoLoadout>>
    /\ pending' = FALSE
    /\ auto' = TRUE
    /\ StartConnectionAttempt(NextPlay, TRUE)
    /\ UNCHANGED <<tasks, disk, reason>>

\* Another loadout only with a fresh active state, and one at a time.  The
\* state must also show the vehicle at rest, which may be true no more.
SelectLoadout(l) ==
    /\ l # choice[2]
    /\ ~pending
    /\ shake.hello
    /\ conn = "Connected"
    /\ latest # None
    /\ latest.health = "active"
    /\ choice' = <<choice[1], l>>
    /\ pending' = TRUE
    /\ auto' = TRUE
    /\ StartConnectionAttempt(NextPlay, TRUE)
    /\ UNCHANGED <<tasks, disk, reason>>

-----------------------------------------------------------------------------
(* TickComponent.                                                          *)

\* TickConnection(), first half: nobody confirmed the loadout for 5 s.
LoadoutTimeout ==
    /\ auto /\ pending /\ shake.map /\ conn = "Connected"
    /\ gen' = gen + 1
    /\ bound' = FALSE
    /\ link' = Released
    /\ down' = Dropped
    /\ ForgetConnection
    /\ conn' = AfterSchedule(auto)
    /\ UNCHANGED << auto, mapId, play, choice, pending, up, tasks, disk,
                    reason >>

\* TickConnection(), second half.
Reconnect ==
    /\ auto /\ conn = "WaitingToReconnect"
    /\ StartConnectionAttempt(play, auto)
    /\ UNCHANGED <<auto, choice, pending, tasks, disk, reason>>

Send(ms) == up' = [up EXCEPT ![gen] = @ \o ms]

HelloFrame == [kind |-> "hello", map |-> mapId]
ResetFrame == [kind |-> "reset", map |-> mapId, play |-> play,
               vehicle |-> choice]
ControlFrame == [kind |-> "control", map |-> mapId]

\* TickControlTransmission(): the heartbeat.
SendControl ==
    /\ IsConnected /\ shake.map
    /\ Len(up[gen]) < MaxUp
    /\ Send(<<ControlFrame>>)
    /\ UNCHANGED <<clientVars, tasks, disk, link, down>>

\* TickRuntimeProxyActors(): another play, map or socket hides the NPCs.
TickRuntimeProxyActors ==
    /\ proxies # NoProxies
    /\ \/ latest = None \/ ~IsConnected \/ ~shake.hello \/ ~shake.map
       \/ proxies # [gen |-> gen, play |-> play, map |-> mapId]
    /\ proxies' = NoProxies
    /\ UNCHANGED << conn, auto, gen, bound, shake, mapId, play, choice,
                    pending, latest, cache, traffic, newest, reason,
                    tasks, disk, netVars >>

-----------------------------------------------------------------------------
(* The delegates, and the tasks they queue.                                *)

\* A message is handed to the delegate of the current socket.
Deliver ==
    /\ bound /\ gen \in Gens
    /\ down[gen] # <<>>
    /\ Len(tasks) < MaxTasks
    /\ tasks' = Append(tasks, [gen |-> gen, msg |-> Head(down[gen])])
    /\ down' = [down EXCEPT ![gen] = Tail(@)]
    /\ link' = IF Head(down[gen]).kind = "closed"
                 THEN [link EXCEPT ![gen] = "closed"] ELSE link
    /\ UNCHANGED <<clientVars, disk, up>>

\* IsCurrentSocketGeneration().
IsCurrent(t) == t.gen = gen

ApplyConnected(m) ==
    /\ m.kind = "connected"
    /\ IF conn = "Connecting"
         THEN /\ conn' = "Handshaking"
              /\ IF link[gen] = "open" THEN Send(<<HelloFrame>>)
                                       ELSE UNCHANGED up
         ELSE UNCHANGED <<conn, up>>
    /\ UNCHANGED << auto, gen, bound, shake, mapId, play, choice, pending,
                    latest, cache, traffic, proxies, newest, reason,
                    link, down >>

\* ApplyConnectionError() and ApplyClosed().
ApplyClosed(m) ==
    /\ m.kind = "closed"
    /\ conn' = AfterSchedule(auto)
    /\ HideForReconnect
    /\ UNCHANGED << auto, gen, bound, shake, mapId, play, choice, pending,
                    latest, traffic, newest, reason, netVars >>

Handshaken == conn \in {"Handshaking", "Connected"}

\* The server's Hello: its map must be the client's.
ApplyHello(m) ==
    /\ m.kind = "hello"
    /\ IF m.map = mapId
         THEN /\ shake' = [shake EXCEPT !.hello = TRUE]
              /\ UNCHANGED << conn, auto, gen, bound, latest, cache, traffic,
                              proxies, newest, reason, link, down >>
         ELSE GiveUp("map") /\ UNCHANGED shake
    /\ UNCHANGED <<mapId, play, choice, pending, up>>

\* GlobalEstopHealthCache.Observe(): newer than anything on this socket.
Newer(m) ==
    /\ gen # 0 /\ shake.hello
    /\ cache.gen \in {0, gen}
    /\ cache.map \in {NotReady, mapId}
    /\ m.seq > cache.last

Observed(m) == [ gen |-> gen, map |-> mapId, last |-> m.seq,
                 estop |-> m.health = "estop" ]

\* The first state with the right map ends the handshake: the client asks
\* for its play, and a control frame follows.
CompleteHandshake ==
    /\ shake' = [shake EXCEPT !.map = TRUE]
    /\ IF shake.map \/ link[gen] # "open"
         THEN UNCHANGED up ELSE Send(<<ResetFrame, ControlFrame>>)

\* Mutant of OfThisPlay: the play of a state is not compared.
OfAnyPlay(m) == m.play # 0

\* The play fence, and the order of the states that pass it.
OfThisPlay(m) ==
    m.play = play

AcceptState(m) ==
    /\ latest' = m
    /\ pending' = FALSE
    /\ traffic' = TRUE
    /\ proxies' = [gen |-> gen, play |-> play, map |-> mapId]

\* A state that is not accepted: it may be observed by the health cache.
PassOver ==
    /\ CompleteHandshake
    /\ conn' = "Connected"
    /\ UNCHANGED << auto, gen, bound, mapId, play, choice, pending, latest,
                    proxies, reason, link, down >>

Observe(m) == cache' = Observed(m) /\ newest' = m

ApplyState(m) ==
    /\ m.kind = "state"
    /\ IF ~shake.hello
         THEN UNCHANGED <<clientVars, netVars>>
       ELSE IF m.map # mapId
         THEN /\ GiveUp("map")
              /\ UNCHANGED <<shake, mapId, play, choice, pending, up>>
       ELSE IF ~Newer(m)
         THEN PassOver /\ UNCHANGED <<cache, traffic, newest>>
       ELSE IF ~OfThisPlay(m)
         THEN PassOver /\ Observe(m) /\ traffic' = FALSE
       ELSE IF latest # None /\ m.seq <= latest.seq
         THEN PassOver /\ Observe(m) /\ UNCHANGED traffic
       ELSE IF m.vehicle # choice
         THEN /\ CompleteHandshake
              /\ GiveUp("vehicle")
              /\ UNCHANGED <<mapId, play, choice, pending>>
         ELSE /\ CompleteHandshake
              /\ conn' = "Connected"
              /\ Observe(m)
              /\ AcceptState(m)
              /\ UNCHANGED << auto, gen, bound, mapId, play, choice, reason,
                              link, down >>

\* A task of an earlier socket, and a message outside the handshake and the
\* connection, is dropped.
RunTask ==
    /\ tasks # <<>>
    /\ tasks' = Tail(tasks)
    /\ LET t == Head(tasks)
           m == t.msg
       IN  IF ~IsCurrent(t) \/ (m.kind \in {"hello", "state"} /\ ~Handshaken)
             THEN UNCHANGED <<clientVars, netVars>>
             ELSE \/ ApplyConnected(m) \/ ApplyClosed(m)
                  \/ ApplyHello(m) \/ ApplyState(m)
    /\ UNCHANGED disk

-----------------------------------------------------------------------------
(* What the player sees.                                                   *)

Ready == IsConnected /\ shake.hello /\ shake.map

\* CanUsePlaySnapshot(): the state shown is the newest one received.
CanUsePlaySnapshot == cache.gen # 0 /\ latest.seq = cache.last

\* Mutant of ShownHealth: the last state of this play is good enough.
HealthOfLatest ==
    IF ~Ready THEN "unknown"
    ELSE IF latest # None THEN latest.health
    ELSE "unknown"

\* EvaluateHealthDisplay(): the status line of the HUD.
ShownHealth ==
    IF ~Ready THEN "unknown"
    ELSE IF cache.estop THEN "estop"
    ELSE IF latest # None /\ CanUsePlaySnapshot THEN latest.health
    ELSE "unknown"

\* TickTrafficSignals(): the lights follow the server, else they are red.
SignalsFollow == Ready /\ ~cache.estop /\ traffic /\ latest # None

=============================================================================
