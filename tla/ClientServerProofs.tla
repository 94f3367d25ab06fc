------------------------- MODULE ClientServerProofs -------------------------
(***************************************************************************)
(* What the client shows and when it gives up, for every bound on sockets, *)
(* queues and disturbances, and for all sets of vehicles and maps.         *)
(*                                                                         *)
(* Two facts carry the argument.  A play belongs to one vehicle: whatever  *)
(* is under way, in either direction, or known to the server tells of the  *)
(* client's play with the client's vehicle, or of an earlier play          *)
(* (OfOnePlay).  And what the client shows is what the health cache has    *)
(* observed on this socket, which is empty as long as the client has not   *)
(* seen a state on it (ShownFits).                                         *)
(***************************************************************************)
EXTENDS ClientServer, SequenceTheorems, TLAPS

HealthStates ==
    { "estop", "awaiting_reset", "reconnect_required", "awaiting_control",
      "safe_stop", "active" }

Checksums == Maps \cup {NotReady}

StateMessages ==
    [ kind : {"state"}, seq : Nat \ {0}, map : Maps, play : Nat,
      vehicle : Vehicles, health : HealthStates ]

Messages ==
    [kind : {"connected"}] \cup [kind : {"hello"}, map : Maps]
      \cup [kind : {"closed"}] \cup StateMessages

Resets ==
    [kind : {"reset"}, map : Checksums, play : Nat, vehicle : Vehicles]

Frames ==
    [kind : {"hello"}, map : Checksums] \cup Resets
      \cup [kind : {"control"}, map : Checksums]

\* The client's play has the vehicle the client chose, and none is newer.
OfOnePlay(m) == m.play <= play /\ (m.play = play => m.vehicle = choice)

FitMessages == {m \in Messages : m.kind = "state" => OfOnePlay(m)}
FitFrames == {m \in Frames : m.kind = "reset" => OfOnePlay(m)}
FitTasks == [gen : Gens, msg : FitMessages]

LifeRecord ==
    [active : BOOLEAN, gen : 0..MaxGen, play : Nat, vehicle : Vehicles]

\* What is under way fits the client's play.
TrafficFits ==
    /\ down \in [Gens -> Seq(FitMessages)]
    /\ up \in [Gens -> Seq(FitFrames)]
    /\ tasks \in Seq(FitTasks)

\* What the server knows does, too.
ServerFits == sMap \in Maps /\ life \in LifeRecord /\ OfOnePlay(life)

\* The rest of the network and of the server has its types.
ServerTypes ==
    /\ link \in [Gens -> {"none", "dialing", "open", "closed"}]
    /\ Len(tasks) <= MaxTasks
    /\ served \subseteq Gens /\ greeted \subseteq Gens
    /\ lease \in {"none", "armed", "safe", "retired"}
    /\ told \in StateMessages \cup {None} /\ told.seq \in 0..MaxSeq

ClientTypes ==
    /\ conn \in { "Disconnected", "WaitingToReconnect", "Connecting",
                  "Handshaking", "Connected", "Incompatible" }
    /\ auto \in BOOLEAN /\ bound \in BOOLEAN /\ pending \in BOOLEAN
    /\ traffic \in BOOLEAN
    /\ gen \in Nat /\ play \in Nat \ {0} /\ choice \in Vehicles
    /\ mapId \in Checksums
    /\ cache.gen \in {0, gen} /\ cache.estop \in BOOLEAN
    /\ latest \in StateMessages \cup {None}
    /\ newest \in StateMessages \cup {None}

\* Nothing is shown before the first state of a socket.
NothingShown ==
    /\ latest = None /\ newest = None /\ cache = NoCache
    /\ proxies = NoProxies /\ traffic = FALSE

\* What is shown is of this play, and is what was observed.
ShownFits ==
    /\ latest # None =>
         /\ latest.play = play /\ latest.map = mapId
         /\ latest.vehicle = choice
         /\ newest # None /\ latest.seq <= newest.seq
         /\ latest.seq = newest.seq => latest = newest
    /\ newest = None => cache = NoCache
    /\ newest # None => cache = Observed(newest)
    /\ traffic = TRUE => latest = newest
    /\ proxies # NoProxies =>
         proxies = [gen |-> gen, play |-> play, map |-> mapId]

ClientFits ==
    /\ conn \in {"Connecting", "Handshaking"} => NothingShown
    /\ conn = "Connected" => ShownFits
    /\ reason # "vehicle"

ClientServerInv ==
    /\ ClientTypes /\ ServerTypes /\ disk \in Checksums
    /\ ServerFits /\ TrafficFits /\ ClientFits

-----------------------------------------------------------------------------
(* Sequences.                                                              *)

LEMMA SeqWiden ==
    ASSUME NEW S, NEW T, S \subseteq T, NEW s \in Seq(S)
    PROVE  s \in Seq(T)
PROOF
  <1>1. /\ Len(s) \in Nat /\ s \in [1..Len(s) -> S]
    BY SeqDef, LenProperties
  <1>2. s \in [1..Len(s) -> T]
    BY <1>1
  <1> QED BY <1>1, <1>2, IsASeq

LEMMA LastReplaced ==
    ASSUME NEW S, NEW s \in Seq(S), NEW x \in S, s # <<>>
    PROVE  [s EXCEPT ![Len(s)] = x] \in Seq(S)
PROOF
  BY ExceptSeq, LenProperties, EmptySeq

\* The queues of other connections keep their messages.
LEMMA QueueChanged ==
    ASSUME NEW S, NEW f \in [Gens -> Seq(S)], NEW g, NEW q \in Seq(S)
    PROVE  [f EXCEPT ![g] = q] \in [Gens -> Seq(S)]
PROOF
  OBVIOUS

-----------------------------------------------------------------------------
(* The play.                                                               *)

\* Another vehicle is a new play, and no play comes back.
PlayGrows ==
    /\ play' \in Nat \ {0} /\ choice' \in Vehicles
    /\ play' >= play
    /\ play' = play => choice' = choice

LEMMA TrafficStaysFit ==
    ASSUME play \in Nat \ {0}, PlayGrows,
           down' \in [Gens -> Seq(FitMessages)],
           up' \in [Gens -> Seq(FitFrames)],
           tasks' \in Seq(FitTasks)
    PROVE  TrafficFits'
PROOF
  <1>1. \A m : m.play \in Nat /\ m.play <= play
                 /\ (m.play = play => m.vehicle = choice)
                 => m.play <= play' /\ (m.play = play' => m.vehicle = choice')
    BY DEF PlayGrows
  <1>2. FitMessages \subseteq FitMessages'
    <2>1. \A m \in Messages : m.kind = "state" => m.play \in Nat
      BY DEF Messages, StateMessages
    <2> QED BY <1>1, <2>1 DEF FitMessages, OfOnePlay
  <1>3. FitFrames \subseteq FitFrames'
    <2>1. \A m \in Frames : m.kind = "reset" => m.play \in Nat
      BY DEF Frames, Resets
    <2> QED BY <1>1, <2>1 DEF FitFrames, OfOnePlay
  <1>4. FitTasks \subseteq FitTasks'
    BY <1>2 DEF FitTasks
  <1>5. \A g \in Gens : down'[g] \in Seq(FitMessages')
    BY <1>2, SeqWiden
  <1>6. \A g \in Gens : up'[g] \in Seq(FitFrames')
    BY <1>3, SeqWiden
  <1>7. tasks' \in Seq(FitTasks')
    BY <1>4, SeqWiden
  <1> QED BY <1>5, <1>6, <1>7 DEF TrafficFits

\* What the server knows stays fit while only the client moves.
LEMMA ServerStaysFit ==
    ASSUME play \in Nat \ {0}, PlayGrows, ServerFits,
           UNCHANGED <<sMap, life>>
    PROVE  ServerFits'
PROOF
  <1>1. life.play \in Nat
    BY DEF ServerFits, LifeRecord
  <1> QED BY <1>1 DEF ServerFits, OfOnePlay, PlayGrows

\* A step of the server or of the network leaves the client as it is.
LEMMA ClientStays ==
    ASSUME ClientTypes, ClientFits, UNCHANGED clientVars
    PROVE  ClientTypes' /\ ClientFits' /\ PlayGrows
PROOF
  <1>1. ClientTypes'
    BY DEF ClientTypes, clientVars, StateMessages
  <1>2. ClientFits'
    BY DEF ClientFits, NothingShown, ShownFits, clientVars, Observed
  <1>3. PlayGrows
    BY DEF PlayGrows, ClientTypes, clientVars
  <1> QED BY <1>1, <1>2, <1>3

-----------------------------------------------------------------------------
(* The steps of the server and of the network.                             *)

QueuesFit ==
    /\ down' \in [Gens -> Seq(FitMessages)]
    /\ up' \in [Gens -> Seq(FitFrames)]
    /\ tasks' \in Seq(FitTasks)

LifeFits ==
    /\ sMap' \in Maps /\ life' \in LifeRecord
    /\ life'.play <= play
    /\ life'.play = play => life'.vehicle = choice

LEMMA ServerMoves ==
    ASSUME ClientServerInv, UNCHANGED clientVars, disk' \in Checksums,
           ServerTypes', LifeFits, QueuesFit
    PROVE  ClientServerInv'
PROOF
  <1>1. ClientTypes' /\ ClientFits' /\ PlayGrows
    BY ClientStays DEF ClientServerInv
  <1>2. play' = play /\ choice' = choice
    BY DEF clientVars
  <1>3. ServerFits'
    BY <1>2 DEF ServerFits, LifeFits, OfOnePlay
  <1>4. TrafficFits'
    BY <1>1, TrafficStaysFit DEF QueuesFit, ClientServerInv, ClientTypes
  <1> QED BY <1>1, <1>3, <1>4 DEF ClientServerInv

LEMMA LifeStays ==
    ASSUME ServerFits, UNCHANGED <<sMap, life>>
    PROVE  LifeFits
PROOF
  BY DEF ServerFits, LifeFits, OfOnePlay

\* Sessions that are closed get a last message at most, and are not read.
LEMMA SessionsCloseFit ==
    ASSUME TrafficFits, NEW gs, CloseSessions(gs), UNCHANGED tasks
    PROVE  QueuesFit
PROOF
  <1>1. Closed \in FitMessages
    BY DEF Closed, FitMessages, Messages
  <1>2. \A g \in Gens : Append(down[g], Closed) \in Seq(FitMessages)
    BY <1>1, AppendProperties DEF TrafficFits
  <1>3. down' \in [Gens -> Seq(FitMessages)]
    BY <1>2 DEF CloseSessions, TrafficFits
  <1>4. <<>> \in Seq(FitFrames)
    BY EmptySeq
  <1>5. up' \in [Gens -> Seq(FitFrames)]
    BY <1>4 DEF CloseSessions, TrafficFits
  <1> QED BY <1>3, <1>5 DEF QueuesFit, TrafficFits

\* A frame that is read belongs to the frames under way, and the rest stays.
LEMMA FrameTaken ==
    ASSUME TrafficFits, NEW g \in Gens, NEW kind, TakeFrame(g, kind), Pop(g),
           UNCHANGED <<down, tasks>>
    PROVE  QueuesFit /\ Head(up[g]) \in FitFrames
PROOF
  <1>1. up[g] \in Seq(FitFrames) /\ up[g] # <<>>
    BY DEF TrafficFits, TakeFrame
  <1>2. Head(up[g]) \in FitFrames /\ Tail(up[g]) \in Seq(FitFrames)
    BY <1>1, HeadTailProperties
  <1>3. up' \in [Gens -> Seq(FitFrames)]
    BY <1>2 DEF Pop, TrafficFits
  <1> QED BY <1>2, <1>3 DEF QueuesFit, TrafficFits

LEMMA AcceptInv ==
    ASSUME ClientServerInv, NEW g \in Gens, Accept(g)
    PROVE  ClientServerInv'
PROOF
  <1>1. LifeFits
    BY LifeStays DEF Accept, ClientServerInv
  <1>2. QueuesFit
    <2>1. /\ [kind |-> "connected"] \in FitMessages
          /\ [kind |-> "hello", map |-> sMap] \in FitMessages
      BY DEF FitMessages, Messages, ClientServerInv, ServerFits
    <2>2. << [kind |-> "connected"], [kind |-> "hello", map |-> sMap] >>
            \in Seq(FitMessages)
      BY <2>1
    <2> QED BY <2>2 DEF QueuesFit, Accept, ClientServerInv, TrafficFits
  <1>3. ServerTypes'
    <2>1. None.seq = 0
      BY DEF None
    <2> QED BY <2>1, BoundsAssumption
            DEF Accept, ClientServerInv, ServerTypes
  <1> QED BY <1>1, <1>2, <1>3, ServerMoves DEF Accept, ClientServerInv

\* A world state that is told is of the play the server runs.
LEMMA WorldFits ==
    ASSUME ServerFits, ServerTypes, told.seq < MaxSeq
    PROVE  /\ World \in FitMessages /\ World \in StateMessages
           /\ World.seq \in 0..MaxSeq /\ World.kind = "state"
PROOF
  <1>1. Health \in HealthStates
    BY DEF Health, HealthStates
  <1>2. told.seq + 1 \in Nat \ {0} /\ told.seq + 1 \in 0..MaxSeq
    BY BoundsAssumption DEF ServerTypes
  <1>3. World \in StateMessages
    BY <1>1, <1>2 DEF World, StateMessages, ServerFits, LifeRecord
  <1>4. OfOnePlay(World)
    BY DEF World, OfOnePlay, ServerFits
  <1> QED BY <1>2, <1>3, <1>4 DEF FitMessages, Messages, World

LEMMA PublishInv ==
    ASSUME ClientServerInv, NEW g \in Gens, Publish(g)
    PROVE  ClientServerInv'
PROOF
  <1>1. LifeFits
    BY LifeStays DEF Publish, ClientServerInv, serverVars
  <1>2. /\ World \in FitMessages /\ World \in StateMessages
        /\ World.seq \in 0..MaxSeq
    BY WorldFits DEF Publish, ClientServerInv
  <1>3. ServerTypes'
    BY <1>2 DEF Publish, ClientServerInv, ServerTypes, serverVars
  <1>4. QueuesFit
    <2>1. down[g] \in Seq(FitMessages)
      BY DEF ClientServerInv, TrafficFits
    <2>2. Append(down[g], World) \in Seq(FitMessages)
      BY <1>2, <2>1, AppendProperties
    <2>3. ASSUME Len(down[g]) >= MaxDown, down[g][Len(down[g])].kind = "state"
          PROVE  [down[g] EXCEPT ![Len(down[g])] = World] \in Seq(FitMessages)
      <3>1. down[g] # <<>>
        BY <2>3, <2>1, EmptySeq, ClientAssumption
      <3> QED BY <3>1, <1>2, <2>1, LastReplaced
    <2>4. \E q \in Seq(FitMessages) : down' = [down EXCEPT ![g] = q]
      <3>1. CASE /\ Len(down[g]) >= MaxDown
                 /\ down[g][Len(down[g])].kind = "state"
        BY <3>1, <2>3 DEF Publish
      <3>2. CASE ~ /\ Len(down[g]) >= MaxDown
                   /\ down[g][Len(down[g])].kind = "state"
        BY <3>2, <2>2 DEF Publish
      <3> QED BY <3>1, <3>2
    <2>5. down' \in [Gens -> Seq(FitMessages)]
      BY <2>4, QueueChanged DEF ClientServerInv, TrafficFits
    <2> QED BY <2>5 DEF QueuesFit, Publish, ClientServerInv, TrafficFits
  <1> QED BY <1>1, <1>3, <1>4, ServerMoves DEF Publish, ClientServerInv

LEMMA NoticeClosedInv ==
    ASSUME ClientServerInv, NEW g \in Gens, NoticeClosed(g)
    PROVE  ClientServerInv'
PROOF
  <1>1. LifeFits
    BY LifeStays DEF NoticeClosed, ClientServerInv
  <1>2. QueuesFit
    <2>1. <<>> \in Seq(FitFrames)
      BY EmptySeq
    <2> QED BY <2>1 DEF QueuesFit, NoticeClosed, ClientServerInv, TrafficFits
  <1>3. ServerTypes'
    BY DEF NoticeClosed, ClientServerInv, ServerTypes
  <1> QED BY <1>1, <1>2, <1>3, ServerMoves DEF NoticeClosed, ClientServerInv

LEMMA HandleHelloInv ==
    ASSUME ClientServerInv, NEW g \in Gens, HandleHello(g)
    PROVE  ClientServerInv'
PROOF
  <1>1. LifeFits
    BY LifeStays DEF HandleHello, ClientServerInv
  <1>2. QueuesFit
    <2>1. CASE Head(up[g]).map = sMap
      BY <2>1, FrameTaken DEF HandleHello, ClientServerInv
    <2>2. CASE Head(up[g]).map # sMap
      BY <2>2, SessionsCloseFit DEF HandleHello, ClientServerInv
    <2> QED BY <2>1, <2>2
  <1>3. ServerTypes'
    BY DEF HandleHello, ClientServerInv, ServerTypes
  <1> QED BY <1>1, <1>2, <1>3, ServerMoves DEF HandleHello, ClientServerInv

\* A reset that is accepted makes the server run the play it asks for.
LEMMA HandleResetInv ==
    ASSUME ClientServerInv, NEW g \in Gens, HandleReset(g)
    PROVE  ClientServerInv'
PROOF
  <1>1. QueuesFit /\ Head(up[g]) \in FitFrames
    BY FrameTaken DEF HandleReset, ClientServerInv
  <1>2. LifeFits
    <2>1. Head(up[g]) \in Resets /\ OfOnePlay(Head(up[g]))
      BY <1>1 DEF HandleReset, TakeFrame, FitFrames, Frames, Resets
    <2>2. g \in 0..MaxGen
      BY ClientAssumption DEF Gens
    <2>3. [ active |-> TRUE, gen |-> g, play |-> Head(up[g]).play,
            vehicle |-> Head(up[g]).vehicle ] \in LifeRecord
      BY <2>1, <2>2 DEF LifeRecord, Resets
    <2>4. CASE life' = life
      BY <2>4, LifeStays DEF HandleReset, ClientServerInv
    <2>5. CASE life' = [ active |-> TRUE, gen |-> g,
                         play |-> Head(up[g]).play,
                         vehicle |-> Head(up[g]).vehicle ]
      BY <2>1, <2>3, <2>5
         DEF HandleReset, LifeFits, OfOnePlay, ClientServerInv, ServerFits
    <2> QED BY <2>4, <2>5 DEF HandleReset
  <1>3. ServerTypes'
    BY DEF HandleReset, ClientServerInv, ServerTypes
  <1> QED BY <1>1, <1>2, <1>3, ServerMoves DEF HandleReset, ClientServerInv

LEMMA HandleControlInv ==
    ASSUME ClientServerInv, NEW g \in Gens, HandleControl(g)
    PROVE  ClientServerInv'
PROOF
  <1>1. QueuesFit
    BY FrameTaken DEF HandleControl, ClientServerInv
  <1>2. LifeFits
    BY LifeStays DEF HandleControl, ClientServerInv
  <1>3. ServerTypes'
    BY DEF HandleControl, ClientServerInv, ServerTypes
  <1> QED BY <1>1, <1>2, <1>3, ServerMoves DEF HandleControl, ClientServerInv

\* A tick that tells nobody and closes nothing.
LEMMA QuietTickInv ==
    ASSUME ClientServerInv, SoftTimeout \/ ComeToRest
    PROVE  ClientServerInv'
PROOF
  <1>1. LifeFits
    BY LifeStays DEF SoftTimeout, ComeToRest, ClientServerInv
  <1>2. QueuesFit
    BY DEF SoftTimeout, ComeToRest, netVars, QueuesFit, ClientServerInv,
           TrafficFits
  <1>3. ServerTypes'
    BY DEF SoftTimeout, ComeToRest, netVars, ClientServerInv, ServerTypes
  <1> QED BY <1>1, <1>2, <1>3, ServerMoves
          DEF SoftTimeout, ComeToRest, ClientServerInv

LEMMA RetireInv ==
    ASSUME ClientServerInv, Retire
    PROVE  ClientServerInv'
PROOF
  <1>1. LifeFits
    BY LifeStays DEF Retire, ClientServerInv
  <1>2. QueuesFit
    BY SessionsCloseFit DEF Retire, ClientServerInv
  <1>3. ServerTypes'
    BY DEF Retire, ClientServerInv, ServerTypes
  <1> QED BY <1>1, <1>2, <1>3, ServerMoves DEF Retire, ClientServerInv

\* A server without a play tells of none of the client's.
LEMMA NoLifeFits ==
    ASSUME NEW v \in Vehicles
    PROVE  /\ NoLife \in LifeRecord /\ NoLife.play = 0
           /\ [NoLife EXCEPT !.vehicle = v] \in LifeRecord
           /\ [NoLife EXCEPT !.vehicle = v].play = 0
PROOF
  <1>1. NoLife \in LifeRecord
    <2>1. 0 \in 0..MaxGen /\ <<FirstClass, NoLoadout>> \in Vehicles
      BY ClientAssumption DEF Vehicles
    <2> QED BY <2>1 DEF NoLife, LifeRecord
  <1>2. NoLife.play = 0
    BY DEF NoLife
  <1> QED BY <1>1, <1>2 DEF LifeRecord

LEMMA InstallMapInv ==
    ASSUME ClientServerInv, InstallMap
    PROVE  ClientServerInv'
PROOF
  <1>1. sMap' \in Maps
    BY DEF InstallMap, ClientServerInv, Checksums
  <1>2. life.vehicle \in Vehicles
    BY DEF ClientServerInv, ServerFits, LifeRecord
  <1>3. LifeFits
    <2>1. life' \in LifeRecord /\ life'.play = 0
      BY <1>2, NoLifeFits DEF InstallMap
    <2> QED BY <1>1, <2>1 DEF LifeFits, ClientServerInv, ClientTypes
  <1>4. QueuesFit
    BY SessionsCloseFit DEF InstallMap, ClientServerInv
  <1>5. ServerTypes'
    BY DEF InstallMap, ClientServerInv, ServerTypes
  <1> QED BY <1>3, <1>4, <1>5, ServerMoves DEF InstallMap, ClientServerInv

LEMMA RestartInv ==
    ASSUME ClientServerInv, Restart
    PROVE  ClientServerInv'
PROOF
  <1>1. sMap' \in Maps
    BY DEF Restart, ClientServerInv, Checksums
  <1>4. LifeFits
    <2>1. life' \in LifeRecord /\ life'.play = 0
      <3>1. <<FirstClass, NoLoadout>> \in Vehicles
        BY ClientAssumption DEF Vehicles
      <3> QED BY <3>1, NoLifeFits DEF Restart
    <2> QED BY <1>1, <2>1 DEF LifeFits, ClientServerInv, ClientTypes
  <1>5. QueuesFit
    BY SessionsCloseFit DEF Restart, ClientServerInv
  <1>6. ServerTypes'
    BY DEF Restart, ClientServerInv, ServerTypes
  <1> QED BY <1>4, <1>5, <1>6, ServerMoves DEF Restart, ClientServerInv

\* A connection that breaks has nothing under way but its end.
LEMMA BrokenInv ==
    ASSUME ClientServerInv, NEW g \in Gens, Drop(g) \/ Refuse(g)
    PROVE  ClientServerInv'
PROOF
  <1>1. LifeFits
    BY LifeStays DEF Drop, Refuse, ClientServerInv, serverVars
  <1>2. QueuesFit
    <2>1. Closed \in FitMessages
      BY DEF Closed, FitMessages, Messages
    <2>2. <<Closed>> \in Seq(FitMessages)
      BY <2>1
    <2> QED BY <2>2 DEF Drop, Refuse, QueuesFit, ClientServerInv, TrafficFits
  <1>3. ServerTypes'
    BY DEF Drop, Refuse, ClientServerInv, ServerTypes, serverVars
  <1> QED BY <1>1, <1>2, <1>3, ServerMoves DEF Drop, Refuse, ClientServerInv

\* What happens beside the connection.
LEMMA AsideInv ==
    ASSUME ClientServerInv, EmergencyStop \/ BeginBake \/ CommitBake
    PROVE  ClientServerInv'
PROOF
  <1>1. /\ UNCHANGED <<clientVars, netVars, tasks, sMap, life, lease>>
        /\ UNCHANGED <<greeted, served, told>>
        /\ disk' \in Checksums
    BY DEF EmergencyStop, BeginBake, CommitBake, serverVars, ClientServerInv,
           Checksums
  <1>2. LifeFits
    BY <1>1, LifeStays DEF ClientServerInv
  <1>3. QueuesFit
    BY <1>1 DEF netVars, QueuesFit, ClientServerInv, TrafficFits
  <1>4. ServerTypes'
    BY <1>1 DEF netVars, ClientServerInv, ServerTypes
  <1> QED BY <1>1, <1>2, <1>3, <1>4, ServerMoves

-----------------------------------------------------------------------------
(* The steps of the client.                                                *)

\* The server's side of a step of the client.
ServerAside ==
    /\ UNCHANGED <<serverVars, told>>
    /\ disk' \in Checksums
    /\ link' \in [Gens -> {"none", "dialing", "open", "closed"}]
    /\ Len(tasks') <= MaxTasks

LEMMA ClientMoves ==
    ASSUME ClientServerInv, ServerAside, PlayGrows, QueuesFit,
           ClientTypes', ClientFits'
    PROVE  ClientServerInv'
PROOF
  <1>1. ServerFits'
    BY ServerStaysFit
       DEF ClientServerInv, ClientTypes, ServerAside, serverVars
  <1>2. TrafficFits'
    BY TrafficStaysFit DEF ClientServerInv, ClientTypes, QueuesFit
  <1>3. ServerTypes'
    BY DEF ServerTypes, ServerAside, serverVars, ClientServerInv
  <1> QED BY <1>1, <1>2, <1>3 DEF ClientServerInv, ServerAside

LEMMA ReleasedLinks ==
    ASSUME ServerTypes
    PROVE  Released \in [Gens -> {"none", "dialing", "open", "closed"}]
PROOF
  BY DEF Released, ServerTypes

LEMMA DroppedMessages ==
    ASSUME TrafficFits
    PROVE  Dropped \in [Gens -> Seq(FitMessages)]
PROOF
  <1>1. <<>> \in Seq(FitMessages)
    BY EmptySeq
  <1> QED BY <1>1 DEF Dropped, TrafficFits

LEMMA QueuesStay ==
    ASSUME TrafficFits, UNCHANGED <<up, tasks>>,
           down' = down \/ down' = Dropped
    PROVE  QueuesFit
PROOF
  BY DroppedMessages DEF QueuesFit, TrafficFits

\* What the client has received is forgotten.
LEMMA ForgottenTypes ==
    ASSUME ForgetReceived
    PROVE  /\ traffic' \in BOOLEAN
           /\ cache'.gen = 0 /\ cache'.estop \in BOOLEAN
           /\ latest' \in StateMessages \cup {None}
           /\ newest' \in StateMessages \cup {None}
           /\ NothingShown'
PROOF
  BY DEF ForgetReceived, NothingShown, NoCache

LEMMA ChoiceTypes ==
    ASSUME ClientServerInv
    PROVE  /\ play \in Nat \ {0} /\ play >= play /\ choice \in Vehicles
           /\ auto \in BOOLEAN /\ pending \in BOOLEAN
PROOF
  BY DEF ClientServerInv, ClientTypes

\* A new socket, in a play p that is the client's or a new one.
LEMMA DialInv ==
    ASSUME ClientServerInv, NEW p, Dial(p),
           p \in Nat \ {0}, p >= play, choice' \in Vehicles,
           p = play => choice' = choice,
           auto' \in BOOLEAN, pending' \in BOOLEAN, reason' # "vehicle",
           UNCHANGED <<serverVars, told, tasks, disk>>
    PROVE  ClientServerInv'
PROOF
  <1>1. PlayGrows
    BY DEF Dial, PlayGrows, ClientServerInv, ClientTypes
  <1>2. ServerAside
    BY ReleasedLinks DEF Dial, ServerAside, ClientServerInv, ServerTypes
  <1>3. QueuesFit
    BY QueuesStay DEF Dial, ClientServerInv
  <1>4. ForgetReceived
    BY DEF Dial, ForgetConnection
  <1>5. ClientTypes'
    BY <1>1, <1>4, ForgottenTypes
       DEF Dial, ClientServerInv, ClientTypes, PlayGrows
  <1>6. ClientFits'
    BY <1>4, ForgottenTypes DEF Dial, ClientServerInv, ClientFits
  <1> QED BY <1>1, <1>2, <1>3, <1>5, <1>6, ClientMoves

\* An attempt to connect, in a play p that is the client's or a new one.
LEMMA AttemptInv ==
    ASSUME ClientServerInv, NEW p, NEW on \in BOOLEAN,
           StartConnectionAttempt(p, on),
           p \in Nat \ {0}, p >= play, choice' \in Vehicles,
           p = play => choice' = choice,
           auto' \in BOOLEAN, pending' \in BOOLEAN, reason' = reason,
           UNCHANGED <<serverVars, told, tasks, disk>>
    PROVE  ClientServerInv'
PROOF
  <1>1. CASE MapNotReady(p, on)
    <2>1. PlayGrows
      BY <1>1 DEF MapNotReady, PlayGrows
    <2>2. ServerAside
      BY <1>1 DEF MapNotReady, ServerAside, netVars, ClientServerInv,
                  ServerTypes
    <2>3. QueuesFit
      BY <1>1, QueuesStay DEF MapNotReady, netVars, ClientServerInv
    <2>4. ClientTypes'
      BY <1>1 DEF MapNotReady, ClientServerInv, ClientTypes, AfterSchedule,
                  HideForReconnect, NoCache, StateMessages
    <2>5. ClientFits'
      BY <1>1 DEF MapNotReady, ClientServerInv, ClientFits, AfterSchedule
    <2> QED BY <2>1, <2>2, <2>3, <2>4, <2>5, ClientMoves
  <1>2. CASE Dial(PlayForMap(p))
    <2>1. /\ PlayForMap(p) \in Nat \ {0} /\ PlayForMap(p) >= play
          /\ PlayForMap(p) = play => p = play
      BY DEF PlayForMap, ClientServerInv, ClientTypes
    <2>2. reason' # "vehicle"
      BY DEF ClientServerInv, ClientFits
    <2> QED BY <1>2, <2>1, <2>2, DialInv
  <1> QED BY <1>1, <1>2 DEF StartConnectionAttempt

\* The socket is given up without an attempt to connect again.
LEMMA SocketReleased ==
    ASSUME ClientServerInv,
           conn' \in {"Disconnected", "WaitingToReconnect", "Incompatible"},
           gen' = gen + 1, auto' \in BOOLEAN, bound' = FALSE,
           link' = Released, down' = Dropped, ForgetReceived,
           reason' # "vehicle",
           UNCHANGED <<mapId, play, choice, tasks, disk>>,
           pending' \in BOOLEAN,
           up' \in [Gens -> Seq(FitFrames)],
           UNCHANGED <<serverVars, told>>
    PROVE  ClientServerInv'
PROOF
  <1>1. PlayGrows
    BY DEF PlayGrows, ClientServerInv, ClientTypes
  <1>2. ServerAside
    BY ReleasedLinks DEF ServerAside, ClientServerInv, ServerTypes
  <1>3. QueuesFit
    BY DroppedMessages DEF QueuesFit, ClientServerInv, TrafficFits
  <1>4. ClientTypes'
    <2>1. gen + 1 \in Nat
      BY DEF ClientServerInv, ClientTypes
    <2> QED BY <2>1, ForgottenTypes DEF ClientServerInv, ClientTypes
  <1>5. ClientFits'
    BY DEF ClientFits
  <1> QED BY <1>1, <1>2, <1>3, <1>4, <1>5, ClientMoves

LEMMA ConnectInv ==
    ASSUME ClientServerInv, Connect, UNCHANGED <<serverVars, told>>
    PROVE  ClientServerInv'
PROOF
  <1>1. CASE disk = NotReady
    <2>1. PlayGrows
      BY <1>1 DEF Connect, PlayGrows, ClientServerInv, ClientTypes
    <2>2. ServerAside
      BY <1>1 DEF Connect, ServerAside, netVars, ClientServerInv, ServerTypes
    <2>3. QueuesFit
      BY <1>1, QueuesStay DEF Connect, netVars, ClientServerInv
    <2>4. ClientTypes'
      BY <1>1 DEF Connect, ClientServerInv, ClientTypes, Checksums,
                  StateMessages
    <2>5. ClientFits'
      BY <1>1 DEF Connect, ClientFits
    <2> QED BY <2>1, <2>2, <2>3, <2>4, <2>5, ClientMoves
  <1>2. CASE disk # NotReady
    <2>1. /\ Dial(play) /\ auto' = TRUE /\ reason' = ReasonToConnect
          /\ UNCHANGED <<choice, pending, tasks, disk>>
      BY <1>2 DEF Connect
    <2>2. play \in Nat \ {0} /\ play >= play /\ ReasonToConnect # "vehicle"
      BY DEF ReasonToConnect, ClientServerInv, ClientTypes, ClientFits
    <2> QED BY <2>1, <2>2, ChoiceTypes, DialInv
  <1> QED BY <1>1, <1>2

\* The choices of the player.
LEMMA SelectInv ==
    ASSUME ClientServerInv, Select
    PROVE  ClientServerInv'
PROOF
  <1>1. UNCHANGED <<serverVars, told>>
    BY DEF Select
  <1>2. /\ NextPlay \in Nat \ {0} /\ NextPlay >= play /\ NextPlay # play
        /\ choice[1] \in Classes /\ NoLoadout \in Loadouts
    BY ClientAssumption DEF NextPlay, ClientServerInv, ClientTypes, Vehicles
  <1>3. ASSUME NEW c \in Classes, SelectVehicleClass(c)
        PROVE  ClientServerInv'
    <2>1. choice' \in Vehicles
      BY <1>2, <1>3 DEF SelectVehicleClass, Vehicles
    <2>2. /\ StartConnectionAttempt(NextPlay, TRUE)
          /\ pending' = FALSE /\ auto' = TRUE
          /\ UNCHANGED <<tasks, disk, reason>>
      BY <1>3 DEF SelectVehicleClass
    <2> QED BY <1>1, <1>2, <2>1, <2>2, ChoiceTypes, AttemptInv
  <1>4. ASSUME NEW l \in Loadouts, SelectLoadout(l)
        PROVE  ClientServerInv'
    <2>1. choice' \in Vehicles
      BY <1>2, <1>4 DEF SelectLoadout, Vehicles
    <2>2. /\ StartConnectionAttempt(NextPlay, TRUE)
          /\ pending' = TRUE /\ auto' = TRUE
          /\ UNCHANGED <<tasks, disk, reason>>
      BY <1>4 DEF SelectLoadout
    <2> QED BY <1>1, <1>2, <2>1, <2>2, ChoiceTypes, AttemptInv
  <1>5. CASE Disconnect
    BY <1>1, <1>5, SocketReleased
       DEF Disconnect, ClientServerInv, ClientTypes, ClientFits, TrafficFits
  <1>6. CASE Connect
    BY <1>1, <1>6, ConnectInv
  <1> QED BY <1>3, <1>4, <1>5, <1>6 DEF Select

LEMMA ReconnectInv ==
    ASSUME ClientServerInv, Reconnect, UNCHANGED <<serverVars, told>>
    PROVE  ClientServerInv'
PROOF
  BY ChoiceTypes, AttemptInv DEF Reconnect

LEMMA LoadoutTimeoutInv ==
    ASSUME ClientServerInv, LoadoutTimeout, UNCHANGED <<serverVars, told>>
    PROVE  ClientServerInv'
PROOF
  BY SocketReleased
     DEF LoadoutTimeout, ForgetConnection, AfterSchedule, ClientServerInv,
         ClientTypes, ClientFits, TrafficFits

LEMMA HideProxiesInv ==
    ASSUME ClientServerInv, TickRuntimeProxyActors,
           UNCHANGED <<serverVars, told>>
    PROVE  ClientServerInv'
PROOF
  <1>1. PlayGrows
    BY ChoiceTypes DEF TickRuntimeProxyActors, PlayGrows
  <1>2. ServerAside
    BY DEF TickRuntimeProxyActors, ServerAside, netVars, ClientServerInv,
           ServerTypes
  <1>3. QueuesFit
    BY QueuesStay DEF TickRuntimeProxyActors, netVars, ClientServerInv
  <1>4. ClientTypes'
    BY DEF TickRuntimeProxyActors, ClientServerInv, ClientTypes,
           StateMessages
  <1>5. ClientFits'
    BY DEF TickRuntimeProxyActors, ClientServerInv, ClientFits, NothingShown,
           ShownFits, Observed
  <1> QED BY <1>1, <1>2, <1>3, <1>4, <1>5, ClientMoves

\* What the client sends is of its own play and vehicle.
LEMMA SentFit ==
    ASSUME ClientServerInv, NEW ms \in Seq(FitFrames), Send(ms)
    PROVE  up' \in [Gens -> Seq(FitFrames)]
PROOF
  <1>1. up \in [Gens -> Seq(FitFrames)]
    BY DEF ClientServerInv, TrafficFits
  <1>2. CASE gen \in Gens
    <2>1. up[gen] \o ms \in Seq(FitFrames)
      BY <1>1, <1>2, ConcatProperties
    <2> QED BY <1>1, <1>2, <2>1, QueueChanged DEF Send
  <1>3. CASE gen \notin Gens
    BY <1>1, <1>3 DEF Send
  <1> QED BY <1>2, <1>3

LEMMA OwnFrames ==
    ASSUME ClientServerInv
    PROVE  /\ <<HelloFrame>> \in Seq(FitFrames)
           /\ <<ControlFrame>> \in Seq(FitFrames)
           /\ <<ResetFrame, ControlFrame>> \in Seq(FitFrames)
PROOF
  <1>1. /\ mapId \in Checksums /\ play \in Nat /\ play <= play
        /\ choice \in Vehicles
    BY DEF ClientServerInv, ClientTypes
  <1>2. HelloFrame \in FitFrames
    BY <1>1 DEF HelloFrame, FitFrames, Frames
  <1>3. ControlFrame \in FitFrames
    BY <1>1 DEF ControlFrame, FitFrames, Frames
  <1>4. ResetFrame \in FitFrames
    BY <1>1 DEF ResetFrame, FitFrames, Frames, Resets, OfOnePlay
  <1> QED BY <1>2, <1>3, <1>4

LEMMA SendControlInv ==
    ASSUME ClientServerInv, SendControl, UNCHANGED <<serverVars, told>>
    PROVE  ClientServerInv'
PROOF
  <1>1. ClientTypes' /\ ClientFits' /\ PlayGrows
    BY ClientStays DEF SendControl, ClientServerInv
  <1>2. ServerAside
    BY DEF SendControl, ServerAside, ClientServerInv, ServerTypes
  <1>3. up' \in [Gens -> Seq(FitFrames)]
    BY OwnFrames, SentFit DEF SendControl
  <1>4. QueuesFit
    BY <1>3 DEF SendControl, QueuesFit, ClientServerInv, TrafficFits
  <1> QED BY <1>1, <1>2, <1>4, ClientMoves

LEMMA DeliverInv ==
    ASSUME ClientServerInv, Deliver, UNCHANGED <<serverVars, told>>
    PROVE  ClientServerInv'
PROOF
  <1>1. ClientTypes' /\ ClientFits' /\ PlayGrows
    BY ClientStays DEF Deliver, ClientServerInv
  <1>2. /\ down[gen] \in Seq(FitMessages) /\ down[gen] # <<>>
        /\ tasks \in Seq(FitTasks) /\ gen \in Gens
    BY DEF Deliver, ClientServerInv, TrafficFits
  <1>3. /\ Head(down[gen]) \in FitMessages
        /\ Tail(down[gen]) \in Seq(FitMessages)
    BY <1>2, HeadTailProperties
  <1>4. [gen |-> gen, msg |-> Head(down[gen])] \in FitTasks
    BY <1>2, <1>3 DEF FitTasks
  <1>5. tasks' \in Seq(FitTasks) /\ Len(tasks') = Len(tasks) + 1
    BY <1>2, <1>4, AppendProperties DEF Deliver
  <1>6. down' \in [Gens -> Seq(FitMessages)]
    BY <1>3, QueueChanged DEF Deliver, ClientServerInv, TrafficFits
  <1>7. QueuesFit
    BY <1>5, <1>6 DEF Deliver, QueuesFit, ClientServerInv, TrafficFits
  <1>8. ServerAside
    <2>1. Len(tasks') <= MaxTasks
      BY <1>2, <1>5, ClientAssumption, LenProperties DEF Deliver
    <2> QED BY <2>1 DEF Deliver, ServerAside, ClientServerInv, ServerTypes
  <1> QED BY <1>1, <1>7, <1>8, ClientMoves

-----------------------------------------------------------------------------
(* The tasks of the client.                                                *)

\* What a message leaves behind that does not end the connection.
HandlerFits ==
    /\ UNCHANGED <<down, link, gen, auto, bound, mapId, play, choice, reason>>
    /\ up' \in [Gens -> Seq(FitFrames)]
    /\ ClientTypes' /\ ClientFits'

LEMMA ConnectedFits ==
    ASSUME ClientServerInv, NEW m, ApplyConnected(m)
    PROVE  HandlerFits
PROOF
  <1>1. up' \in [Gens -> Seq(FitFrames)]
    BY OwnFrames, SentFit DEF ApplyConnected, ClientServerInv, TrafficFits
  <1>2. conn' = conn \/ (conn = "Connecting" /\ conn' = "Handshaking")
    <2>1. CASE conn = "Connecting"
      BY <2>1 DEF ApplyConnected
    <2>2. CASE conn # "Connecting"
      BY <2>2 DEF ApplyConnected
    <2> QED BY <2>1, <2>2
  <1>3. ClientTypes'
    BY <1>2 DEF ApplyConnected, ClientServerInv, ClientTypes, StateMessages
  <1>4. ClientFits'
    BY <1>2 DEF ApplyConnected, ClientServerInv, ClientFits, NothingShown,
                ShownFits, Observed
  <1> QED BY <1>1, <1>3, <1>4 DEF HandlerFits, ApplyConnected

LEMMA ClosedFits ==
    ASSUME ClientServerInv, NEW m, ApplyClosed(m)
    PROVE  HandlerFits
PROOF
  <1>1. up' \in [Gens -> Seq(FitFrames)]
    BY DEF ApplyClosed, netVars, ClientServerInv, TrafficFits
  <1>2. ClientTypes'
    BY DEF ApplyClosed, AfterSchedule, HideForReconnect, NoCache,
           ClientServerInv, ClientTypes, StateMessages
  <1>3. ClientFits'
    BY DEF ApplyClosed, AfterSchedule, ClientServerInv, ClientFits
  <1> QED BY <1>1, <1>2, <1>3 DEF HandlerFits, ApplyClosed, netVars

\* A client that gives up over the map.
GivenUp ==
    GiveUp("map") /\ UNCHANGED <<up, mapId, play, choice, pending>>

LEMMA HelloFits ==
    ASSUME ClientServerInv, NEW m, ApplyHello(m)
    PROVE  HandlerFits \/ GivenUp
PROOF
  <1>1. CASE m.map = mapId
    <2>1. ClientTypes'
      BY <1>1 DEF ApplyHello, ClientServerInv, ClientTypes, StateMessages
    <2>2. ClientFits'
      BY <1>1 DEF ApplyHello, ClientServerInv, ClientFits, NothingShown,
                  ShownFits, Observed
    <2> QED BY <1>1, <2>1, <2>2
            DEF HandlerFits, ApplyHello, ClientServerInv, TrafficFits
  <1>2. CASE m.map # mapId
    BY <1>2 DEF ApplyHello, GivenUp
  <1> QED BY <1>1, <1>2

\* During the handshake, too, what is shown is what was observed.
LEMMA HandshakenShows ==
    ASSUME ClientServerInv, Handshaken
    PROVE  ShownFits
PROOF
  <1>1. CASE conn = "Connected"
    BY <1>1 DEF ClientServerInv, ClientFits
  <1>2. CASE conn = "Handshaking"
    BY <1>2 DEF ClientServerInv, ClientFits, NothingShown, ShownFits
  <1> QED BY <1>1, <1>2 DEF Handshaken

LEMMA HandshakeFrames ==
    ASSUME ClientServerInv, CompleteHandshake
    PROVE  up' \in [Gens -> Seq(FitFrames)]
PROOF
  BY OwnFrames, SentFit DEF CompleteHandshake, ClientServerInv, TrafficFits

\* A state that is not newer than all that was observed changes nothing.
LEMMA PassedOverFits ==
    ASSUME ClientServerInv, Handshaken, PassOver,
           UNCHANGED <<cache, traffic, newest>>
    PROVE  HandlerFits
PROOF
  <1>1. up' \in [Gens -> Seq(FitFrames)]
    BY HandshakeFrames DEF PassOver
  <1>2. ClientTypes'
    BY DEF PassOver, ClientServerInv, ClientTypes, StateMessages
  <1>3. ShownFits'
    BY HandshakenShows DEF PassOver, ShownFits, Observed
  <1>4. ClientFits'
    BY <1>3 DEF ClientFits, PassOver, ClientServerInv
  <1> QED BY <1>1, <1>2, <1>4 DEF HandlerFits, PassOver

\* What is shown is older than a newer state.
LEMMA NewerThanShown ==
    ASSUME ShownFits, ClientTypes, NEW m \in StateMessages, Newer(m)
    PROVE  /\ m # None
           /\ latest # None => latest.seq < m.seq
PROOF
  <1>1. m # None
    BY DEF StateMessages, None
  <1>2. ASSUME latest # None
        PROVE  latest.seq < m.seq
    <2>1. /\ newest # None /\ latest.seq <= newest.seq
          /\ cache = Observed(newest)
      BY <1>2 DEF ShownFits
    <2>2. cache.last = newest.seq
      BY <2>1 DEF Observed
    <2>3. m.seq \in Nat /\ newest.seq \in Nat /\ latest.seq \in Nat
      BY <1>2, <2>1 DEF ClientTypes, StateMessages
    <2> QED BY <2>1, <2>2, <2>3 DEF Newer
  <1> QED BY <1>1, <1>2

\* A state that is observed and not shown.
LEMMA ObservedFits ==
    ASSUME ClientServerInv, Handshaken, NEW m \in StateMessages, Newer(m),
           PassOver, Observe(m), traffic' = FALSE
    PROVE  HandlerFits
PROOF
  <1>1. up' \in [Gens -> Seq(FitFrames)]
    BY HandshakeFrames DEF PassOver
  <1>2. cache' = Observed(m) /\ newest' = m
    BY DEF Observe
  <1>3. ClientTypes'
    <2>1. cache'.gen = gen /\ cache'.estop \in BOOLEAN
      BY <1>2 DEF Observed
    <2> QED BY <1>2, <2>1
            DEF PassOver, ClientServerInv, ClientTypes, StateMessages
  <1>4. ShownFits'
    <2>1. /\ ShownFits /\ m # None
          /\ latest # None => latest.seq <= m.seq /\ latest.seq # m.seq
      BY HandshakenShows, NewerThanShown
         DEF ClientServerInv, ClientTypes, StateMessages
    <2>2. Observed(m)' = Observed(m)
      BY DEF PassOver, Observed
    <2> QED BY <1>2, <2>1, <2>2 DEF PassOver, ShownFits, Observed
  <1>5. ClientFits'
    BY <1>4 DEF ClientFits, PassOver, ClientServerInv
  <1> QED BY <1>1, <1>3, <1>5 DEF HandlerFits, PassOver

\* A state that is shown.
LEMMA AcceptedFits ==
    ASSUME ClientServerInv, Handshaken, NEW m \in StateMessages,
           m.map = mapId, m.play = play, m.vehicle = choice,
           CompleteHandshake, conn' = "Connected", Observe(m), AcceptState(m),
           UNCHANGED << auto, gen, bound, mapId, play, choice, reason, link,
                        down >>
    PROVE  HandlerFits
PROOF
  <1>1. up' \in [Gens -> Seq(FitFrames)]
    BY HandshakeFrames
  <1>2. /\ cache' = Observed(m) /\ newest' = m /\ latest' = m
        /\ pending' = FALSE /\ traffic' = TRUE
        /\ proxies' = [gen |-> gen, play |-> play, map |-> mapId]
    BY DEF Observe, AcceptState
  <1>3. ClientTypes'
    <2>1. cache'.gen = gen /\ cache'.estop \in BOOLEAN
      BY <1>2 DEF Observed
    <2> QED BY <1>2, <2>1 DEF ClientServerInv, ClientTypes, StateMessages
  <1>4. ShownFits'
    <2>1. m # None /\ m.seq <= m.seq
      BY DEF StateMessages, None
    <2> QED BY <1>2, <2>1 DEF ShownFits, Observed
  <1>5. ClientFits'
    BY <1>4 DEF ClientFits, ClientServerInv
  <1> QED BY <1>1, <1>3, <1>5 DEF HandlerFits

\* A state of the client's play has its vehicle, and is newer than the one
\* that is shown if it is newer than all that was observed.
LEMMA StateFits ==
    ASSUME ClientServerInv, Handshaken, NEW m \in FitMessages, ApplyState(m)
    PROVE  HandlerFits \/ GivenUp
PROOF
  <1>1. m \in StateMessages /\ OfOnePlay(m)
    BY DEF ApplyState, FitMessages, Messages, StateMessages
  <1>2. CASE ~shake.hello
    <2>1. UNCHANGED <<clientVars, netVars>>
      BY <1>2 DEF ApplyState
    <2>2. ClientTypes' /\ ClientFits'
      BY <2>1, ClientStays DEF ClientServerInv
    <2> QED BY <2>1, <2>2
            DEF HandlerFits, clientVars, netVars, ClientServerInv, TrafficFits
  <1>3. CASE shake.hello /\ m.map # mapId
    BY <1>3 DEF ApplyState, GivenUp
  <1>4. CASE shake.hello /\ m.map = mapId /\ ~Newer(m)
    BY <1>4, PassedOverFits DEF ApplyState
  <1>5. CASE shake.hello /\ m.map = mapId /\ Newer(m) /\ ~OfThisPlay(m)
    BY <1>1, <1>5, ObservedFits DEF ApplyState
  <1>6. CASE shake.hello /\ m.map = mapId /\ Newer(m) /\ OfThisPlay(m)
    <2>1. ~(latest # None /\ m.seq <= latest.seq)
      BY <1>1, <1>6, HandshakenShows, NewerThanShown
         DEF ClientServerInv, ClientTypes, StateMessages
    <2>2. m.play = play /\ m.vehicle = choice
      BY <1>1, <1>6 DEF OfThisPlay, OfOnePlay
    <2>3. /\ CompleteHandshake /\ conn' = "Connected"
          /\ Observe(m) /\ AcceptState(m)
          /\ UNCHANGED << auto, gen, bound, mapId, play, choice, reason,
                          link, down >>
      BY <1>6, <2>1, <2>2 DEF ApplyState
    <2> QED BY <1>1, <1>6, <2>2, <2>3, AcceptedFits
  <1> QED BY <1>2, <1>3, <1>4, <1>5, <1>6

LEMMA RunTaskInv ==
    ASSUME ClientServerInv, RunTask, UNCHANGED <<serverVars, told>>
    PROVE  ClientServerInv'
PROOF
  <1> DEFINE m == Head(tasks).msg
  <1>1. tasks \in Seq(FitTasks) /\ tasks # <<>>
    BY DEF RunTask, ClientServerInv, TrafficFits
  <1>2. /\ Head(tasks) \in FitTasks /\ tasks' \in Seq(FitTasks)
        /\ Len(tasks') = Len(tasks) - 1
    BY <1>1, HeadTailProperties DEF RunTask
  <1>3. m \in FitMessages
    BY <1>2 DEF FitTasks
  <1>4. Len(tasks') <= MaxTasks
    BY <1>1, <1>2, LenProperties, ClientAssumption
       DEF ClientServerInv, ServerTypes
  <1>5. CASE UNCHANGED <<clientVars, netVars>>
    <2>1. ClientTypes' /\ ClientFits' /\ PlayGrows
      BY <1>5, ClientStays DEF ClientServerInv
    <2>2. QueuesFit
      BY <1>2, <1>5 DEF QueuesFit, netVars, ClientServerInv, TrafficFits
    <2>3. ServerAside
      BY <1>4, <1>5
         DEF RunTask, ServerAside, netVars, ClientServerInv, ServerTypes
    <2> QED BY <2>1, <2>2, <2>3, ClientMoves
  <1>6. CASE HandlerFits
    <2>1. PlayGrows
      BY <1>6, ChoiceTypes DEF HandlerFits, PlayGrows
    <2>2. QueuesFit
      BY <1>2, <1>6 DEF QueuesFit, HandlerFits, ClientServerInv, TrafficFits
    <2>3. ServerAside
      BY <1>4, <1>6
         DEF RunTask, ServerAside, HandlerFits, ClientServerInv, ServerTypes
    <2> QED BY <1>6, <2>1, <2>2, <2>3, ClientMoves DEF HandlerFits
  <1>7. CASE GivenUp
    <2>1. PlayGrows
      BY <1>7, ChoiceTypes DEF GivenUp, PlayGrows
    <2>2. QueuesFit
      BY <1>2, <1>7, DroppedMessages
         DEF QueuesFit, GivenUp, GiveUp, ClientServerInv, TrafficFits
    <2>3. ServerAside
      BY <1>4, <1>7, ReleasedLinks
         DEF RunTask, ServerAside, GivenUp, GiveUp, ClientServerInv,
             ServerTypes
    <2>4. ClientTypes'
      <3>1. gen + 1 \in Nat
        BY DEF ClientServerInv, ClientTypes
      <3> QED BY <1>7, <3>1, ForgottenTypes
              DEF GivenUp, GiveUp, ClientServerInv, ClientTypes
    <2>5. ClientFits'
      BY <1>7 DEF GivenUp, GiveUp, ClientFits
    <2> QED BY <2>1, <2>2, <2>3, <2>4, <2>5, ClientMoves
  <1>8. \/ UNCHANGED <<clientVars, netVars>>
        \/ ApplyConnected(m) \/ ApplyClosed(m)
        \/ Handshaken /\ (ApplyHello(m) \/ ApplyState(m))
    BY DEF RunTask, ApplyHello, ApplyState
  <1> HIDE DEF m
  <1> QED BY <1>3, <1>5, <1>6, <1>7, <1>8, ConnectedFits, ClosedFits,
            HelloFits, StateFits

-----------------------------------------------------------------------------
(* The theorems.                                                           *)

LEMMA ClientServerInvInit ==
    ASSUME Init
    PROVE  ClientServerInv
PROOF
  <1>1. <<FirstClass, NoLoadout>> \in Vehicles
    BY ClientAssumption DEF Vehicles
  <1>2. ClientTypes /\ disk \in Checksums
    <2>1. NoCache.gen = 0 /\ NoCache.estop = FALSE
      BY DEF NoCache
    <2>2. FirstMap \in Checksums /\ NotReady \in Checksums
      BY ClientAssumption DEF Checksums
    <2>3. cache = NoCache /\ gen = 0 /\ play = 1 /\ mapId = NotReady
      BY DEF Init, ClientInit
    <2>4. /\ conn = "Disconnected" /\ auto = FALSE /\ bound = FALSE
          /\ pending = FALSE /\ traffic = FALSE /\ disk = FirstMap
          /\ latest = None /\ newest = None
          /\ choice = <<FirstClass, NoLoadout>>
      BY DEF Init, ClientInit
    <2>5. /\ conn = "Disconnected"
          /\ auto \in BOOLEAN /\ bound \in BOOLEAN
          /\ pending \in BOOLEAN /\ traffic \in BOOLEAN
      BY <2>4
    <2>6. gen \in Nat /\ play \in Nat \ {0} /\ mapId \in Checksums
      BY <2>2, <2>3
    <2>7. cache.gen \in {0, gen} /\ cache.estop \in BOOLEAN
      BY <2>1, <2>3
    <2>8. /\ latest \in StateMessages \cup {None}
          /\ newest \in StateMessages \cup {None} /\ choice \in Vehicles
      BY <1>1, <2>4
    <2>9. disk \in Checksums
      BY <2>2, <2>4
    <2> QED BY <2>5, <2>6, <2>7, <2>8, <2>9 DEF ClientTypes
  <1>3. ServerTypes
    <2>1. None.seq = 0 /\ Len(tasks) = 0
      BY EmptySeq DEF None, Init, ClientInit
    <2> QED BY <2>1, ClientAssumption, BoundsAssumption
            DEF Init, ClientInit, ServerInit, ServerTypes
  <1>4. ServerFits
    <2>1. NoLife \in LifeRecord /\ NoLife.play = 0
      BY <1>1, NoLifeFits
    <2> QED BY <2>1, ClientAssumption
            DEF Init, ClientInit, ServerInit, ServerFits, OfOnePlay
  <1>5. TrafficFits
    <2>1. /\ <<>> \in Seq(FitMessages) /\ <<>> \in Seq(FitFrames)
          /\ <<>> \in Seq(FitTasks)
      BY EmptySeq
    <2> QED BY <2>1 DEF Init, ClientInit, TrafficFits
  <1>6. ClientFits
    BY DEF Init, ClientInit, ClientFits
  <1> QED BY <1>2, <1>3, <1>4, <1>5, <1>6 DEF ClientServerInv

LEMMA StutterInv ==
    ASSUME ClientServerInv, UNCHANGED vars
    PROVE  ClientServerInv'
PROOF
  <1>1. LifeFits
    BY LifeStays DEF vars, serverVars, ClientServerInv
  <1>2. QueuesFit
    BY DEF vars, netVars, QueuesFit, ClientServerInv, TrafficFits
  <1>3. ServerTypes'
    BY DEF vars, netVars, serverVars, ClientServerInv, ServerTypes
  <1> QED BY <1>1, <1>2, <1>3, ServerMoves DEF vars, ClientServerInv

LEMMA ClientServerInvNext ==
    ASSUME ClientServerInv, [Next]_vars
    PROVE  ClientServerInv'
PROOF
  <1>1. CASE BeginPlay
    BY <1>1, ConnectInv DEF BeginPlay
  <1>2. CASE ClientStep
    BY <1>2, ReconnectInv, SendControlInv, HideProxiesInv, DeliverInv,
       RunTaskInv
       DEF ClientStep, Heartbeat
  <1>3. CASE AckOverdue
    BY <1>3, LoadoutTimeoutInv DEF AckOverdue
  <1>4. CASE ServerStep
    BY <1>4, AcceptInv, PublishInv, NoticeClosedInv, HandleHelloInv,
       HandleResetInv, HandleControlInv, QuietTickInv, RetireInv,
       InstallMapInv
       DEF ServerStep, HardTimeout
  <1>5. CASE CommitBake
    BY <1>5, AsideInv
  <1>6. CASE Disturbance
    BY <1>6, BrokenInv, RetireInv, AsideInv, RestartInv, SelectInv
       DEF Disturbance, Stall
  <1>7. CASE UNCHANGED vars
    BY <1>7, StutterInv
  <1> QED BY <1>1, <1>2, <1>3, <1>4, <1>5, <1>6, <1>7 DEF Next

\* The inductive invariant of client and server: what is under way and what
\* the server knows is of the client's play and its vehicle, and the client
\* shows what it has observed on its socket.
THEOREM ClientServerInvariant == Spec => []ClientServerInv
PROOF
  BY ClientServerInvInit, ClientServerInvNext, PTL DEF Spec

\* Every variable of client, network and server has its type.
THEOREM ClientServerTypes == Spec => []TypeOK
PROOF
  <1>1. ClientServerInv => TypeOK
    <2> SUFFICES ASSUME ClientServerInv PROVE TypeOK
      OBVIOUS
    <2>1. \A t \in ToSet(tasks) : t.gen \in Gens
      <3>1. \A i \in 1..Len(tasks) : tasks[i] \in FitTasks
        BY ElementOfSeq DEF ClientServerInv, TrafficFits
      <3>2. DOMAIN tasks = 1..Len(tasks)
        BY LenProperties DEF ClientServerInv, TrafficFits
      <3> QED BY <3>1, <3>2 DEF ToSet, FitTasks
    <2>2. life.gen \in 0..MaxGen /\ life.vehicle \in Vehicles
      BY DEF ClientServerInv, ServerFits, LifeRecord
    <2> QED BY <2>1, <2>2
            DEF TypeOK, ClientServerInv, ClientTypes, ServerTypes, Checksums
  <1> QED BY <1>1, ClientServerInvariant, PTL

\* The state and the NPCs a connected client shows belong to the play, the
\* map, the vehicle and the socket it has now, however late tasks of released
\* sockets run and whatever the server goes on telling.
THEOREM ShownStatesAreCurrent == Spec => []ShownStateIsCurrent
PROOF
  <1>1. ClientServerInv => ShownStateIsCurrent
    BY DEF ClientServerInv, ClientFits, ShownFits, ShownStateIsCurrent
  <1> QED BY <1>1, ClientServerInvariant, PTL

\* The status line shows the newest health of this play or none, an emergency
\* stop whatever play it is told with, and the lights follow no other play.
THEOREM HudIsHonest == Spec => []HudNeverOverstates
PROOF
  <1>1. ClientServerInv => HudNeverOverstates
    <2> SUFFICES ASSUME ClientServerInv PROVE HudNeverOverstates
      OBVIOUS
    <2>1. CASE ~Ready
      <3>1. ShownHealth = "unknown" /\ ~SignalsFollow
        BY <2>1 DEF ShownHealth, SignalsFollow
      <3> QED BY <2>1, <3>1 DEF HudNeverOverstates
    <2>2. CASE Ready
      <3>1. /\ ShownFits
            /\ traffic \in BOOLEAN /\ cache.estop \in BOOLEAN
        BY <2>2
           DEF Ready, IsConnected, ClientServerInv, ClientFits, ClientTypes
      <3>2. cache.estop => newest # None
        BY <3>1 DEF ShownFits, NoCache
      <3>3. newest # None => /\ cache.last = newest.seq
                             /\ cache.estop = (newest.health = "estop")
        BY <3>1 DEF ShownFits, Observed
      <3>4. latest # None /\ latest.seq = cache.last
              => latest = newest /\ newest.play = play
        BY <3>1, <3>3 DEF ShownFits
      <3>5. latest # None /\ traffic => newest.play = play
        BY <3>1 DEF ShownFits
      <3>6. ShownHealth # "unknown" => ShownHealth = newest.health
        BY <2>2, <3>2, <3>3, <3>4 DEF ShownHealth, CanUsePlaySnapshot
      <3>7. ShownHealth \notin {"unknown", "estop"} => newest.play = play
        BY <2>2, <3>4 DEF ShownHealth, CanUsePlaySnapshot
      <3>8. newest # None /\ newest.health = "estop"
              => ShownHealth = "estop" /\ ~SignalsFollow
        BY <2>2, <3>3 DEF ShownHealth, SignalsFollow
      <3>9. SignalsFollow => newest.play = play
        BY <3>5 DEF SignalsFollow
      <3> QED BY <3>6, <3>7, <3>8, <3>9 DEF HudNeverOverstates
    <2> QED BY <2>1, <2>2
  <1> QED BY <1>1, ClientServerInvariant, PTL

\* No order of selections, reconnects and restarts makes the client take a
\* server that obeys for one with another vehicle.
THEOREM VehicleIsNeverRefused == Spec => []GivesUpOnlyOverMap
PROOF
  <1>1. ClientServerInv => GivesUpOnlyOverMap
    BY DEF ClientServerInv, ClientFits, GivesUpOnlyOverMap
  <1> QED BY <1>1, ClientServerInvariant, PTL

=============================================================================
