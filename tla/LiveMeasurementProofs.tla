----------------------- MODULE LiveMeasurementProofs -----------------------
(***************************************************************************)
(* A physics step relies on one recent world, for every lifetime, every    *)
(* number of connections, revisions and frames under way.                  *)
(*                                                                         *)
(* Three arguments meet.  Contexts: what was measured in the context of    *)
(* the present connection was measured by it, and the obstacles are in     *)
(* that context before ground can be installed in it, since only a notice  *)
(* makes ground welcome and a notice reaches both.  Revisions: ground is   *)
(* dropped when the revision moves on.  Time: a reply that fits the        *)
(* pending request was measured after that request was sent, because no    *)
(* frame under way has the number of a new request (NewIdIsNew, the        *)
(* pigeonhole principle).                                                  *)
(***************************************************************************)
EXTENDS LiveMeasurement, FiniteSets, FiniteSetTheorems, SequenceTheorems, TLAPS

Probes ==
    [ context : 0..work.gens, revision : 0..work.revisions, ready : BOOLEAN,
      pending : Requests, installed : Patches, previous : Patches,
      nextSend : 0..work.time + Interval ]

Frames ==
    [kind : {"notice"}, revision : Revisions, ready : BOOLEAN]
      \cup [ kind : Kinds, id : 1..(work.frames + 2), revision : Revisions,
             complete : BOOLEAN ]

ClientRecord ==
    [ revision : Revisions, ready : BOOLEAN,
      told : {<<>>} \cup (Revisions \X BOOLEAN) ]

\* Type correctness, with what TypeOK leaves out.
Types ==
    /\ TypeOK
    /\ work \in Workloads
    /\ inbox \in Seq(Frames) /\ client \in ClientRecord
    /\ session.state # "none" => session.gen # 0

PatchesOf(p) == {p.installed, p.previous} \ {NoPatch}

\* The client of the connection was still in world r at time t.
StillAt(r, t) == r = client.revision \/ left[r] >= t

\* A request that waits is the one the client was told of.
PendingIsPublished ==
    \A k \in Kinds :
      /\ probe[k].pending \in {NoRequest, published[k]}
      /\ probe[k].context = 0 => probe[k].pending = NoRequest
      /\ published[k] # NoRequest
           => published[k].id # 0 /\ published[k].sentAt <= now

\* A reply that answers the request published last was measured after it.
RepliesAreRecent ==
    \A i \in 1..Len(inbox) : \A k \in Kinds :
      inbox[i].kind = k /\ inbox[i].id = published[k].id
        => StillAt(inbox[i].revision, published[k].sentAt)

\* A context is that of a connection; without one no world is known, and an
\* unknown world is not ready.
ContextsAreOfConnections ==
    \A k \in Kinds :
      /\ probe[k].context <= session.gen
      /\ probe[k].context = 0 => probe[k].revision = 0
      /\ probe[k].revision = 0 => ~probe[k].ready

\* Whose measurements a probe holds, and how old they are.
PatchesAreRecent ==
    \A k \in Kinds : \A q \in PatchesOf(probe[k]) :
      /\ q.by <= session.gen
      /\ q.revision \in Revisions
      /\ q.until - Lifetime <= now
      /\ probe[k].context = session.gen => q.by = session.gen
      /\ q.by = session.gen => StillAt(q.revision, q.until - Lifetime)

GroundIsOfRevision ==
    \A q \in PatchesOf(probe["ground"]) :
      q.revision = probe["ground"].revision

\* A notice brings both to the context of the connection.
ContextsAgree ==
    LET ground    == probe["ground"]
        obstacles == probe["obstacles"]
    IN  /\ obstacles.context = session.gen => ground.context = session.gen
        /\ ground.context = session.gen /\ ground.revision # 0
             => obstacles.context = session.gen

MeasurementInv ==
    /\ Types
    /\ PendingIsPublished
    /\ RepliesAreRecent
    /\ ContextsAreOfConnections
    /\ PatchesAreRecent
    /\ GroundIsOfRevision
    /\ ContextsAgree
    /\ RevisionsAgree

-----------------------------------------------------------------------------
(* The bounds of a run.                                                    *)

LEMMA WorkloadType ==
    ASSUME Types
    PROVE  /\ work.gens \in Nat /\ work.lapses \in Nat
           /\ work.revisions \in Nat \ {0} /\ work.frames \in Nat \ {0}
           /\ work.time \in Nat
PROOF
  <1>1. work \in Workload
    BY MeasurementAssumption DEF Types
  <1> QED BY <1>1 DEF Workload

-----------------------------------------------------------------------------
(* What the operators return.                                              *)

\* There is a number for a new request that neither a request nor a frame
\* under way has: there are more numbers than those.
LEMMA NewIdIsNew ==
    ASSUME Types, PendingIsPublished, NEW kind \in Kinds
    PROVE  /\ NewId(kind) \in 1..(work.frames + 2)
           /\ \A i \in 1..Len(inbox) :
                inbox[i].kind = kind => inbox[i].id # NewId(kind)
PROOF
  <1> DEFINE S == 1..(work.frames + 2)
             frames == {f \in Range(inbox) : f.kind = kind}
             Free(id) == /\ id \notin {published[kind].id,
                                       probe[kind].pending.id}
                         /\ \A f \in frames : f.id # id
  <1>1. work.frames \in Nat /\ Len(inbox) \in Nat /\ Len(inbox) <= work.frames
    BY WorkloadType, LenProperties DEF Types, TypeOK
  <1>2. DOMAIN inbox = 1..Len(inbox)
    BY LenProperties DEF Types
  <1>3. \E id \in S : Free(id)
    <2> SUFFICES ASSUME \A id \in S : ~Free(id)
                 PROVE  FALSE
      OBVIOUS
    <2>1. ASSUME NEW id \in S, id # published[kind].id
          PROVE  \E i \in 1..Len(inbox) : inbox[i].id = id
      <3>1. id # probe[kind].pending.id
        BY <1>1, <2>1 DEF PendingIsPublished, NoRequest
      <3>2. \E f \in Range(inbox) : f.id = id
        BY <2>1, <3>1
      <3> QED BY <1>2, <3>2 DEF Range
    <2> DEFINE place == [ id \in S |->
                            IF id = published[kind].id THEN 0
                              ELSE CHOOSE i \in 1..Len(inbox) :
                                     inbox[i].id = id ]
    <2>2. ASSUME NEW id \in S, id # published[kind].id
          PROVE  place[id] \in 1..Len(inbox) /\ inbox[place[id]].id = id
      BY <2>1, <2>2
    <2>3. \A id \in S : id = published[kind].id => place[id] = 0
      OBVIOUS
    <2>4. place \in [S -> 0..Len(inbox)]
      <3>1. \A id \in S : place[id] \in 0..Len(inbox)
        <4> SUFFICES ASSUME NEW id \in S PROVE place[id] \in 0..Len(inbox)
          OBVIOUS
        <4> HIDE DEF place, S
        <4>1. CASE id = published[kind].id
          BY <1>1, <2>3, <4>1
        <4>2. CASE id # published[kind].id
          <5>1. place[id] \in 1..Len(inbox)
            BY <2>2, <4>2
          <5> QED BY <1>1, <5>1
        <4> QED BY <4>1, <4>2
      <3> QED BY <3>1
    <2>5. /\ IsFiniteSet(S) /\ Cardinality(S) = work.frames + 2
          /\ IsFiniteSet(0..Len(inbox))
          /\ Cardinality(0..Len(inbox)) = Len(inbox) + 1
      <3>1. /\ 1 \in Int /\ work.frames + 2 \in Int /\ 0 \in Int
            /\ Len(inbox) \in Int
            /\ ~(1 > work.frames + 2) /\ ~(0 > Len(inbox))
        BY <1>1
      <3>2. IsFiniteSet(S) /\ Cardinality(S) = (work.frames + 2) - 1 + 1
        BY <3>1, FS_Interval
      <3>3. /\ IsFiniteSet(0..Len(inbox))
            /\ Cardinality(0..Len(inbox)) = Len(inbox) - 0 + 1
        BY <3>1, FS_Interval
      <3> QED BY <1>1, <3>2, <3>3
    <2>6. Cardinality(0..Len(inbox)) < Cardinality(S)
      BY <1>1, <2>5
    <2> HIDE DEF place, S
    <2>7. \E x, y \in S : x # y /\ place[x] = place[y]
      BY <2>4, <2>5, <2>6, FS_PigeonHole
    <2>8. PICK x \in S, y \in S : x # y /\ place[x] = place[y]
      BY <2>7
    <2>9. CASE x = published[kind].id
      BY <1>1, <2>2, <2>3, <2>8, <2>9
    <2>10. CASE y = published[kind].id
      BY <1>1, <2>2, <2>3, <2>8, <2>10
    <2>11. CASE x # published[kind].id /\ y # published[kind].id
      BY <2>2, <2>8, <2>11
    <2> QED BY <2>9, <2>10, <2>11
  <1>4. NewId(kind) = CHOOSE id \in S : Free(id)
    BY DEF NewId
  <1>5. NewId(kind) \in S /\ Free(NewId(kind))
    BY <1>3, <1>4
  <1>6. \A i \in 1..Len(inbox) : inbox[i].kind = kind => inbox[i] \in frames
    BY <1>2 DEF Range
  <1> QED BY <1>5, <1>6

\* Two probes that differ in their requests only.
Same(p, q) ==
    /\ p.context = q.context /\ p.revision = q.revision /\ p.ready = q.ready
    /\ p.installed = q.installed /\ p.previous = q.previous

\* A probe that knows nothing but its context.
Blank(p, context) ==
    /\ p.context = context /\ p.revision = 0 /\ p.ready = FALSE
    /\ p.pending = NoRequest
    /\ p.installed = NoPatch /\ p.previous = NoPatch

\* A fresh probe is a probe.
LEMMA FreshProbeType ==
    ASSUME Types
    PROVE  FreshProbe \in Probes /\ Blank(FreshProbe, 0)
PROOF
  <1>1. NoRequest \in Requests /\ NoPatch \in Patches
    BY WorkloadType, MeasurementAssumption
       DEF NoRequest, NoPatch, Requests, Patches
  <1>2. 0 \in 0..work.time + Interval
    BY WorkloadType, MeasurementAssumption
  <1> QED BY <1>1, <1>2, WorkloadType DEF FreshProbe, Probes, Blank

\* A change of context leaves a probe alone or forgets what it holds.
LEMMA ResetContextType ==
    ASSUME Types, NEW p \in Probes, NEW c \in 0..work.gens
    PROVE  /\ ResetContext(p, c) \in Probes
           /\ ResetContext(p, c).context = c
           /\ p.context = c => ResetContext(p, c) = p
           /\ p.context # c => Blank(ResetContext(p, c), c)
PROOF
  <1>1. FreshProbe \in Probes /\ Blank(FreshProbe, 0)
    BY FreshProbeType
  <1>2. CASE p.context = c
    BY <1>2 DEF ResetContext
  <1>3. CASE p.context # c
    BY <1>1, <1>3 DEF ResetContext, Probes, Blank
  <1> QED BY <1>2, <1>3

\* A notice of another revision makes a probe forget what it holds.
LEMMA ObservedType ==
    ASSUME Types, NEW p \in Probes, NEW r \in Revisions, NEW ready \in BOOLEAN
    PROVE  /\ Observed(p, r, ready) \in Probes
           /\ r = p.revision => Observed(p, r, ready) = p
           /\ r # p.revision
                => /\ Observed(p, r, ready).context = p.context
                   /\ Observed(p, r, ready).revision = r
                   /\ Observed(p, r, ready).ready = ready
                   /\ Observed(p, r, ready).pending = NoRequest
                   /\ Observed(p, r, ready).installed = NoPatch
                   /\ Observed(p, r, ready).previous = NoPatch
PROOF
  <1>1. FreshProbe \in Probes /\ Blank(FreshProbe, 0)
    BY FreshProbeType
  <1>2. r \in 0..work.revisions
    BY WorkloadType DEF Revisions
  <1>3. CASE r = p.revision
    BY <1>3 DEF Observed
  <1>4. CASE r # p.revision
    BY <1>1, <1>2, <1>4 DEF Observed, Probes, Blank
  <1> QED BY <1>3, <1>4

NewRequest(kind, p) ==
    [id |-> NewId(kind), revision |-> p.revision, sentAt |-> now]

\* Preparing a probe changes its request at most: the request is kept, or
\* given up, or a new one.
LEMMA PrepareType ==
    ASSUME Types, PendingIsPublished, NEW kind \in Kinds, NEW p \in Probes
    PROVE  /\ Prepare(kind, p) \in Probes
           /\ Same(Prepare(kind, p), p)
           /\ Prepare(kind, p).pending
                \in {p.pending, NoRequest, NewRequest(kind, p)}
           /\ p.context = 0
                => Prepare(kind, p).pending \in {p.pending, NoRequest}
PROOF
  <1>1. NewId(kind) \in 0..(work.frames + 2)
    BY NewIdIsNew, WorkloadType
  <1>2. now \in 0..work.time /\ p.revision \in 0..work.revisions
    BY DEF Types, TypeOK, Probes
  <1>3. NewRequest(kind, p) \in Requests
    BY <1>1, <1>2 DEF NewRequest, Requests
  <1>4. NoRequest \in Requests
    BY FreshProbeType DEF Blank, Probes
  <1>5. NextSend \in 0..work.time + Interval
    BY <1>2, WorkloadType, MeasurementAssumption DEF NextSend
  <1>6. CASE Unanswered(p)
    BY <1>6 DEF Prepare, Same
  <1>7. CASE ~Unanswered(p) /\ MayAsk(kind, p) /\ now >= p.nextSend
    <2>1. Prepare(kind, p) = [ p EXCEPT !.pending = NewRequest(kind, p),
                                        !.nextSend = NextSend ]
      BY <1>7 DEF Prepare, NewRequest
    <2>2. p.context # 0
      BY <1>7 DEF MayAsk
    <2> QED BY <1>3, <1>5, <2>1, <2>2 DEF Probes, Same
  <1>8. CASE ~Unanswered(p) /\ ~(MayAsk(kind, p) /\ now >= p.nextSend)
    <2>1. Prepare(kind, p) = [p EXCEPT !.pending = NoRequest]
      BY <1>8 DEF Prepare
    <2> QED BY <1>4, <2>1 DEF Probes, Same
  <1> QED BY <1>6, <1>7, <1>8

\* A reply that fits is installed as a measurement of the present connection,
\* and what was installed before is kept beside it.
LEMMA InstalledType ==
    ASSUME Types, NEW p \in Probes, NEW reply \in Frames,
           reply.kind \in Kinds, CanInstall(p, reply)
    PROVE  /\ Installed(p, reply) \in Probes
           /\ Installed(p, reply).context = p.context
           /\ Installed(p, reply).revision = p.revision
           /\ Installed(p, reply).ready = p.ready
           /\ Installed(p, reply).pending = NoRequest
           /\ Installed(p, reply).previous = p.installed
           /\ Installed(p, reply).installed.by = session.gen
           /\ Installed(p, reply).installed.revision = reply.revision
           /\ Installed(p, reply).installed.until
                = p.pending.sentAt + Lifetime
PROOF
  <1> DEFINE patch == [ by |-> session.gen, revision |-> p.pending.revision,
                        until |-> ValidUntil(p),
                        complete |-> reply.complete ]
  <1>1. NoRequest \in Requests
    BY FreshProbeType DEF Blank, Probes
  <1>2. /\ p.pending.sentAt \in 0..work.time
        /\ p.pending.revision \in 0..work.revisions
        /\ session.gen \in 0..work.gens
    BY DEF Types, TypeOK, Probes, Requests
  <1>3. reply.complete \in BOOLEAN
    BY DEF Frames, Kinds
  <1>4. ValidUntil(p) \in 0..work.time + Lifetime
    BY <1>2, WorkloadType, MeasurementAssumption DEF ValidUntil
  <1>5. patch \in Patches
    BY <1>2, <1>3, <1>4 DEF Patches
  <1>6. Installed(p, reply) = [ p EXCEPT !.previous = p.installed,
                                         !.installed = patch,
                                         !.pending = NoRequest ]
    BY DEF Installed
  <1>7. Installed(p, reply) \in Probes
    BY <1>1, <1>5, <1>6 DEF Probes
  <1>8. reply.revision = p.pending.revision
    BY DEF CanInstall
  <1> QED BY <1>6, <1>7, <1>8 DEF Probes, ValidUntil

-----------------------------------------------------------------------------
(* Ticks.                                                                  *)

\* What a tick broadcasts: the requests that wait, of which those that are
\* new have a number of their own.
LEMMA PublishEffect ==
    ASSUME Types, PendingIsPublished,
           NEW probes \in [Kinds -> Probes],
           NEW s, s.gen \in 0..work.gens,
           \A k \in Kinds :
             /\ probes[k].pending \in {NoRequest, probe[k].pending}
             /\ probes[k].context = 0 => probes[k].pending = NoRequest,
           Ready(s) => s.gen # 0,
           Publish(probes, s)
    PROVE  /\ probe' \in [Kinds -> Probes]
           /\ published' \in [Kinds -> Requests]
           /\ Ready(s)
                => /\ Same(probe'["ground"],
                           ResetContext(probes["ground"], s.gen))
                   /\ Same(probe'["obstacles"], probes["obstacles"])
           /\ ~Ready(s)
                => \A k \in Kinds : probe'[k] = ResetContext(probes[k], 0)
           /\ \A k \in Kinds :
                /\ probe'[k].pending \in {NoRequest, published'[k]}
                /\ probe'[k].context = 0 => probe'[k].pending = NoRequest
                /\ \/ published'[k] \in {NoRequest, published[k]}
                   \/ published'[k].id = NewId(k)
                        /\ published'[k].sentAt = now
PROOF
  <1>1. /\ Kinds = {"ground", "obstacles"}
        /\ probes["ground"] \in Probes /\ probes["obstacles"] \in Probes
    BY DEF Kinds
  <1>2. NoRequest \in Requests /\ 0 \in 0..work.gens
    BY FreshProbeType, WorkloadType DEF Blank, Probes
  <1>3. /\ probe' = Prepared(probes, s)
        /\ published' = [ k \in Kinds |-> IF Ready(s) THEN probe'[k].pending
                                                      ELSE NoRequest ]
    BY DEF Publish
  <1>4. CASE Ready(s)
    <2> DEFINE g == ResetContext(probes["ground"], s.gen)
               o == probes["obstacles"]
    <2>1. /\ probe'["ground"] = Prepare("ground", g)
          /\ probe'["obstacles"] = Prepare("obstacles", o)
          /\ probe' = [ ground |-> Prepare("ground", g),
                        obstacles |-> Prepare("obstacles", o) ]
      BY <1>3, <1>4 DEF Prepared
    <2>2. /\ g \in Probes /\ g.context = s.gen
          /\ g.pending \in {NoRequest, probes["ground"].pending}
      BY <1>1, ResetContextType DEF Blank
    <2> HIDE DEF g
    <2>3. /\ Prepare("ground", g) \in Probes
          /\ Same(Prepare("ground", g), g)
          /\ Prepare("ground", g).pending
               \in {g.pending, NoRequest, NewRequest("ground", g)}
      BY <1>1, <2>2, PrepareType
    <2>4. /\ Prepare("obstacles", o) \in Probes
          /\ Same(Prepare("obstacles", o), o)
          /\ Prepare("obstacles", o).pending
               \in {o.pending, NoRequest, NewRequest("obstacles", o)}
          /\ o.context = 0
               => Prepare("obstacles", o).pending \in {o.pending, NoRequest}
      BY <1>1, PrepareType
    <2>5. probe' \in [Kinds -> Probes]
      BY <1>1, <2>1, <2>3, <2>4
    <2>6. \A k \in Kinds : published'[k] = probe'[k].pending
      BY <1>3, <1>4
    <2>7. published' \in [Kinds -> Requests]
      BY <1>3, <1>4, <2>5 DEF Probes
    <2>8. /\ probe'["ground"].context # 0
          /\ probe'["obstacles"].context = o.context
      BY <1>4, <2>1, <2>2, <2>3, <2>4 DEF Same
    <2>9. \A k \in Kinds :
            \/ probe'[k].pending \in {NoRequest, probe[k].pending}
            \/ probe'[k].pending.id = NewId(k)
                 /\ probe'[k].pending.sentAt = now
      BY <1>1, <2>1, <2>2, <2>3, <2>4 DEF NewRequest
    <2>10. \A k \in Kinds : probe[k].pending \in {NoRequest, published[k]}
      BY DEF PendingIsPublished
    <2>11. o.context = 0 => probe'["obstacles"].pending = NoRequest
      BY <1>1, <2>1, <2>4
    <2>12. /\ Same(probe'["ground"], ResetContext(probes["ground"], s.gen))
           /\ Same(probe'["obstacles"], probes["obstacles"])
      BY <2>1, <2>3, <2>4 DEF g
    <2> QED BY <1>1, <1>4, <2>5, <2>6, <2>7, <2>8, <2>9, <2>10, <2>11, <2>12
  <1>5. CASE ~Ready(s)
    <2>1. probe' = [k \in Kinds |-> ResetContext(probes[k], 0)]
      BY <1>3, <1>5 DEF Prepared
    <2>2. \A k \in Kinds : /\ probe'[k] = ResetContext(probes[k], 0)
                           /\ probe'[k] \in Probes
                           /\ probe'[k].pending = NoRequest
      BY ZenonT(60), <1>2, <2>1, ResetContextType DEF Blank
    <2>3. published' = [k \in Kinds |-> NoRequest]
      BY <1>3, <1>5
    <2> QED BY <1>2, <1>5, <2>1, <2>2, <2>3
  <1> QED BY <1>4, <1>5

\* Probes that keep their measurements or drop them stay sound.
LEMMA MeasurementsKept ==
    ASSUME Types, ContextsAreOfConnections, PatchesAreRecent,
           GroundIsOfRevision,
           session'.gen = session.gen, now' = now,
           UNCHANGED <<work, client, left>>,
           \A k \in Kinds :
             \/ Same(probe'[k], probe[k])
             \/ /\ PatchesOf(probe'[k]) = {}
                /\ probe'[k].context \in {0, session.gen}
                /\ probe'[k].context = 0 => probe'[k].revision = 0
                /\ probe'[k].revision = 0 => ~probe'[k].ready
    PROVE  /\ ContextsAreOfConnections' /\ PatchesAreRecent'
           /\ GroundIsOfRevision'
PROOF
  <1>1. session.gen \in Nat /\ Revisions' = Revisions
    BY WorkloadType DEF Types, TypeOK, Revisions
  <1>2. ContextsAreOfConnections'
    <2> SUFFICES ASSUME NEW k \in Kinds
                 PROVE  /\ probe'[k].context <= session.gen
                        /\ probe'[k].context = 0 => probe'[k].revision = 0
                        /\ probe'[k].revision = 0 => ~probe'[k].ready
      BY DEF ContextsAreOfConnections
    <2>1. CASE Same(probe'[k], probe[k])
      BY <2>1 DEF Same, ContextsAreOfConnections
    <2>2. CASE ~Same(probe'[k], probe[k])
      BY <1>1, <2>2
    <2> QED BY <2>1, <2>2
  <1>3. \A k \in Kinds :
          \/ /\ PatchesOf(probe'[k]) = PatchesOf(probe[k])
             /\ probe'[k].context = probe[k].context
             /\ probe'[k].revision = probe[k].revision
          \/ PatchesOf(probe'[k]) = {}
    BY DEF Same, PatchesOf
  <1>4. \A r, t : StillAt(r, t)' <=> StillAt(r, t)
    BY DEF StillAt
  <1>5. PatchesAreRecent'
    <2> SUFFICES ASSUME NEW k \in Kinds, NEW q \in PatchesOf(probe'[k])
                 PROVE  /\ q.by <= session.gen
                        /\ q.revision \in Revisions
                        /\ q.until - Lifetime <= now
                        /\ probe'[k].context = session.gen
                             => q.by = session.gen
                        /\ q.by = session.gen
                             => StillAt(q.revision, q.until - Lifetime)'
      BY <1>1 DEF PatchesAreRecent
    <2>1. /\ q \in PatchesOf(probe[k])
          /\ probe'[k].context = probe[k].context
      BY <1>3
    <2> QED BY <1>4, <2>1 DEF PatchesAreRecent
  <1>6. GroundIsOfRevision'
    BY <1>3 DEF GroundIsOfRevision, Kinds
  <1> QED BY <1>2, <1>5, <1>6

\* A frame is not the answer to a request that is new or not there.
LEMMA RequestsReplaced ==
    ASSUME Types, PendingIsPublished, RepliesAreRecent,
           \A k \in Kinds :
             \/ published'[k] \in {NoRequest, published[k]}
             \/ published'[k].id = NewId(k),
           UNCHANGED <<inbox, client, left>>
    PROVE  RepliesAreRecent'
PROOF
  <1> SUFFICES ASSUME NEW i \in 1..Len(inbox), NEW k \in Kinds,
                      inbox[i].kind = k, inbox[i].id = published'[k].id
               PROVE  StillAt(inbox[i].revision, published[k].sentAt)'
    BY DEF RepliesAreRecent
  <1>1. inbox[i] \in Frames /\ work.frames \in Nat
    BY ElementOfSeq, WorkloadType DEF Types
  <1>2. inbox[i].id # 0
    BY <1>1 DEF Frames, Kinds
  <1>3. published'[k].id # NewId(k)
    BY NewIdIsNew
  <1>4. published'[k] = published[k]
    BY <1>2, <1>3 DEF NoRequest
  <1>5. StillAt(inbox[i].revision, published[k].sentAt)
    BY <1>4 DEF RepliesAreRecent
  <1> QED BY <1>4, <1>5 DEF StillAt

\* A tick, whether it asks for measurements or drops them.
LEMMA TickStep ==
    ASSUME MeasurementInv, Tick, work' = work
    PROVE  MeasurementInv'
PROOF
  <1>1. /\ Types /\ PendingIsPublished /\ RepliesAreRecent
        /\ UNCHANGED <<now, session, inbox, client, left>>
        /\ Publish(probe, session)
        /\ probe \in [Kinds -> Probes] /\ session.gen \in 0..work.gens
        /\ Kinds = {"ground", "obstacles"}
    BY DEF MeasurementInv, Types, TypeOK, Tick, clientVars, Probes, Kinds
  <1>2. Ready(session) => session.gen # 0
    BY <1>1 DEF Types, Ready
  <1>3. \A k \in Kinds :
          /\ probe[k].pending \in {NoRequest, probe[k].pending}
          /\ probe[k].context = 0 => probe[k].pending = NoRequest
    BY <1>1 DEF PendingIsPublished
  <1>4. /\ probe' \in [Kinds -> Probes]
        /\ published' \in [Kinds -> Requests]
        /\ Ready(session)
             => /\ Same(probe'["ground"],
                        ResetContext(probe["ground"], session.gen))
                /\ Same(probe'["obstacles"], probe["obstacles"])
        /\ ~Ready(session)
             => \A k \in Kinds : probe'[k] = ResetContext(probe[k], 0)
        /\ \A k \in Kinds :
             /\ probe'[k].pending \in {NoRequest, published'[k]}
             /\ probe'[k].context = 0 => probe'[k].pending = NoRequest
             /\ \/ published'[k] \in {NoRequest, published[k]}
                \/ published'[k].id = NewId(k) /\ published'[k].sentAt = now
    BY <1>1, <1>2, <1>3, PublishEffect
  <1>5. Types'
    BY <1>1, <1>4 DEF Types, TypeOK, Probes, Requests, Patches, Frames,
                      ClientRecord, Revisions
  <1>6. PendingIsPublished'
    <2>1. \A k \in Kinds : published'[k] # NoRequest
            => published'[k].id # 0 /\ published'[k].sentAt <= now
      <3>1. \A k \in Kinds : NewId(k) # 0
        BY <1>1, NewIdIsNew, WorkloadType
      <3>2. now \in Nat
        BY <1>1, WorkloadType DEF Types, TypeOK
      <3> QED BY <1>1, <1>4, <3>1, <3>2 DEF PendingIsPublished
    <2> QED BY <1>1, <1>4, <2>1 DEF PendingIsPublished
  <1>7. RepliesAreRecent'
    BY <1>1, <1>4, RequestsReplaced
  <1>8. \A k \in Kinds, c \in 0..work.gens :
          /\ probe[k].context = c => ResetContext(probe[k], c) = probe[k]
          /\ probe[k].context # c => Blank(ResetContext(probe[k], c), c)
    BY <1>1, ResetContextType
  <1>9. 0 \in 0..work.gens
    BY <1>1, WorkloadType
  <1>10. \A k \in Kinds :
           \/ Same(probe'[k], probe[k])
           \/ /\ PatchesOf(probe'[k]) = {}
              /\ probe'[k].context \in {0, session.gen}
              /\ probe'[k].context = 0 => probe'[k].revision = 0
              /\ probe'[k].revision = 0 => ~probe'[k].ready
    BY <1>1, <1>4, <1>8, <1>9 DEF Same, Blank, PatchesOf
  <1>11. /\ ContextsAreOfConnections' /\ PatchesAreRecent'
         /\ GroundIsOfRevision'
    BY <1>1, <1>10, MeasurementsKept DEF MeasurementInv
  <1>12. ContextsAgree' /\ RevisionsAgree'
    <2>1. CASE Ready(session)
      <3>1. CASE probe["ground"].context = session.gen
        <4>1. \A k \in Kinds : Same(probe'[k], probe[k])
          BY <1>1, <1>4, <1>8, <2>1, <3>1
        <4> QED BY <1>1, <4>1
                DEF Same, MeasurementInv, ContextsAgree, RevisionsAgree
      <3>2. CASE probe["ground"].context # session.gen
        <4>1. /\ Blank(ResetContext(probe["ground"], session.gen), session.gen)
          BY <1>1, <1>8, <3>2
        <4>2. /\ probe'["ground"].context = session.gen
              /\ probe'["ground"].revision = 0
              /\ probe'["obstacles"].context = probe["obstacles"].context
          BY <1>4, <2>1, <4>1 DEF Same, Blank
        <4>3. probe["obstacles"].context # session.gen
          BY <3>2 DEF MeasurementInv, ContextsAgree
        <4> QED BY <1>1, <4>2, <4>3 DEF ContextsAgree, RevisionsAgree
      <3> QED BY <3>1, <3>2
    <2>2. CASE ~Ready(session)
      <3>1. \A k \in Kinds : /\ probe'[k].context = 0
                             /\ probe'[k].revision = 0
                             /\ probe'[k].ready = FALSE
        <4>1. \A k \in Kinds : probe[k].context = 0
                => probe[k].revision = 0 /\ probe[k].ready = FALSE
          BY <1>1 DEF MeasurementInv, ContextsAreOfConnections, Probes
        <4> QED BY <1>1, <1>4, <1>8, <1>9, <2>2, <4>1 DEF Blank
      <3> QED BY <1>1, <3>1 DEF ContextsAgree, RevisionsAgree
    <2> QED BY <2>1, <2>2
  <1> QED BY <1>5, <1>6, <1>7, <1>11, <1>12 DEF MeasurementInv

-----------------------------------------------------------------------------
(* The session.                                                            *)

\* Types of a connection that comes to own the vehicle.
LEMMA NewClientType ==
    ASSUME Types, NewClient, work' = work
    PROVE  /\ session'.gen = session.gen + 1 /\ session'.state = "ready"
           /\ session'.gen \in 0..work.gens /\ session'.gen # 0
           /\ session' \in [ gen : 0..work.gens, lapses : 0..work.lapses,
                             state : {"none", "ready", "lapsed", "lost"} ]
           /\ inbox' = <<>> /\ inbox' \in Seq(Frames) /\ Len(inbox') = 0
           /\ now' = now
           /\ client' \in ClientRecord
           /\ left' \in [Revisions -> 0..work.time]
PROOF
  <1>1. session.gen \in 0..work.gens /\ session.gen < work.gens
    BY DEF NewClient, Types, TypeOK
  <1>2. session' = [gen |-> session.gen + 1, state |-> "ready", lapses |-> 0]
    BY DEF NewClient
  <1>3. inbox' = <<>> /\ now' = now
    BY DEF NewClient
  <1>4. client' \in ClientRecord
    BY DEF NewClient, ClientRecord
  <1>5. left' \in [Revisions -> 0..work.time]
    BY WorkloadType DEF NewClient
  <1> QED BY <1>1, <1>2, <1>3, <1>4, <1>5, WorkloadType, EmptySeq

\* What is held when a connection comes was measured by an earlier one.
LEMMA PatchesOfOthers ==
    ASSUME MeasurementInv, NewClient, work' = work,
           \A k \in Kinds :
             /\ PatchesOf(probe'[k]) \subseteq PatchesOf(probe[k])
             /\ probe'[k].context # session'.gen \/ PatchesOf(probe'[k]) = {}
    PROVE  PatchesAreRecent'
PROOF
  <1>1. /\ Types /\ session.gen \in Nat /\ session'.gen = session.gen + 1
        /\ now' = now /\ Revisions' = Revisions
    <2>1. Types
      BY DEF MeasurementInv
    <2>2. session.gen \in Nat
      BY <2>1, WorkloadType DEF Types, TypeOK
    <2>3. session'.gen = session.gen + 1 /\ now' = now
      BY <2>1, NewClientType
    <2> QED BY <2>1, <2>2, <2>3 DEF Revisions
  <1> SUFFICES ASSUME NEW k \in Kinds, NEW q \in PatchesOf(probe'[k])
               PROVE  /\ q.by <= session'.gen
                      /\ q.revision \in Revisions
                      /\ q.until - Lifetime <= now
                      /\ probe'[k].context # session'.gen
                      /\ q.by # session'.gen
    BY <1>1 DEF PatchesAreRecent
  <1>2. q \in PatchesOf(probe[k]) /\ probe'[k].context # session'.gen
    OBVIOUS
  <1>3. /\ q.by <= session.gen /\ q.revision \in Revisions
        /\ q.until - Lifetime <= now
    BY <1>2 DEF MeasurementInv, PatchesAreRecent
  <1>4. probe[k] \in Probes
    BY <1>1 DEF Types, TypeOK, Probes
  <1>5. q.by \in Nat
    <2>1. q \in Patches
      BY <1>2, <1>4 DEF PatchesOf, Probes
    <2> QED BY <1>1, <2>1, WorkloadType DEF Patches
  <1> QED BY <1>1, <1>2, <1>3, <1>5

\* Type correctness after a connection has come.
LEMMA NewClientTypes ==
    ASSUME Types, NewClient, work' = work,
           probe' \in [Kinds -> Probes], published' \in [Kinds -> Requests]
    PROVE  Types'
PROOF
  <1>1. /\ session' \in [ gen : 0..work.gens, lapses : 0..work.lapses,
                          state : {"none", "ready", "lapsed", "lost"} ]
        /\ session'.gen # 0 /\ now' = now
        /\ inbox' \in Seq(Frames) /\ Len(inbox') = 0
        /\ client' \in ClientRecord
        /\ left' \in [Revisions -> 0..work.time]
    BY NewClientType
  <1>2. Len(inbox') <= work.frames /\ now \in 0..work.time
    BY <1>1, WorkloadType DEF Types, TypeOK
  <1>3. /\ client'.revision \in Revisions /\ client'.ready \in BOOLEAN
        /\ client'.told # <<>> => client'.told \in Revisions \X BOOLEAN
    BY <1>1 DEF ClientRecord
  <1>4. TypeOK'
    BY <1>1, <1>2, <1>3 DEF TypeOK, Probes, Requests, Patches, Revisions
  <1> QED BY <1>1, <1>4 DEF Types, Frames, ClientRecord, Revisions

\* A reconnect leaves the probes alone.
LEMMA ReconnectStep ==
    ASSUME MeasurementInv, Reconnect, work' = work
    PROVE  MeasurementInv'
PROOF
  <1>1. /\ Types /\ NewClient /\ UNCHANGED <<probe, published>>
        /\ session.gen \in Nat
        /\ probe \in [Kinds -> Probes] /\ published \in [Kinds -> Requests]
    <2>1. Types /\ NewClient /\ UNCHANGED <<probe, published>>
      BY DEF MeasurementInv, Reconnect
    <2>2. /\ session.gen \in Nat /\ probe \in [Kinds -> Probes]
          /\ published \in [Kinds -> Requests]
      BY <2>1 DEF Types, TypeOK, Probes
    <2> QED BY <2>1, <2>2
  <1>2. session'.gen = session.gen + 1 /\ Len(inbox') = 0 /\ now' = now
    BY <1>1, NewClientType
  <1>3. Types'
    BY <1>1, NewClientTypes
  <1>4. PendingIsPublished' /\ RepliesAreRecent'
    BY <1>1, <1>2 DEF MeasurementInv, PendingIsPublished, RepliesAreRecent
  <1>5. \A k \in Kinds : /\ probe[k].context \in Nat
                         /\ probe[k].context <= session.gen
    BY <1>1, WorkloadType
       DEF MeasurementInv, ContextsAreOfConnections, Probes
  <1>6. \A k \in Kinds : /\ probe[k].context <= session'.gen
                         /\ probe[k].context # session'.gen
    BY <1>1, <1>2, <1>5
  <1>7. ContextsAreOfConnections'
    BY <1>1, <1>6 DEF MeasurementInv, ContextsAreOfConnections
  <1>8. PatchesAreRecent'
    BY <1>1, <1>6, PatchesOfOthers
  <1>9. GroundIsOfRevision'
    BY <1>1 DEF MeasurementInv, GroundIsOfRevision, PatchesOf
  <1>10. ContextsAgree' /\ RevisionsAgree'
    BY <1>1, <1>6 DEF MeasurementInv, ContextsAgree, RevisionsAgree, Kinds
  <1> QED BY <1>3, <1>4, <1>7, <1>8, <1>9, <1>10 DEF MeasurementInv

\* A new play forgets what is held and asks for the ground of its own.
LEMMA NewSimulationStep ==
    ASSUME MeasurementInv, NewSimulation, work' = work
    PROVE  MeasurementInv'
PROOF
  <1> DEFINE blank == [k \in Kinds |-> ResetContext(probe[k], 0)]
  <1>1. /\ Types /\ PendingIsPublished /\ ContextsAreOfConnections
        /\ NewClient /\ Publish(blank, session')
        /\ probe \in [Kinds -> Probes] /\ session.gen \in Nat
        /\ Kinds = {"ground", "obstacles"} /\ 0 \in 0..work.gens
    <2>1. /\ Types /\ PendingIsPublished /\ ContextsAreOfConnections
          /\ NewClient /\ Publish(blank, session')
      BY DEF MeasurementInv, NewSimulation
    <2> HIDE DEF blank
    <2>2. probe \in [Kinds -> Probes] /\ session.gen \in Nat
      BY <2>1 DEF Types, TypeOK, Probes
    <2>3. 0 \in 0..work.gens
      BY <2>1, WorkloadType
    <2> QED BY <2>1, <2>2, <2>3 DEF Kinds
  <1>2. /\ session'.gen = session.gen + 1 /\ session'.state = "ready"
        /\ session'.gen # 0 /\ session'.gen \in 0..work.gens
        /\ Len(inbox') = 0 /\ now' = now
    BY <1>1, NewClientType
  <1>3. \A k \in Kinds :
          /\ blank[k] = ResetContext(probe[k], 0)
          /\ ResetContext(probe[k], 0) \in Probes
          /\ ResetContext(probe[k], 0).context = 0
          /\ probe[k].context = 0 => ResetContext(probe[k], 0) = probe[k]
          /\ probe[k].context # 0 => Blank(ResetContext(probe[k], 0), 0)
    BY <1>1, ResetContextType
  <1> HIDE DEF blank
  <1>4. \A k \in Kinds : /\ blank[k] \in Probes /\ blank[k].context = 0
                         /\ blank[k].revision = 0 /\ ~blank[k].ready
                         /\ blank[k].pending = NoRequest
                         /\ PatchesOf(blank[k]) \subseteq PatchesOf(probe[k])
    <2> SUFFICES ASSUME NEW k \in Kinds
                 PROVE  /\ blank[k] \in Probes /\ blank[k].context = 0
                        /\ blank[k].revision = 0 /\ ~blank[k].ready
                        /\ blank[k].pending = NoRequest
                        /\ PatchesOf(blank[k]) \subseteq PatchesOf(probe[k])
      OBVIOUS
    <2>1. CASE probe[k].context = 0
      BY <1>1, <1>3, <2>1 DEF PendingIsPublished, ContextsAreOfConnections
    <2>2. CASE probe[k].context # 0
      BY <1>3, <2>2 DEF Blank, PatchesOf
    <2> QED BY <2>1, <2>2
  <1>5. blank \in [Kinds -> Probes]
    BY <1>3 DEF blank
  <1>6. Ready(session')
    BY <1>2 DEF Ready
  <1>7. \A k \in Kinds :
             /\ blank[k].pending \in {NoRequest, probe[k].pending}
             /\ blank[k].context = 0 => blank[k].pending = NoRequest
    BY <1>4
  <1>8. /\ probe' \in [Kinds -> Probes]
        /\ published' \in [Kinds -> Requests]
        /\ Same(probe'["ground"], ResetContext(blank["ground"], session'.gen))
        /\ Same(probe'["obstacles"], blank["obstacles"])
        /\ \A k \in Kinds :
             /\ probe'[k].pending \in {NoRequest, published'[k]}
             /\ probe'[k].context = 0 => probe'[k].pending = NoRequest
             /\ \/ published'[k] \in {NoRequest, published[k]}
                \/ published'[k].id = NewId(k) /\ published'[k].sentAt = now
    BY <1>1, <1>2, <1>5, <1>6, <1>7, PublishEffect
  <1>9. Blank(ResetContext(blank["ground"], session'.gen), session'.gen)
    <2>1. blank["ground"] \in Probes /\ blank["ground"].context # session'.gen
      BY <1>1, <1>2, <1>4
    <2> QED BY <1>1, <1>2, <2>1, ResetContextType
  <1>10. /\ probe'["ground"].context = session'.gen
         /\ probe'["ground"].revision = 0 /\ ~probe'["ground"].ready
         /\ PatchesOf(probe'["ground"]) = {}
         /\ probe'["obstacles"].context = 0
         /\ probe'["obstacles"].revision = 0 /\ ~probe'["obstacles"].ready
         /\ PatchesOf(probe'["obstacles"])
              \subseteq PatchesOf(probe["obstacles"])
    <2>1. blank["obstacles"].context = 0 /\ blank["obstacles"].revision = 0
          /\ ~blank["obstacles"].ready
          /\ PatchesOf(blank["obstacles"]) \subseteq PatchesOf(probe["obstacles"])
      BY <1>1, <1>4
    <2> QED BY ZenonT(60), <1>8, <1>9, <2>1 DEF Same, Blank, PatchesOf
  <1>11. Types'
    BY <1>1, <1>8, NewClientTypes
  <1>12. PendingIsPublished'
    <2>1. now \in Nat /\ \A k \in Kinds : NewId(k) # 0
      <3>1. \A k \in Kinds : NewId(k) # 0
        BY <1>1, NewIdIsNew, WorkloadType
      <3>2. now \in Nat
        BY <1>1, WorkloadType DEF Types, TypeOK
      <3> QED BY <3>1, <3>2
    <2>2. \A k \in Kinds : published'[k] # NoRequest
            => published'[k].id # 0 /\ published'[k].sentAt <= now
      BY <1>1, <1>8, <2>1 DEF PendingIsPublished
    <2> QED BY <1>2, <1>8, <2>2 DEF PendingIsPublished
  <1>13. RepliesAreRecent'
    BY <1>2 DEF RepliesAreRecent
  <1>14. ContextsAreOfConnections'
    BY <1>1, <1>2, <1>10 DEF ContextsAreOfConnections
  <1>15. PatchesAreRecent'
    BY <1>1, <1>2, <1>10, PatchesOfOthers
  <1>16. GroundIsOfRevision'
    BY <1>10 DEF GroundIsOfRevision
  <1>17. ContextsAgree' /\ RevisionsAgree'
    BY <1>2, <1>10 DEF ContextsAgree, RevisionsAgree
  <1> QED BY <1>11, <1>12, <1>13, <1>14, <1>15, <1>16, <1>17
          DEF MeasurementInv

\* A map reload forgets what is held.
LEMMA ReloadMapStep ==
    ASSUME MeasurementInv, ReloadMap, work' = work
    PROVE  MeasurementInv'
PROOF
  <1>1. /\ Types /\ ContextsAreOfConnections /\ PendingIsPublished
        /\ probe \in [Kinds -> Probes]
        /\ Kinds = {"ground", "obstacles"} /\ 0 \in 0..work.gens
        /\ session.gen \in 0..work.gens /\ session.gen # 0
    <2>1. Types /\ ContextsAreOfConnections /\ PendingIsPublished
      BY DEF MeasurementInv
    <2>2. /\ probe \in [Kinds -> Probes]
          /\ session.gen \in 0..work.gens
      BY <2>1 DEF Types, TypeOK, Probes
    <2>3. session.gen # 0
      BY <2>1 DEF ReloadMap, Types
    <2>4. 0 \in 0..work.gens
      BY <2>1, WorkloadType
    <2> QED BY <2>1, <2>2, <2>3, <2>4 DEF Kinds
  <1>2. /\ session' = [session EXCEPT !.state = "none"]
        /\ probe' = [k \in Kinds |-> ResetContext(probe[k], 0)]
        /\ UNCHANGED <<now, published, inbox, client, left>>
    BY DEF ReloadMap, clientVars
  <1>3. /\ session'.gen = session.gen /\ session'.state = "none"
        /\ session' \in [ gen : 0..work.gens, lapses : 0..work.lapses,
                          state : {"none", "ready", "lapsed", "lost"} ]
    BY <1>1, <1>2 DEF Types, TypeOK
  <1>4. \A k \in Kinds :
          /\ probe'[k] \in Probes /\ probe'[k].context = 0
          /\ probe[k].context = 0 => probe'[k] = probe[k]
          /\ probe[k].context # 0 => Blank(probe'[k], 0)
    BY <1>1, <1>2, ResetContextType
  <1>5. Types'
    <2>1. probe' \in [Kinds -> Probes]
      BY <1>2, <1>4
    <2>2. TypeOK'
      BY <1>1, <1>2, <1>3, <2>1
         DEF Types, TypeOK, Probes, Requests, Patches, Revisions
    <2> QED BY <1>1, <1>2, <1>3, <2>2
            DEF Types, Frames, ClientRecord, Revisions
  <1>6. \A k \in Kinds : probe'[k].pending = NoRequest
    BY <1>1, <1>4 DEF PendingIsPublished, Blank
  <1>7. PendingIsPublished' /\ RepliesAreRecent'
    BY <1>1, <1>2, <1>6
       DEF MeasurementInv, PendingIsPublished, RepliesAreRecent, StillAt
  <1>8. \A k \in Kinds : /\ probe'[k].revision = 0 /\ ~probe'[k].ready
                         /\ \/ Same(probe'[k], probe[k])
                            \/ PatchesOf(probe'[k]) = {}
    BY <1>1, <1>4 DEF Same, Blank, PatchesOf, ContextsAreOfConnections
  <1>9. /\ ContextsAreOfConnections' /\ PatchesAreRecent'
        /\ GroundIsOfRevision'
    BY <1>1, <1>2, <1>3, <1>4, <1>8, MeasurementsKept DEF MeasurementInv
  <1>10. ContextsAgree'
    BY <1>1, <1>3, <1>4, <1>8 DEF ContextsAgree
  <1>11. RevisionsAgree'
    <2>1. \A k \in Kinds : probe'[k].ready = FALSE
      BY <1>4, <1>8 DEF Probes
    <2> QED BY <1>1, <1>8, <2>1 DEF RevisionsAgree
  <1> QED BY <1>5, <1>7, <1>9, <1>10, <1>11 DEF MeasurementInv

-----------------------------------------------------------------------------
(* Frames.                                                                 *)

\* A frame is taken off the inbox.
LEMMA FrameTaken ==
    ASSUME Types, RepliesAreRecent, inbox # <<>>, inbox' = Tail(inbox),
           UNCHANGED <<published, client, left>>
    PROVE  /\ inbox' \in Seq(Frames) /\ Len(inbox') <= work.frames
           /\ 1 \in 1..Len(inbox) /\ Head(inbox) = inbox[1]
           /\ Head(inbox) \in Frames
           /\ RepliesAreRecent'
PROOF
  <1>1. inbox \in Seq(Frames) /\ Len(inbox) <= work.frames
        /\ work.frames \in Nat
    BY WorkloadType DEF Types, TypeOK
  <1>2. Len(inbox) \in Nat /\ Len(inbox) # 0
    BY <1>1, EmptySeq
  <1>3. /\ inbox' \in Seq(Frames) /\ Len(inbox') = Len(inbox) - 1
        /\ \A i \in 1..Len(inbox') : inbox'[i] = inbox[i + 1]
    BY <1>1, HeadTailProperties
  <1>4. Head(inbox) = inbox[1] /\ Head(inbox) \in Frames
    BY <1>1, HeadTailProperties
  <1>5. RepliesAreRecent'
    <2> SUFFICES ASSUME NEW i \in 1..Len(inbox'), NEW k \in Kinds,
                        inbox'[i].kind = k, inbox'[i].id = published[k].id
                 PROVE  StillAt(inbox'[i].revision, published[k].sentAt)
      BY DEF RepliesAreRecent, StillAt
    <2>1. i + 1 \in 1..Len(inbox) /\ inbox'[i] = inbox[i + 1]
      BY <1>2, <1>3
    <2> QED BY <2>1 DEF RepliesAreRecent
  <1> QED BY <1>1, <1>2, <1>3, <1>4, <1>5

\* A world notice reaches both probes or none.
LEMMA NoticeStep ==
    ASSUME MeasurementInv, HandleFrame, Ready(session),
           Head(inbox).kind = "notice", work' = work
    PROVE  MeasurementInv'
PROOF
  <1> DEFINE notice == Head(inbox)
             gen == session.gen
             g == ResetContext(probe["ground"], gen)
             o == ResetContext(probe["obstacles"], gen)
             gCan == CanObserve(g, notice.revision, notice.ready)
             oCan == CanObserve(o, notice.revision, notice.ready)
             g2 == IF gCan THEN Observed(g, notice.revision, notice.ready)
                           ELSE g
             o2 == IF gCan /\ oCan
                     THEN Observed(o, notice.revision, notice.ready) ELSE o
  <1>1. /\ Types /\ RepliesAreRecent /\ PendingIsPublished
        /\ ContextsAreOfConnections /\ ContextsAgree /\ RevisionsAgree
        /\ inbox # <<>> /\ inbox' = Tail(inbox)
        /\ UNCHANGED <<now, session, published, client, left>>
        /\ Kinds = {"ground", "obstacles"}
    BY DEF MeasurementInv, HandleFrame, clientVars, Kinds
  <1>2. /\ inbox' \in Seq(Frames) /\ Len(inbox') <= work.frames
        /\ notice \in Frames /\ RepliesAreRecent'
    BY <1>1, FrameTaken
  <1>3. /\ notice.revision \in Revisions /\ notice.ready \in BOOLEAN
        /\ notice.revision # 0
    BY <1>2 DEF Frames, Revisions, Kinds
  <1>4. /\ probe["ground"] \in Probes /\ probe["obstacles"] \in Probes
        /\ gen \in 0..work.gens /\ gen # 0
    BY <1>1 DEF Types, TypeOK, Probes, Kinds, Ready
  <1>5. probe' = [ground |-> g2, obstacles |-> o2]
    BY DEF HandleFrame, HandleNotice
  <1>6. /\ g \in Probes /\ g.context = gen
        /\ probe["ground"].context = gen => g = probe["ground"]
        /\ probe["ground"].context # gen => Blank(g, gen)
        /\ o \in Probes /\ o.context = gen
        /\ probe["obstacles"].context = gen => o = probe["obstacles"]
        /\ probe["obstacles"].context # gen => Blank(o, gen)
    <2>1. /\ g \in Probes /\ g.context = gen
          /\ probe["ground"].context = gen => g = probe["ground"]
          /\ probe["ground"].context # gen => Blank(g, gen)
      BY <1>1, <1>4, ResetContextType
    <2>2. /\ o \in Probes /\ o.context = gen
          /\ probe["obstacles"].context = gen => o = probe["obstacles"]
          /\ probe["obstacles"].context # gen => Blank(o, gen)
      BY <1>1, <1>4, ResetContextType
    <2> QED BY <2>1, <2>2
  <1> HIDE DEF g, o
  <1>7. /\ g2 \in Probes /\ g2.context = gen
        /\ ~gCan => g2 = g
        /\ gCan => /\ g2.revision = notice.revision
                   /\ g2.ready = notice.ready
                   /\ g2 = g \/ (PatchesOf(g2) = {} /\ g2.pending = NoRequest)
    <2>1. CASE ~gCan
      BY <1>6, <2>1
    <2>2. CASE gCan
      <3> DEFINE seen == Observed(g, notice.revision, notice.ready)
      <3>1. /\ seen \in Probes
            /\ notice.revision = g.revision => seen = g
            /\ notice.revision # g.revision
                 => /\ seen.context = g.context
                    /\ seen.revision = notice.revision
                    /\ seen.ready = notice.ready
                    /\ seen.pending = NoRequest
                    /\ seen.installed = NoPatch /\ seen.previous = NoPatch
        BY <1>1, <1>3, <1>6, ObservedType
      <3>2. notice.revision = g.revision => notice.ready = g.ready
        BY <2>2 DEF CanObserve
      <3>3. g2 = seen
        BY <2>2
      <3> HIDE DEF seen, g2, notice
      <3>4. CASE notice.revision = g.revision
        BY <1>6, <2>2, <3>1, <3>2, <3>3, <3>4
      <3>5. CASE notice.revision # g.revision
        <4>1. PatchesOf(seen) = {}
          BY <3>1, <3>5 DEF PatchesOf
        <4> QED BY <1>6, <2>2, <3>1, <3>3, <3>5, <4>1
      <3> QED BY <3>4, <3>5
    <2> QED BY <2>1, <2>2
  <1>8. /\ o2 \in Probes /\ o2.context = gen
        /\ ~(gCan /\ oCan) => o2 = o
        /\ gCan /\ oCan
             => /\ o2.revision = notice.revision
                /\ o2.ready = notice.ready
                /\ o2 = o \/ (PatchesOf(o2) = {} /\ o2.pending = NoRequest)
    <2>1. CASE ~(gCan /\ oCan)
      BY <1>6, <2>1
    <2>2. CASE gCan /\ oCan
      <3> DEFINE seen == Observed(o, notice.revision, notice.ready)
      <3>1. /\ seen \in Probes
            /\ notice.revision = o.revision => seen = o
            /\ notice.revision # o.revision
                 => /\ seen.context = o.context
                    /\ seen.revision = notice.revision
                    /\ seen.ready = notice.ready
                    /\ seen.pending = NoRequest
                    /\ seen.installed = NoPatch /\ seen.previous = NoPatch
        BY <1>1, <1>3, <1>6, ObservedType
      <3>2. notice.revision = o.revision => notice.ready = o.ready
        BY <2>2 DEF CanObserve
      <3>3. o2 = seen
        BY <2>2
      <3> HIDE DEF seen, o2, notice
      <3>4. CASE notice.revision = o.revision
        BY <1>6, <2>2, <3>1, <3>2, <3>3, <3>4
      <3>5. CASE notice.revision # o.revision
        <4>1. PatchesOf(seen) = {}
          BY <3>1, <3>5 DEF PatchesOf
        <4> QED BY <1>6, <2>2, <3>1, <3>3, <3>5, <4>1
      <3> QED BY <3>4, <3>5
    <2> QED BY <2>1, <2>2
  <1>9. g.revision = o.revision /\ g.ready = o.ready
    <2>1. CASE probe["obstacles"].context = gen
      BY <1>1, <1>6, <2>1 DEF ContextsAgree, RevisionsAgree
    <2>2. CASE probe["obstacles"].context # gen /\ probe["ground"].context = gen
      <3>1. g.revision = 0 /\ g.ready = FALSE
        BY <1>1, <1>4, <1>6, <2>2
           DEF ContextsAgree, ContextsAreOfConnections, Probes
      <3> QED BY <1>6, <2>2, <3>1 DEF Blank
    <2>3. CASE probe["obstacles"].context # gen /\ probe["ground"].context # gen
      BY <1>6, <2>3 DEF Blank
    <2> QED BY <2>1, <2>2, <2>3
  <1>10. gCan = oCan
    BY <1>9 DEF CanObserve
  <1> HIDE DEF g2, o2, gCan, oCan
  <1>11. /\ probe'["ground"] = g2 /\ probe'["obstacles"] = o2
         /\ probe' \in [Kinds -> Probes]
    BY <1>1, <1>5, <1>7, <1>8
  <1>12. ContextsAgree' /\ RevisionsAgree'
    BY <1>1, <1>7, <1>8, <1>9, <1>10, <1>11 DEF ContextsAgree, RevisionsAgree
  <1>13. Types'
    <2>1. TypeOK'
      BY <1>1, <1>2, <1>11
         DEF Types, TypeOK, Probes, Requests, Patches, Revisions
    <2> QED BY <1>1, <1>2, <2>1 DEF Types, Frames, ClientRecord, Revisions
  <1>14. PendingIsPublished'
    <2>1. \A k \in Kinds :
            /\ probe'[k].pending \in {NoRequest, published[k]}
            /\ probe'[k].context # 0
      <3>1. /\ g.pending \in {NoRequest, probe["ground"].pending}
            /\ o.pending \in {NoRequest, probe["obstacles"].pending}
        BY <1>6 DEF Blank
      <3> QED BY <1>1, <1>4, <1>7, <1>8, <1>10, <1>11, <3>1
              DEF PendingIsPublished
    <2> QED BY <1>1, <2>1 DEF PendingIsPublished
  <1>15. \A k \in Kinds :
           \/ Same(probe'[k], probe[k])
           \/ /\ PatchesOf(probe'[k]) = {}
              /\ probe'[k].context \in {0, session.gen}
              /\ probe'[k].context = 0 => probe'[k].revision = 0
              /\ probe'[k].revision = 0 => ~probe'[k].ready
    <2>1. /\ g = probe["ground"] \/ Blank(g, gen)
          /\ o = probe["obstacles"] \/ Blank(o, gen)
      BY <1>6
    <2>2. \/ Same(g2, probe["ground"])
          \/ PatchesOf(g2) = {} /\ (g2.revision = 0 => ~g2.ready)
      BY <1>3, <1>7, <2>1 DEF Same, Blank, PatchesOf
    <2>3. \/ Same(o2, probe["obstacles"])
          \/ PatchesOf(o2) = {} /\ (o2.revision = 0 => ~o2.ready)
      BY <1>3, <1>8, <2>1 DEF Same, Blank, PatchesOf
    <2> QED BY <1>1, <1>4, <1>7, <1>8, <1>11, <2>2, <2>3
  <1>16. /\ ContextsAreOfConnections' /\ PatchesAreRecent'
         /\ GroundIsOfRevision'
    BY <1>1, <1>15, MeasurementsKept DEF MeasurementInv
  <1> QED BY <1>2, <1>12, <1>13, <1>14, <1>16 DEF MeasurementInv

\* A reply is installed by the probe whose request it answers, or by none.
LEMMA ReplyStep ==
    ASSUME MeasurementInv, HandleFrame, Ready(session),
           Head(inbox).kind # "notice", work' = work
    PROVE  MeasurementInv'
PROOF
  <1> DEFINE reply == Head(inbox)
             kind == reply.kind
             gen == session.gen
             p == IF kind = "ground" THEN ResetContext(probe[kind], gen)
                                     ELSE probe[kind]
             p2 == IF CanInstall(p, reply) THEN Installed(p, reply) ELSE p
  <1>1. /\ Types /\ RepliesAreRecent /\ PendingIsPublished
        /\ ContextsAreOfConnections /\ ContextsAgree /\ RevisionsAgree
        /\ PatchesAreRecent /\ GroundIsOfRevision
        /\ inbox # <<>> /\ inbox' = Tail(inbox)
        /\ UNCHANGED <<now, session, published, client, left>>
        /\ Kinds = {"ground", "obstacles"}
        /\ probe \in [Kinds -> Probes]
    BY DEF MeasurementInv, HandleFrame, clientVars, Kinds, Types, TypeOK,
           Probes
  <1>2. /\ inbox' \in Seq(Frames) /\ Len(inbox') <= work.frames
        /\ 1 \in 1..Len(inbox) /\ reply = inbox[1]
        /\ reply \in Frames /\ RepliesAreRecent'
    BY <1>1, FrameTaken
  <1>3. kind \in Kinds /\ reply.revision \in Revisions
    BY <1>2 DEF Frames
  <1>4. /\ probe[kind] \in Probes /\ gen \in 0..work.gens /\ gen # 0
    BY <1>1, <1>3 DEF Types, TypeOK, Ready
  <1>5. probe' = [probe EXCEPT ![kind] = p2]
    BY DEF HandleFrame, HandleReply
  <1>6. /\ p \in Probes
        /\ p = probe[kind] \/ (kind = "ground" /\ Blank(p, gen))
        /\ kind = "ground" => p.context = gen
        /\ kind = "ground" /\ probe[kind].context # gen => Blank(p, gen)
    <2>1. /\ ResetContext(probe[kind], gen) \in Probes
          /\ ResetContext(probe[kind], gen).context = gen
          /\ probe[kind].context = gen
               => ResetContext(probe[kind], gen) = probe[kind]
          /\ probe[kind].context # gen
               => Blank(ResetContext(probe[kind], gen), gen)
      BY <1>1, <1>4, ResetContextType
    <2> QED BY <1>4, <2>1
  <1>7. CanInstall(p, reply)
          => /\ p = probe[kind] /\ p.ready
             /\ p2 \in Probes /\ p2.context = p.context
             /\ p2.revision = p.revision /\ p2.ready = p.ready
             /\ p2.pending = NoRequest /\ p2.previous = p.installed
             /\ p2.installed.by = gen
             /\ p2.installed.revision = reply.revision
             /\ p2.installed.until = p.pending.sentAt + Lifetime
             /\ p.pending # NoRequest /\ reply.id = p.pending.id
             /\ reply.revision = p.revision
    <2> SUFFICES ASSUME CanInstall(p, reply)
                 PROVE  /\ p = probe[kind] /\ p.ready
                        /\ p2 \in Probes /\ p2.context = p.context
                        /\ p2.revision = p.revision /\ p2.ready = p.ready
                        /\ p2.pending = NoRequest
                        /\ p2.previous = p.installed
                        /\ p2.installed.by = gen
                        /\ p2.installed.revision = reply.revision
                        /\ p2.installed.until = p.pending.sentAt + Lifetime
                        /\ p.pending # NoRequest /\ reply.id = p.pending.id
                        /\ reply.revision = p.revision
      OBVIOUS
    <2>1. p2 = Installed(p, reply)
      OBVIOUS
    <2> HIDE DEF p, p2, reply, kind
    <2>2. /\ p.ready /\ p.pending # NoRequest /\ reply.id = p.pending.id
          /\ reply.revision = p.revision
      BY DEF CanInstall, Unanswered
    <2>3. p = probe[kind]
      BY <1>6, <2>2 DEF Blank
    <2>4. reply.kind \in Kinds
      BY <1>3 DEF kind
    <2> QED BY ZenonT(60), <1>1, <1>2, <1>6, <2>1, <2>2, <2>3, <2>4, InstalledType
  <1>8. ~CanInstall(p, reply) => p2 = p
    OBVIOUS
  <1> HIDE DEF p, p2, kind, reply
  <1>9. /\ p2 \in Probes /\ p2.context = p.context
        /\ p2.revision = p.revision /\ p2.ready = p.ready
        /\ p2.pending \in {NoRequest, p.pending}
    BY <1>6, <1>7, <1>8
  <1>10. /\ probe' \in [Kinds -> Probes] /\ probe'[kind] = p2
         /\ \A k \in Kinds \ {kind} : probe'[k] = probe[k]
    BY <1>1, <1>3, <1>5, <1>9
  <1>11. Types'
    <2>1. TypeOK'
      BY <1>1, <1>2, <1>10
         DEF Types, TypeOK, Probes, Requests, Patches, Revisions
    <2> QED BY <1>1, <1>2, <2>1 DEF Types, Frames, ClientRecord, Revisions
  <1>12. PendingIsPublished'
    <2>1. \A k \in Kinds :
            /\ probe'[k].pending \in {NoRequest, published[k]}
            /\ probe'[k].context = 0 => probe'[k].pending = NoRequest
      BY <1>1, <1>3, <1>6, <1>9, <1>10 DEF PendingIsPublished, Blank
    <2> QED BY <1>1, <2>1 DEF PendingIsPublished
  <1>13. ContextsAreOfConnections'
    <2>1. /\ p.context <= gen
          /\ p.context = 0 => p.revision = 0
          /\ p.revision = 0 => ~p.ready
      <3>1. CASE p = probe[kind]
        BY <1>1, <1>3, <3>1 DEF ContextsAreOfConnections
      <3>2. CASE Blank(p, gen)
        BY <1>4, <3>2 DEF Blank
      <3> QED BY <1>6, <3>1, <3>2
    <2> QED BY <1>1, <1>9, <1>10, <2>1 DEF ContextsAreOfConnections
  <1>14. \A q \in PatchesOf(p2) :
           \/ /\ q \in PatchesOf(probe[kind])
              /\ p = probe[kind]
           \/ /\ CanInstall(p, reply) /\ q.by = gen
              /\ q.revision = p.revision /\ q.revision \in Revisions
              /\ q.until = p.pending.sentAt + Lifetime
    BY <1>3, <1>6, <1>7, <1>8 DEF PatchesOf, Blank
  <1>15. CanInstall(p, reply)
           => /\ p.pending.sentAt <= now /\ p.pending.sentAt \in Nat
              /\ StillAt(reply.revision, p.pending.sentAt)
    <2> SUFFICES ASSUME CanInstall(p, reply)
                 PROVE  /\ p.pending.sentAt <= now /\ p.pending.sentAt \in Nat
                        /\ StillAt(reply.revision, p.pending.sentAt)
      OBVIOUS
    <2>1. p.pending = published[kind] /\ published[kind] # NoRequest
          /\ reply.id = published[kind].id
      BY <1>1, <1>3, <1>7 DEF PendingIsPublished
    <2>2. p.pending.sentAt <= now
      BY <1>1, <1>3, <2>1 DEF PendingIsPublished
    <2>3. p.pending.sentAt \in Nat
      BY <1>1, <1>6, WorkloadType DEF Probes, Requests
    <2>4. inbox[1].kind = kind /\ inbox[1].id = published[kind].id
      BY <1>2, <2>1 DEF kind
    <2>5. StillAt(inbox[1].revision, published[kind].sentAt)
      BY <1>1, <1>2, <1>3, <2>4 DEF RepliesAreRecent
    <2> QED BY <1>2, <2>1, <2>2, <2>3, <2>5
  <1>16. PatchesAreRecent'
    <2> SUFFICES ASSUME NEW k \in Kinds, NEW q \in PatchesOf(probe'[k])
                 PROVE  /\ q.by <= gen
                        /\ q.revision \in Revisions
                        /\ q.until - Lifetime <= now
                        /\ probe'[k].context = gen => q.by = gen
                        /\ q.by = gen
                             => StillAt(q.revision, q.until - Lifetime)
      BY <1>1 DEF PatchesAreRecent, Revisions, StillAt
    <2>1. CASE k # kind \/ (q \in PatchesOf(probe[kind]) /\ p = probe[kind])
      <3>1. q \in PatchesOf(probe[k]) /\ probe'[k].context = probe[k].context
        BY <1>9, <1>10, <2>1
      <3> QED BY <1>1, <3>1 DEF PatchesAreRecent
    <2>2. CASE k = kind /\ ~(q \in PatchesOf(probe[kind]) /\ p = probe[kind])
      <3>1. /\ CanInstall(p, reply) /\ q.by = gen
            /\ q.revision = reply.revision /\ q.revision \in Revisions
            /\ q.until = p.pending.sentAt + Lifetime
        BY <1>7, <1>10, <1>14, <2>2
      <3>2. q.until - Lifetime = p.pending.sentAt
        BY <1>15, <3>1, MeasurementAssumption
      <3> QED BY <1>4, <1>15, <3>1, <3>2
    <2> QED BY <2>1, <2>2
  <1>17. GroundIsOfRevision'
    <2> SUFFICES ASSUME NEW q \in PatchesOf(probe'["ground"])
                 PROVE  q.revision = probe'["ground"].revision
      BY DEF GroundIsOfRevision
    <2>1. CASE kind = "ground"
      <3>1. /\ q \in PatchesOf(p2)
            /\ probe'["ground"].revision = p.revision
        BY <1>9, <1>10, <2>1
      <3> QED BY <1>1, <1>14, <2>1, <3>1 DEF GroundIsOfRevision
    <2>2. CASE kind # "ground"
      BY <1>1, <1>10, <2>2 DEF GroundIsOfRevision
    <2> QED BY <2>1, <2>2
  <1>18. ContextsAgree' /\ RevisionsAgree'
    <2>1. CASE p = probe[kind]
      <3>1. \A k \in Kinds : /\ probe'[k].context = probe[k].context
                             /\ probe'[k].revision = probe[k].revision
                             /\ probe'[k].ready = probe[k].ready
        BY <1>9, <1>10, <2>1
      <3> QED BY <1>1, <3>1 DEF ContextsAgree, RevisionsAgree
    <2>2. CASE p # probe[kind]
      <3>1. kind = "ground" /\ Blank(p, gen)
        BY <1>6, <2>2
      <3>2. probe["ground"].context # gen
        <4>1. probe["ground"].context = gen => p = probe["ground"]
          BY <1>1, <1>4, <3>1, ResetContextType DEF p
        <4> QED BY <2>2, <3>1, <4>1
      <3>3. /\ probe'["ground"].context = gen /\ probe'["ground"].revision = 0
            /\ probe'["obstacles"].context = probe["obstacles"].context
            /\ probe["obstacles"].context # gen
        BY <1>1, <1>9, <1>10, <3>1, <3>2 DEF Blank, ContextsAgree
      <3> QED BY <1>1, <3>3 DEF ContextsAgree, RevisionsAgree
    <2> QED BY <2>1, <2>2
  <1> QED BY <1>2, <1>11, <1>12, <1>13, <1>16, <1>17, <1>18
          DEF MeasurementInv

\* A frame, whether it is taken or rejected.
LEMMA FrameStep ==
    ASSUME MeasurementInv, HandleFrame, work' = work
    PROVE  MeasurementInv'
PROOF
  <1>1. CASE ~Ready(session)
    <2>1. /\ Types /\ RepliesAreRecent /\ inbox # <<>> /\ inbox' = Tail(inbox)
          /\ UNCHANGED <<now, session, probe, published, client, left>>
      BY <1>1 DEF MeasurementInv, HandleFrame, clientVars
    <2>2. /\ inbox' \in Seq(Frames) /\ Len(inbox') <= work.frames
          /\ RepliesAreRecent'
      BY <2>1, FrameTaken
    <2>3. Types'
      <3>1. TypeOK'
        BY <2>1, <2>2 DEF Types, TypeOK, Requests, Patches, Revisions
      <3> QED BY <2>1, <2>2, <3>1 DEF Types, Frames, ClientRecord, Revisions
    <2>4. /\ PendingIsPublished' /\ GroundIsOfRevision'
          /\ ContextsAgree' /\ RevisionsAgree'
      BY <2>1 DEF MeasurementInv, PendingIsPublished, GroundIsOfRevision,
                  ContextsAgree, RevisionsAgree, PatchesOf
    <2>5. ContextsAreOfConnections' /\ PatchesAreRecent'
      BY <2>1 DEF MeasurementInv, ContextsAreOfConnections, PatchesAreRecent,
                  PatchesOf, StillAt, Revisions
    <2> QED BY <2>2, <2>3, <2>4, <2>5 DEF MeasurementInv
  <1>2. CASE Ready(session) /\ Head(inbox).kind = "notice"
    BY <1>2, NoticeStep
  <1>3. CASE Ready(session) /\ Head(inbox).kind # "notice"
    BY <1>3, ReplyStep
  <1> QED BY <1>1, <1>2, <1>3

-----------------------------------------------------------------------------
(* Steps that leave the probes and the requests alone.                     *)

\* What is measured stays as recent as it was: time goes on, frames of new
\* kinds of news come, the client leaves its world only now.
LEMMA ProbesLeftAlone ==
    ASSUME MeasurementInv, Types', RepliesAreRecent',
           UNCHANGED <<work, probe, published>>,
           session'.gen = session.gen, now <= now',
           \A r \in Revisions, t \in Int :
             StillAt(r, t) /\ t <= now => StillAt(r, t)'
    PROVE  MeasurementInv'
PROOF
  <1>1. /\ now \in Nat /\ now' \in Nat /\ Revisions' = Revisions
    BY WorkloadType DEF MeasurementInv, Types, TypeOK, Revisions
  <1>2. PendingIsPublished'
    <2> SUFFICES ASSUME NEW k \in Kinds, published[k] # NoRequest
                 PROVE  published[k].sentAt <= now'
      BY DEF MeasurementInv, PendingIsPublished
    <2>1. published[k].sentAt <= now
      BY DEF MeasurementInv, PendingIsPublished
    <2>2. published[k].sentAt \in Nat
      BY WorkloadType DEF MeasurementInv, Types, TypeOK, Requests
    <2> QED BY <1>1, <2>1, <2>2
  <1>3. PatchesAreRecent'
    <2> SUFFICES ASSUME NEW k \in Kinds, NEW q \in PatchesOf(probe[k])
                 PROVE  /\ q.by <= session.gen
                        /\ q.revision \in Revisions
                        /\ q.until - Lifetime <= now'
                        /\ probe[k].context = session.gen
                             => q.by = session.gen
                        /\ q.by = session.gen
                             => StillAt(q.revision, q.until - Lifetime)'
      BY <1>1 DEF PatchesAreRecent, PatchesOf
    <2>1. /\ q.by <= session.gen /\ q.revision \in Revisions
          /\ q.until - Lifetime <= now
          /\ probe[k].context = session.gen => q.by = session.gen
          /\ q.by = session.gen => StillAt(q.revision, q.until - Lifetime)
      BY DEF MeasurementInv, PatchesAreRecent
    <2>2. q \in Patches
      BY DEF MeasurementInv, Types, TypeOK, PatchesOf
    <2>3. q.until - Lifetime \in Int
      BY <2>2, WorkloadType, MeasurementAssumption DEF MeasurementInv, Patches
    <2> QED BY <1>1, <2>1, <2>3
  <1>4. /\ ContextsAreOfConnections' /\ GroundIsOfRevision'
        /\ ContextsAgree' /\ RevisionsAgree'
    BY DEF MeasurementInv, ContextsAreOfConnections, GroundIsOfRevision,
           ContextsAgree, RevisionsAgree, PatchesOf
  <1> QED BY <1>2, <1>3, <1>4 DEF MeasurementInv

\* Time goes on.
LEMMA AdvanceStep ==
    ASSUME MeasurementInv, Advance, work' = work
    PROVE  MeasurementInv'
PROOF
  <1>1. /\ Types /\ now < work.time /\ now' = now + 1
        /\ UNCHANGED <<session, probe, published, inbox, client, left>>
    BY DEF MeasurementInv, Advance, serverVars, clientVars
  <1>2. now' \in 0..work.time /\ now <= now'
    BY <1>1, WorkloadType DEF Types, TypeOK
  <1>3. Types'
    <2>1. TypeOK'
      BY <1>1, <1>2 DEF Types, TypeOK, Requests, Patches, Revisions
    <2> QED BY <1>1, <2>1 DEF Types, Frames, ClientRecord, Revisions
  <1>4. RepliesAreRecent'
    BY <1>1 DEF MeasurementInv, RepliesAreRecent, StillAt
  <1>5. \A r, t : StillAt(r, t)' <=> StillAt(r, t)
    BY <1>1 DEF StillAt
  <1> QED BY <1>1, <1>2, <1>3, <1>4, <1>5, ProbesLeftAlone

\* The connection is lost, or its Hello is, or it greets again.
LEMMA SessionStep ==
    ASSUME MeasurementInv, LoseSession \/ EvictHello \/ Greet, work' = work
    PROVE  MeasurementInv'
PROOF
  <1>1. /\ Types
        /\ UNCHANGED <<now, probe, published, inbox, client, left>>
    BY DEF MeasurementInv, LoseSession, EvictHello, Greet, clientVars
  <1>2. /\ session \in [ gen : 0..work.gens, lapses : 0..work.lapses,
                         state : {"none", "ready", "lapsed", "lost"} ]
        /\ session.state # "none"
    BY <1>1 DEF Types, TypeOK, LoseSession, EvictHello, Greet, Ready
  <1>3. /\ session' \in [ gen : 0..work.gens, lapses : 0..work.lapses,
                          state : {"none", "ready", "lapsed", "lost"} ]
        /\ session'.gen = session.gen
    <2>1. CASE LoseSession
      BY <1>2, <2>1 DEF LoseSession
    <2>2. CASE EvictHello
      <3>1. session.lapses + 1 \in 0..work.lapses
        BY <1>1, <1>2, <2>2, WorkloadType DEF EvictHello
      <3> QED BY <1>2, <2>2, <3>1 DEF EvictHello
    <2>3. CASE Greet
      BY <1>2, <2>3 DEF Greet
    <2> QED BY <2>1, <2>2, <2>3
  <1>4. session.gen # 0
    BY <1>1, <1>2 DEF Types
  <1>5. Types'
    <2>1. TypeOK'
      BY <1>1, <1>3 DEF Types, TypeOK, Requests, Patches, Revisions
    <2> QED BY <1>1, <1>3, <1>4, <2>1
            DEF Types, Frames, ClientRecord, Revisions
  <1>6. RepliesAreRecent'
    BY <1>1 DEF MeasurementInv, RepliesAreRecent, StillAt
  <1>7. \A r, t : StillAt(r, t)' <=> StillAt(r, t)
    BY <1>1 DEF StillAt
  <1>8. now <= now'
    BY <1>1, WorkloadType DEF Types, TypeOK
  <1> QED BY <1>1, <1>3, <1>5, <1>6, <1>7, <1>8, ProbesLeftAlone

-----------------------------------------------------------------------------
(* The client.                                                             *)

\* A world that is left was the client's world until now.
LEMMA WorldStep ==
    ASSUME MeasurementInv, WorldChanges, work' = work
    PROVE  MeasurementInv'
PROOF
  <1>1. /\ Types /\ RepliesAreRecent /\ PendingIsPublished
        /\ UNCHANGED <<now, session, probe, published, inbox>>
        /\ client \in ClientRecord /\ now \in 0..work.time /\ now \in Nat
        /\ left \in [Revisions -> 0..work.time]
        /\ left' = [left EXCEPT ![client.revision] = now]
    BY SMTT(30), WorkloadType
       DEF MeasurementInv, Types, TypeOK, WorldChanges, serverVars
  <1>2. PICK ready \in BOOLEAN :
          client' = [ client EXCEPT !.revision = @ + 1, !.ready = ready ]
    BY DEF WorldChanges
  <1>3. client.revision + 1 \in Revisions
    BY <1>1, WorkloadType DEF WorldChanges, ClientRecord, Revisions
  <1>4. /\ client' \in ClientRecord
        /\ client.revision \in Revisions
        /\ left' \in [Revisions -> 0..work.time]
    BY <1>1, <1>2, <1>3 DEF ClientRecord
  <1>5. Types'
    <2>1. TypeOK'
      BY <1>1, <1>4 DEF Types, TypeOK, Requests, Patches, Revisions,
                        ClientRecord
    <2> QED BY <1>1, <1>4, <2>1 DEF Types, Frames, ClientRecord, Revisions
  <1>6. \A r \in Revisions, t \in Int :
          StillAt(r, t) /\ t <= now => StillAt(r, t)'
    <2> SUFFICES ASSUME NEW r \in Revisions, NEW t \in Int, StillAt(r, t),
                        t <= now
                 PROVE  left'[r] >= t
      BY DEF StillAt
    <2>1. CASE r = client.revision
      <3>1. left'[r] = now
        BY <1>1, <2>1
      <3> QED BY <1>1, <3>1
    <2>2. CASE r # client.revision
      <3>1. left'[r] = left[r]
        BY <1>1, <2>2
      <3> QED BY <2>2, <3>1 DEF StillAt
    <2> QED BY <2>1, <2>2
  <1>7. RepliesAreRecent'
    <2> SUFFICES ASSUME NEW i \in 1..Len(inbox), NEW k \in Kinds,
                        inbox[i].kind = k, inbox[i].id = published[k].id
                 PROVE  StillAt(inbox[i].revision, published[k].sentAt)'
      BY <1>1 DEF RepliesAreRecent
    <2>1. inbox[i] \in Frames
      BY <1>1, ElementOfSeq DEF Types
    <2>2. inbox[i].revision \in Revisions /\ inbox[i].id # 0
      BY <2>1 DEF Frames, Kinds
    <2>3. published[k] # NoRequest
      BY <2>2 DEF NoRequest
    <2>4. published[k].sentAt \in Int /\ published[k].sentAt <= now
      BY <1>1, <2>3, WorkloadType
         DEF PendingIsPublished, Types, TypeOK, Requests
    <2>5. StillAt(inbox[i].revision, published[k].sentAt)
      BY <1>1 DEF RepliesAreRecent
    <2> DEFINE r == inbox[i].revision
               t == published[k].sentAt
    <2>6. \/ r = client'.revision
          \/ left'[r] >= t
      <3> HIDE DEF r, t
      <3>1. r \in Revisions /\ t \in Int /\ t <= now /\ StillAt(r, t)
        BY <2>2, <2>4, <2>5 DEF r, t
      <3> QED BY <1>6, <3>1 DEF StillAt
    <2> QED BY <1>1, <2>6 DEF StillAt
  <1>8. session'.gen = session.gen /\ now <= now'
    BY <1>1
  <1> QED BY <1>1, <1>5, <1>6, <1>7, <1>8, ProbesLeftAlone

\* A frame is sent: if it answers the request published last, it is of the
\* world the client is in.
LEMMA FrameSent ==
    ASSUME Types, RepliesAreRecent, NEW frame \in Frames, Send(frame),
           \/ frame.kind = "notice"
           \/ frame.kind \in Kinds /\ frame.revision = client.revision,
           UNCHANGED <<published, left>>, client'.revision = client.revision
    PROVE  /\ inbox' \in Seq(Frames) /\ Len(inbox') <= work.frames
           /\ RepliesAreRecent'
PROOF
  <1>1. /\ inbox \in Seq(Frames) /\ Len(inbox) < work.frames
        /\ inbox' = Append(inbox, frame) /\ work.frames \in Nat
    BY WorkloadType DEF Types, Send
  <1>2. /\ inbox' \in Seq(Frames) /\ Len(inbox') = Len(inbox) + 1
        /\ inbox'[Len(inbox) + 1] = frame
        /\ \A i \in 1..Len(inbox) : inbox'[i] = inbox[i]
    BY <1>1, AppendProperties
  <1>3. Len(inbox) \in Nat
    BY <1>1, LenProperties
  <1>4. ASSUME NEW i \in 1..Len(inbox'), NEW k \in Kinds,
               inbox'[i].kind = k, inbox'[i].id = published[k].id
        PROVE  StillAt(inbox'[i].revision, published[k].sentAt)
    <2>1. CASE i \in 1..Len(inbox)
      BY <1>2, <1>4, <2>1 DEF RepliesAreRecent
    <2>2. CASE i = Len(inbox) + 1
      <3>1. frame.kind = k /\ frame.kind # "notice"
        BY <1>2, <1>4, <2>2 DEF Kinds
      <3> QED BY <1>2, <2>2, <3>1 DEF StillAt
    <2> QED BY <1>2, <1>3, <2>1, <2>2
  <1> QED BY <1>1, <1>2, <1>3, <1>4 DEF RepliesAreRecent, StillAt

\* The client tells the server of its world.
LEMMA SendNoticeStep ==
    ASSUME MeasurementInv, SendNotice, work' = work
    PROVE  MeasurementInv'
PROOF
  <1> DEFINE frame == [ kind |-> "notice", revision |-> client.revision,
                        ready |-> client.ready ]
  <1>1. /\ Types /\ RepliesAreRecent /\ Send(frame)
        /\ client' = [client EXCEPT !.told = World]
        /\ UNCHANGED <<now, session, probe, published, left>>
        /\ client \in ClientRecord
    BY DEF MeasurementInv, Types, SendNotice, serverVars
  <1>2. /\ client' \in ClientRecord /\ client'.revision = client.revision
        /\ frame \in Frames /\ frame.kind = "notice"
    BY <1>1 DEF ClientRecord, Frames, World
  <1> HIDE DEF frame
  <1>3. /\ inbox' \in Seq(Frames) /\ Len(inbox') <= work.frames
        /\ RepliesAreRecent'
    BY <1>1, <1>2, FrameSent
  <1>4. Types'
    <2>1. TypeOK'
      BY <1>1, <1>2, <1>3
         DEF Types, TypeOK, Requests, Patches, Revisions, ClientRecord
    <2> QED BY <1>1, <1>2, <1>3, <2>1
            DEF Types, Frames, ClientRecord, Revisions
  <1>5. \A r, t : StillAt(r, t)' <=> StillAt(r, t)
    BY <1>1, <1>2 DEF StillAt
  <1>6. now <= now'
    BY <1>1, WorkloadType DEF Types, TypeOK
  <1> QED BY <1>1, <1>3, <1>4, <1>5, <1>6, ProbesLeftAlone

\* The client answers a request with a measurement of the world it is in.
LEMMA SendReplyStep ==
    ASSUME MeasurementInv, NEW kind \in Kinds, SendReply(kind), work' = work
    PROVE  MeasurementInv'
PROOF
  <1>1. /\ Types /\ RepliesAreRecent /\ PendingIsPublished
        /\ published[kind] # NoRequest
        /\ UNCHANGED <<now, session, probe, published, client, left>>
        /\ client \in ClientRecord
    BY DEF MeasurementInv, Types, SendReply, serverVars, clientVars
  <1>2. PICK complete \in BOOLEAN :
          Send([ kind |-> kind, id |-> published[kind].id,
                 revision |-> client.revision, complete |-> complete ])
    BY DEF SendReply
  <1> DEFINE frame == [ kind |-> kind, id |-> published[kind].id,
                        revision |-> client.revision, complete |-> complete ]
  <1>3. published[kind].id \in 1..(work.frames + 2)
    <2>1. published[kind].id # 0
      BY <1>1 DEF PendingIsPublished
    <2>2. published[kind].id \in 0..(work.frames + 2)
      BY <1>1 DEF Types, TypeOK, Requests
    <2> QED BY <1>1, <2>1, <2>2, WorkloadType
  <1>4. /\ frame \in Frames /\ frame.kind \in Kinds
        /\ frame.revision = client.revision
    BY <1>1, <1>3 DEF Frames, ClientRecord
  <1>5. Send(frame)
    BY <1>2
  <1> HIDE DEF frame
  <1>6. /\ inbox' \in Seq(Frames) /\ Len(inbox') <= work.frames
        /\ RepliesAreRecent'
    BY <1>1, <1>4, <1>5, FrameSent
  <1>7. Types'
    <2>1. TypeOK'
      BY <1>1, <1>6 DEF Types, TypeOK, Requests, Patches, Revisions
    <2> QED BY <1>1, <1>6, <2>1 DEF Types, Frames, ClientRecord, Revisions
  <1>8. \A r, t : StillAt(r, t)' <=> StillAt(r, t)
    BY <1>1 DEF StillAt
  <1>9. now <= now'
    BY <1>1, WorkloadType DEF Types, TypeOK
  <1> QED BY <1>1, <1>6, <1>7, <1>8, <1>9, ProbesLeftAlone

-----------------------------------------------------------------------------
(* The invariant.                                                          *)

LEMMA MeasurementInvInit == Init => MeasurementInv
PROOF
  <1> SUFFICES ASSUME Init PROVE MeasurementInv
    OBVIOUS
  <1>1. work \in Workload
    BY MeasurementAssumption DEF Init
  <1>2. /\ work.gens \in Nat /\ work.lapses \in Nat
        /\ work.revisions \in Nat \ {0} /\ work.frames \in Nat \ {0}
        /\ work.time \in Nat
    BY <1>1 DEF Workload
  <1>3. NoRequest \in Requests /\ NoPatch \in Patches
    BY <1>2, MeasurementAssumption DEF NoRequest, NoPatch, Requests, Patches
  <1>4. FreshProbe \in Probes /\ NoRequests \in [Kinds -> Requests]
    BY <1>2, <1>3, MeasurementAssumption DEF FreshProbe, Probes, NoRequests
  <1>5. probe \in [Kinds -> Probes] /\ \A k \in Kinds : probe[k] = FreshProbe
    BY <1>4 DEF Init, FreshProbes
  <1>6. client \in ClientRecord
    BY <1>2 DEF Init, ClientRecord, Revisions
  <1>7. inbox \in Seq(Frames) /\ Len(inbox) = 0
    BY EmptySeq DEF Init
  <1>8. left \in [Revisions -> 0..work.time]
    BY <1>2 DEF Init
  <1>9. TypeOK
    BY <1>2, <1>4, <1>5, <1>6, <1>7, <1>8
       DEF Init, TypeOK, Probes, ClientRecord
  <1>10. Types
    BY <1>6, <1>7, <1>9 DEF Init, Types
  <1>11. PendingIsPublished /\ RepliesAreRecent
    BY <1>5, <1>7 DEF Init, PendingIsPublished, RepliesAreRecent, NoRequests,
                      FreshProbe
  <1>12. \A k \in Kinds : PatchesOf(probe[k]) = {}
    BY <1>5 DEF PatchesOf, FreshProbe
  <1>13. PatchesAreRecent /\ GroundIsOfRevision
    BY <1>12 DEF PatchesAreRecent, GroundIsOfRevision, Kinds
  <1>14. ContextsAreOfConnections /\ ContextsAgree /\ RevisionsAgree
    <2>1. \A k \in Kinds : /\ probe[k].context = 0 /\ probe[k].revision = 0
                           /\ probe[k].ready = FALSE
      BY <1>5 DEF FreshProbe
    <2>2. session.gen = 0
      BY DEF Init
    <2>3. ContextsAreOfConnections
      BY <2>1, <2>2 DEF ContextsAreOfConnections
    <2>4. ContextsAgree
      BY <2>1, <2>2 DEF ContextsAgree, Kinds
    <2>5. RevisionsAgree
      BY <2>1 DEF RevisionsAgree, Kinds
    <2> QED BY <2>3, <2>4, <2>5
  <1> QED BY <1>10, <1>11, <1>13, <1>14 DEF MeasurementInv

LEMMA MeasurementInvStep == MeasurementInv /\ [Next]_vars => MeasurementInv'
PROOF
  <1> SUFFICES ASSUME MeasurementInv, [Next]_vars PROVE MeasurementInv'
    OBVIOUS
  <1>1. CASE UNCHANGED vars
    <2>1. Types /\ RepliesAreRecent
          /\ UNCHANGED <<work, now, session, probe, published, inbox, client,
                         left>>
      BY <1>1 DEF MeasurementInv, vars
    <2>2. Types'
      <3>1. TypeOK'
        BY <2>1 DEF Types, TypeOK, Requests, Patches, Revisions
      <3> QED BY <2>1, <3>1 DEF Types, Frames, ClientRecord, Revisions
    <2>3. RepliesAreRecent' /\ \A r, t : StillAt(r, t)' <=> StillAt(r, t)
      BY <2>1 DEF RepliesAreRecent, StillAt
    <2>4. now <= now'
      BY <2>1, WorkloadType DEF Types, TypeOK
    <2> QED BY <2>1, <2>2, <2>3, <2>4, ProbesLeftAlone
  <1>2. CASE Next
    <2>1. work' = work /\ Step
      BY <1>2 DEF Next
    <2>2. CASE Tick
      BY <2>1, <2>2, TickStep
    <2>3. CASE Advance
      BY <2>1, <2>3, AdvanceStep
    <2>4. CASE Reconnect
      BY <2>1, <2>4, ReconnectStep
    <2>5. CASE NewSimulation
      BY <2>1, <2>5, NewSimulationStep
    <2>6. CASE ReloadMap
      BY <2>1, <2>6, ReloadMapStep
    <2>7. CASE LoseSession \/ EvictHello \/ Greet
      BY <2>1, <2>7, SessionStep
    <2>8. CASE HandleFrame
      BY <2>1, <2>8, FrameStep
    <2>9. CASE WorldChanges
      BY <2>1, <2>9, WorldStep
    <2>10. CASE SendNotice
      BY <2>1, <2>10, SendNoticeStep
    <2>11. ASSUME NEW kind \in Kinds, SendReply(kind) PROVE MeasurementInv'
      BY <2>1, <2>11, SendReplyStep
    <2> QED BY <2>1, <2>2, <2>3, <2>4, <2>5, <2>6, <2>7, <2>8, <2>9, <2>10,
               <2>11 DEF Step
  <1> QED BY <1>1, <1>2

-----------------------------------------------------------------------------
(* What a physics step relies on.                                          *)

\* The measurements of a step are patches the probes hold, in the context of
\* the present connection, in use and of the revision announced last.
LEMMA MeasurementsAreHeld ==
    ASSUME MeasurementInv, NEW q \in Measurements
    PROVE  /\ \E k \in Kinds : q \in PatchesOf(probe[k])
           /\ q.by = session.gen
           /\ q.revision = probe["ground"].revision
           /\ now < q.until
PROOF
  <1> DEFINE gen == session.gen
             ground == Prepared(probe, session)["ground"]
             obstacles == Prepared(probe, session)["obstacles"]
  <1>1. /\ Types /\ PendingIsPublished /\ Kinds = {"ground", "obstacles"}
        /\ Ready(session) /\ Fresh(ground) # {}
        /\ q \in Fresh(ground) \cup Usable(obstacles)
    BY DEF MeasurementInv, Measurements, Kinds
  <1>2. /\ probe["ground"] \in Probes /\ probe["obstacles"] \in Probes
        /\ gen \in 0..work.gens
    BY <1>1 DEF Types, TypeOK, Probes
  <1>3. /\ ground = Prepare("ground", ResetContext(probe["ground"], gen))
        /\ obstacles = Prepare("obstacles", probe["obstacles"])
    BY <1>1 DEF Prepared
  <1>4. Same(obstacles, probe["obstacles"])
    BY <1>1, <1>2, <1>3, PrepareType
  <1>5. /\ ResetContext(probe["ground"], gen) \in Probes
        /\ probe["ground"].context = gen
             => ResetContext(probe["ground"], gen) = probe["ground"]
        /\ probe["ground"].context # gen
             => Blank(ResetContext(probe["ground"], gen), gen)
    BY <1>1, <1>2, ResetContextType
  <1>6. Same(ground, ResetContext(probe["ground"], gen))
    BY <1>1, <1>3, <1>5, PrepareType
  <1> HIDE DEF ground, obstacles
  <1>7. PICK p \in PatchesOf(ground) : TRUE
    BY <1>1 DEF Fresh, PatchesOf
  <1>8. probe["ground"].context = gen
    BY <1>5, <1>6, <1>7 DEF Same, Blank, PatchesOf
  <1>9. /\ PatchesOf(ground) = PatchesOf(probe["ground"])
        /\ PatchesOf(obstacles) = PatchesOf(probe["obstacles"])
        /\ obstacles.revision = probe["obstacles"].revision
    BY <1>4, <1>5, <1>6, <1>8 DEF Same, PatchesOf
  <1>10. probe["ground"].revision # 0
    <2>1. p.revision = probe["ground"].revision /\ p.revision \in Revisions
      BY <1>1, <1>7, <1>9
         DEF MeasurementInv, GroundIsOfRevision, PatchesAreRecent
    <2> QED BY <1>1, <2>1, WorkloadType DEF Revisions
  <1>11. /\ probe["obstacles"].context = gen
         /\ probe["obstacles"].revision = probe["ground"].revision
    BY <1>8, <1>10 DEF MeasurementInv, ContextsAgree, RevisionsAgree
  <1>12. CASE q \in Fresh(ground)
    <2>1. q \in PatchesOf(probe["ground"]) /\ now < q.until
      BY <1>9, <1>12 DEF Fresh, PatchesOf
    <2> QED BY <1>1, <1>8, <2>1
            DEF MeasurementInv, PatchesAreRecent, GroundIsOfRevision
  <1>13. CASE q \in Usable(obstacles)
    <2>1. /\ q \in PatchesOf(probe["obstacles"]) /\ now < q.until
          /\ q.revision = obstacles.revision
      BY <1>9, <1>13 DEF Usable, Fresh, PatchesOf
    <2> QED BY <1>1, <1>9, <1>11, <2>1 DEF MeasurementInv, PatchesAreRecent
  <1> QED BY <1>1, <1>12, <1>13

\* A physics step relies on measurements of one connection and one revision.
LEMMA MeasurementInvOneWorld == MeasurementInv => StepsUseOneWorld
PROOF
  BY MeasurementsAreHeld DEF StepsUseOneWorld

\* And of a world the client was in less than a lifetime ago.
LEMMA MeasurementInvRecent == MeasurementInv => WorldIsRecent
PROOF
  <1> SUFFICES ASSUME MeasurementInv, NEW q \in Measurements,
                      q.revision # client.revision
               PROVE  now - left[q.revision] < Lifetime
    BY DEF WorldIsRecent
  <1>1. PICK k \in Kinds : q \in PatchesOf(probe[k])
    BY MeasurementsAreHeld
  <1>2. q.by = session.gen /\ now < q.until
    BY MeasurementsAreHeld
  <1>3. /\ StillAt(q.revision, q.until - Lifetime)
        /\ q.revision \in Revisions
    BY <1>1, <1>2 DEF MeasurementInv, PatchesAreRecent
  <1>4. left[q.revision] >= q.until - Lifetime
    BY <1>3 DEF StillAt
  <1>5. /\ left[q.revision] \in Int /\ now \in Int
    BY <1>3, WorkloadType DEF MeasurementInv, Types, TypeOK
  <1>6. q.until \in Int
    <2>1. q \in Patches
      BY <1>1 DEF MeasurementInv, Types, TypeOK, PatchesOf
    <2> QED BY <2>1, WorkloadType, MeasurementAssumption
            DEF MeasurementInv, Patches
  <1> QED BY <1>2, <1>4, <1>5, <1>6, MeasurementAssumption

-----------------------------------------------------------------------------
(* Theorems.                                                               *)

\* The inductive invariant holds in every state the server and its client
\* reach: contexts, revisions and times of what is measured fit together.
THEOREM MeasurementInvariant == Spec => []MeasurementInv
PROOF
  BY MeasurementInvInit, MeasurementInvStep, PTL DEF Spec

\* Requests, measurements, frames and worlds stay what they are meant to be.
THEOREM MeasurementTypes == Spec => []TypeOK
PROOF
  <1>1. MeasurementInv => TypeOK
    BY DEF MeasurementInv, Types
  <1> QED BY <1>1, MeasurementInvariant, PTL

\* Ground and obstacles of one context know the same revision of the world:
\* a world notice is taken by both or by none.
THEOREM ProbesKnowOneRevision == Spec => []RevisionsAgree
PROOF
  <1>1. MeasurementInv => RevisionsAgree
    BY DEF MeasurementInv
  <1> QED BY <1>1, MeasurementInvariant, PTL

\* No physics step mixes worlds: whatever it relies on, of ground and of
\* obstacles, was measured by the client that owns the vehicle now, in the
\* revision that client announced last.
THEOREM PhysicsUsesOneWorld == Spec => []StepsUseOneWorld
PROOF
  BY MeasurementInvariant, MeasurementInvOneWorld, PTL

\* However late notices and replies are, the world a physics step relies on
\* is the client's world still, or was it less than a lifetime ago.
THEOREM PhysicsUsesARecentWorld == Spec => []WorldIsRecent
PROOF
  BY MeasurementInvariant, MeasurementInvRecent, PTL
=============================================================================
