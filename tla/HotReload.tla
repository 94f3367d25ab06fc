------------------------------ MODULE HotReload ------------------------------
(***************************************************************************)
(* How a map package and its traffic network reach the running server.     *)
(*                                                                         *)
(* Four actors share the package directory, without any lock.  The         *)
(* exporter in the editor replaces the payload files one by one and the    *)
(* manifest last.  An author rewrites the traffic network beside it.  Two  *)
(* threads of the server poll: MapPackageHotReloader                       *)
(* (terrain/map_package_runtime.cpp) and TrafficNetworkHotReloader         *)
(* (traffic/traffic_network_hot_reloader.cpp).  What they have verified    *)
(* waits in two slots, each under a mutex, until a tick of the host        *)
(* installs it (simulation_host.cpp).                                      *)
(*                                                                         *)
(* A checksum is the contents it was computed from.  A file signature      *)
(* (modification time and size) is the number of times the file was        *)
(* written.  The length of a backoff is left open: retryDue says that it   *)
(* is over.                                                                *)
(***************************************************************************)
EXTENDS Integers

CONSTANTS
    Contents,      \* what a payload file may contain
    FirstContent,  \* what the files contain when the server starts
    Networks,      \* what a traffic network may contain beside its checksum
    NoBytes, NoMap, NoTraffic,   \* nothing remembered, nothing queued
    Workloads,     \* is there a --traffic-network, and bounds on the bakes
                   \* and on the rewrites of the network
    MaxFaults      \* bound on the transient errors of the two threads

ASSUME ReloadAssumption ==
    /\ FirstContent \in Contents
    /\ Workloads \subseteq [traffic : BOOLEAN, bakes : Nat, edits : Nat]
    /\ MaxFaults \in Nat

\* ground_heightfield.bin and static_colliders.csv; the sentinel file
\* ground_surface.csv never changes.
Files == {"ground", "colliders"}
Checksums == [Files -> Contents]
Sidecars == [source : Checksums, network : Networks]
Packages == [checksum : Checksums, loaded : [Files -> Contents]]

VARIABLES
    work,        \* the workload of this run, chosen at its start
    content,     \* the payload files
    manifest,    \* manifest.cfg: the checksum it declares
    sidecar,     \* the traffic network: the map it was made for, and the rest
    written,     \* signatures of the manifest and of the traffic network
    baking,      \* the exporter: payload files of this bake yet to replace
    bakes,       \* bakes begun
    loader,      \* MapPackageHotReloader: the poll in progress; its field
                 \* gone is history: what was overwritten meanwhile
    known,       \* MapPackageHotReloader: its fields
    watcher,     \* TrafficNetworkHotReloader
    faults,      \* transient errors so far
    pendingMap, pendingTraffic,   \* the slots of the host
    map, traffic                  \* what the host runs

disk == <<content, manifest, sidecar, written, baking, bakes>>
mapThread == <<loader, known>>
host == <<pendingMap, pendingTraffic, map, traffic>>
reloadVars == <<work, disk, mapThread, watcher, faults, host>>

Signatures == [sidecar : 0..work.edits, manifest : 0..work.bakes]

NothingLoaded == [f \in Files |-> NoBytes]

NothingGone == [ground |-> {}, colliders |-> {}, manifest |-> {}]

Package(c) == [checksum |-> c, loaded |-> c]

\* A poll that is over has no locals left.
NoPoll == [ step |-> "idle", bytes |-> NoBytes, manifest |-> NoBytes,
            loaded |-> NothingLoaded, gone |-> NothingGone ]

\* main() has loaded a complete package, and a network for it or none.
ReloadInit ==
    /\ work \in Workloads
    /\ content = [f \in Files |-> FirstContent]
    /\ manifest = content
    /\ sidecar \in [source : {content}, network : Networks]
    /\ written = [sidecar |-> 0, manifest |-> 0]
    /\ baking = "no" /\ bakes = 0
    /\ loader = [NoPoll EXCEPT !.step = "new"]
    /\ known = [ active |-> manifest, accepted |-> NoBytes,
                 rejected |-> NoBytes, retryDue |-> TRUE ]
    /\ watcher = [ step |-> "idle", stamp |-> NoBytes, observed |-> NoBytes,
                   success |-> NoBytes, retryDue |-> TRUE,
                   checksum |-> NoBytes ]
    /\ faults = 0
    /\ pendingMap = NoMap /\ pendingTraffic = NoTraffic
    /\ map = Package(manifest)
    /\ traffic \in IF work.traffic THEN {sidecar, NoTraffic}
                                         ELSE {NoTraffic}

-----------------------------------------------------------------------------
(* The exporter and the author of the traffic network.                     *)

Polling == loader.step \notin {"new", "idle"}

\* No file returns within one poll to a value it had since the poll began:
\* that would take two bakes during one load.
Overwrite(file, old, new) ==
    /\ Polling => new \notin loader.gone[file]
    /\ loader' = IF Polling /\ old # new
                   THEN [loader EXCEPT !.gone[file] = @ \cup {old}]
                   ELSE loader

BakeGround(c) ==
    /\ baking = "no" /\ bakes < work.bakes
    /\ Overwrite("ground", content["ground"], c)
    /\ content' = [content EXCEPT !["ground"] = c]
    /\ baking' = "colliders"
    /\ bakes' = bakes + 1
    /\ UNCHANGED <<manifest, sidecar, written, known, watcher, faults, host>>

BakeColliders(c) ==
    /\ baking = "colliders"
    /\ Overwrite("colliders", content["colliders"], c)
    /\ content' = [content EXCEPT !["colliders"] = c]
    /\ baking' = "manifest"
    /\ UNCHANGED <<manifest, sidecar, written, bakes, known, watcher, faults,
                   host>>

\* WriteManifestLast: the commit marker.
CommitManifest ==
    /\ baking = "manifest"
    /\ Overwrite("manifest", manifest, content)
    /\ manifest' = content
    /\ written' = [written EXCEPT !.manifest = @ + 1]
    /\ baking' = "no"
    /\ UNCHANGED <<content, sidecar, bakes, known, watcher, faults, host>>

\* A move of a file fails, or the editor dies.  "Bake again before using
\* this intentionally fail-closed package."
BakeFails ==
    /\ baking # "no"
    /\ baking' = "no"
    /\ UNCHANGED <<content, manifest, sidecar, written, bakes, mapThread,
                   watcher, faults, host>>

EditSidecar(n) ==
    /\ written.sidecar < work.edits
    /\ sidecar' = [source |-> manifest, network |-> n]
    /\ written' = [written EXCEPT !.sidecar = @ + 1]
    /\ UNCHANGED <<content, manifest, baking, bakes, mapThread,
                   watcher, faults, host>>

-----------------------------------------------------------------------------
(* MapPackageHotReloader.                                                  *)

\* Mutant of FirstAccepted: the constructor acknowledges what it finds.
ManifestOnDisk == manifest

\* The constructor acknowledges no manifest.
FirstAccepted == NoBytes

Construct ==
    /\ loader.step = "new"
    /\ loader' = NoPoll
    /\ known' = [known EXCEPT !.accepted = FirstAccepted]
    /\ UNCHANGED <<disk, watcher, faults, host>>

\* A rejected manifest is tried again when its delay is over.
MayTry(bytes) ==
    /\ bytes # known.accepted
    /\ bytes = known.rejected => known.retryDue

PollManifest ==
    /\ loader.step = "idle"
    /\ MayTry(manifest)
    /\ loader' = [loader EXCEPT !.step = "parse", !.bytes = manifest]
    /\ UNCHANGED <<disk, known, watcher, faults, host>>

Reject ==
    /\ loader' = NoPoll
    /\ known' = [known EXCEPT !.rejected = loader.bytes, !.retryDue = FALSE]

ReadManifest ==
    /\ loader.step = "parse"
    /\ loader' = [loader EXCEPT !.step = "hash ground", !.manifest = manifest]
    /\ UNCHANGED <<disk, known, watcher, faults, host>>

\* Mutant of StillMatches: the final checksum pass is left out.
AssumedUnchanged(file) == TRUE

\* The final checksum pass.
StillMatches(file) == content[file] = loader.manifest[file]

Check(step, passed, next) ==
    /\ loader.step = step
    /\ IF passed
         THEN loader' = [loader EXCEPT !.step = next] /\ UNCHANGED known
         ELSE Reject
    /\ UNCHANGED <<disk, watcher, faults, host>>

LoadFile(step, file, next) ==
    /\ loader.step = step
    /\ loader' = [ loader EXCEPT !.step = next,
                                 !.loaded[file] = content[file] ]
    /\ UNCHANGED <<disk, known, watcher, faults, host>>

\* load_runtime_map_package(): parse the manifest and verify its checksum,
\* load the two payloads, verify the checksum again.
LoadPackage ==
    \/ ReadManifest
    \/ Check("hash ground", content["ground"] = loader.manifest["ground"],
             "hash colliders")
    \/ Check("hash colliders",
             content["colliders"] = loader.manifest["colliders"],
             "load ground")
    \/ LoadFile("load ground", "ground", "load colliders")
    \/ LoadFile("load colliders", "colliders", "rehash ground")
    \/ Check("rehash ground", StillMatches("ground"), "rehash colliders")
    \/ Check("rehash colliders", StillMatches("colliders"), "verify")

Acknowledged ==
    [ active |-> loader.manifest, accepted |-> loader.bytes,
      rejected |-> NoBytes, retryDue |-> TRUE ]

\* The manifest bytes must be those the poll began with.  A package that is
\* active already is acknowledged and not delivered.
DeliverPackage ==
    /\ loader.step = "verify"
    /\ IF manifest # loader.bytes
         THEN Reject /\ UNCHANGED pendingMap
         ELSE /\ known' = Acknowledged
              /\ loader' = NoPoll
              /\ pendingMap' = IF loader.manifest = known.active
                                 THEN pendingMap
                                 ELSE [ checksum |-> loader.manifest,
                                        loaded   |-> loader.loaded ]
    /\ UNCHANGED <<disk, watcher, faults, pendingTraffic, map, traffic>>

\* Any exception of the poll: a sharing violation, a callback that throws.
LoaderFault ==
    /\ Polling /\ faults < MaxFaults
    /\ faults' = faults + 1
    /\ Reject
    /\ UNCHANGED <<disk, watcher, host>>

LoaderRetryDue ==
    /\ ~known.retryDue
    /\ known' = [known EXCEPT !.retryDue = TRUE]
    /\ UNCHANGED <<disk, loader, watcher, faults, host>>

-----------------------------------------------------------------------------
(* TrafficNetworkHotReloader.  It takes the signatures first and acts on   *)
(* what it finds behind them later.                                        *)

OthersThanWatcher == <<disk, mapThread>>

StampSidecar ==
    /\ work.traffic
    /\ watcher.step = "idle"
    /\ watcher' = [ watcher EXCEPT !.step = "stamp manifest",
                                   !.stamp = written ]
    /\ UNCHANGED <<OthersThanWatcher, faults, host>>

\* A new signature is tried at once, a failed one when its delay is over, a
\* successful one never again.
StampManifest ==
    /\ watcher.step = "stamp manifest"
    /\ LET stamp == [watcher.stamp EXCEPT !.manifest = written.manifest]
           due   == watcher.retryDue \/ stamp # watcher.observed
           load  == stamp # watcher.success /\ due
       IN  watcher' = [ watcher EXCEPT
                          !.step     = IF load THEN "load map" ELSE "idle",
                          !.stamp    = IF load THEN stamp ELSE NoBytes,
                          !.observed = stamp,
                          !.retryDue = due ]
    /\ UNCHANGED <<OthersThanWatcher, faults, host>>

WatcherIdle == [ watcher EXCEPT !.step = "idle", !.stamp = NoBytes,
                                !.checksum = NoBytes ]

WatcherFails == watcher' = [WatcherIdle EXCEPT !.retryDue = FALSE]

\* load_runtime_map_package() again, of which only the checksum matters.
WatcherReadsManifest ==
    /\ watcher.step = "load map"
    /\ watcher' = [ watcher EXCEPT !.step = "check map",
                                   !.checksum = manifest ]
    /\ UNCHANGED <<OthersThanWatcher, faults, host>>

WatcherChecksMap ==
    /\ watcher.step = "check map"
    /\ IF content = watcher.checksum
         THEN watcher' = [watcher EXCEPT !.step = "load sidecar"]
         ELSE WatcherFails
    /\ UNCHANGED <<OthersThanWatcher, faults, host>>

\* What a success acknowledges.
LoadedStamp == watcher.stamp

WatcherLoadsSidecar ==
    /\ watcher.step = "load sidecar"
    /\ IF sidecar.source = watcher.checksum
         THEN /\ pendingTraffic' = sidecar
              /\ watcher' = [ WatcherIdle EXCEPT !.success  = LoadedStamp,
                                                 !.retryDue = TRUE ]
         ELSE WatcherFails /\ UNCHANGED pendingTraffic
    /\ UNCHANGED <<OthersThanWatcher, faults, pendingMap, map, traffic>>

WatcherFault ==
    /\ watcher.step # "idle" /\ faults < MaxFaults
    /\ faults' = faults + 1
    /\ WatcherFails
    /\ UNCHANGED <<OthersThanWatcher, host>>

WatcherRetryDue ==
    /\ ~watcher.retryDue
    /\ watcher' = [watcher EXCEPT !.retryDue = TRUE]
    /\ UNCHANGED <<OthersThanWatcher, faults, host>>

-----------------------------------------------------------------------------
(* The tick of the host.                                                   *)

ReloadDue == pendingMap # NoMap /\ pendingMap.checksum # map.checksum

InstallMap ==
    /\ ReloadDue
    /\ map' = pendingMap
    /\ pendingMap' = NoMap
    /\ UNCHANGED <<disk, mapThread, watcher, faults, pendingTraffic,
                   traffic>>

Matches(network) == network # NoTraffic /\ network.source = map.checksum

\* Mutant of StillPending: a network of another map is dropped.
NothingPending == NoTraffic

\* A network of another map waits for its map.
StillPending == IF Matches(pendingTraffic) THEN NoTraffic ELSE pendingTraffic

InstallTraffic ==
    /\ ~ReloadDue
    /\ pendingMap' = NoMap
    /\ traffic' = IF Matches(pendingTraffic) THEN pendingTraffic ELSE traffic
    /\ pendingTraffic' = StillPending
    /\ UNCHANGED <<disk, mapThread, watcher, faults, map>>

Tick == InstallMap \/ InstallTraffic

-----------------------------------------------------------------------------
PollMap == PollManifest \/ LoadPackage \/ DeliverPackage

PollTraffic ==
    StampSidecar \/ StampManifest \/ WatcherReadsManifest
      \/ WatcherChecksMap \/ WatcherLoadsSidecar

ReloadNext ==
    /\ \/ \E c \in Contents : BakeGround(c) \/ BakeColliders(c)
       \/ CommitManifest
       \/ BakeFails
       \/ \E n \in Networks : EditSidecar(n)
       \/ Construct
       \/ PollMap
       \/ LoaderFault
       \/ LoaderRetryDue
       \/ PollTraffic
       \/ WatcherFault
       \/ WatcherRetryDue
       \/ Tick
    /\ UNCHANGED work

ReloadSpec == ReloadInit /\ [][ReloadNext]_reloadVars

\* Both threads and the tick timer keep running and every delay ends.  The
\* exporter and the author need not do anything.
ReloadFairness ==
    /\ WF_reloadVars(Construct /\ UNCHANGED work)
    /\ WF_reloadVars(PollMap /\ UNCHANGED work)
    /\ WF_reloadVars(LoaderRetryDue /\ UNCHANGED work)
    /\ WF_reloadVars(PollTraffic /\ UNCHANGED work)
    /\ WF_reloadVars(WatcherRetryDue /\ UNCHANGED work)
    /\ WF_reloadVars(Tick /\ UNCHANGED work)

FairReloadSpec == ReloadSpec /\ ReloadFairness
-----------------------------------------------------------------------------
LoaderSteps ==
    {"new", "idle", "parse", "hash ground", "hash colliders", "load ground",
     "load colliders", "rehash ground", "rehash colliders", "verify"}

WatcherSteps ==
    {"idle", "stamp manifest", "load map", "check map", "load sidecar"}

\* A manifest is remembered as accepted or as rejected, never as both.
ReloadTypeOK ==
    /\ content \in Checksums /\ manifest \in Checksums
    /\ sidecar \in Sidecars /\ written \in Signatures
    /\ baking \in {"no", "colliders", "manifest"} /\ bakes \in 0..work.bakes
    /\ loader.step \in LoaderSteps
    /\ {loader.bytes, loader.manifest} \subseteq Checksums \cup {NoBytes}
    /\ loader.loaded \in [Files -> Contents \cup {NoBytes}]
    /\ known \in [ active : Checksums, accepted : Checksums \cup {NoBytes},
                   rejected : Checksums \cup {NoBytes}, retryDue : BOOLEAN ]
    /\ known.accepted # NoBytes => known.accepted # known.rejected
    /\ watcher \in [ step : WatcherSteps, stamp : Signatures \cup {NoBytes},
                     observed : Signatures \cup {NoBytes},
                     success : Signatures \cup {NoBytes},
                     retryDue : BOOLEAN,
                     checksum : Checksums \cup {NoBytes} ]
    /\ faults \in 0..MaxFaults
    /\ pendingMap \in Packages \cup {NoMap} /\ map \in Packages
    /\ {pendingTraffic, traffic} \subseteq Sidecars \cup {NoTraffic}

\* "A completely verified, immutable collision snapshot": whatever the
\* exporter replaces while a package is being loaded, ground and colliders
\* that reach the host are those of one manifest.
NoMixedPackage ==
    /\ map.loaded = map.checksum
    /\ pendingMap # NoMap => pendingMap.loaded = pendingMap.checksum

Complete == baking = "no" /\ content = manifest

\* Once the exporter has stopped on a complete package, the host comes to run
\* that package: no bake is overlooked because it fell between two reads, was
\* tried while it was being written, or came before the thread had started.
NewestPackageRuns == <>[](Complete => map = Package(manifest))

\* And once the traffic network fits that package too, the host comes to run
\* it: the two threads may deliver in either order.
NewestTrafficRuns ==
    work.traffic =>
      <>[](Complete /\ sidecar.source = manifest => traffic = sidecar)
=============================================================================
