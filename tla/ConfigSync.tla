------------------------------ MODULE ConfigSync ------------------------------
(***************************************************************************)
(* The configuration of a node lives in three places that the operator     *)
(* keeps in step: the file /etc/k4all-config.json on the host, the         *)
(* ClusterConfig resources, and the ConfigMap k4all-config that the        *)
(* feature controllers read.                                               *)
(*                                                                         *)
(*   ClusterConfigReconciler.Reconcile copies the file into a resource     *)
(*   once, marks the resource with the annotation file-sync = "false", and *)
(*   from then on copies the resource into the file.  It ends by calling   *)
(*   K4allConfigSyncer.SyncConfig, which copies the file into the          *)
(*   ConfigMap.                                                            *)
(*                                                                         *)
(*   K4allConfigSyncer.Start calls SyncConfig too, on a ticker, from a     *)
(*   goroutine of its own.                                                 *)
(*                                                                         *)
(* The API server keeps every object as a log of versions: the resource    *)
(* version is the length of the log, an update is an append that carries   *)
(* the version it was computed from, and an informer cache is a position   *)
(* in the log that only moves forward.                                     *)
(***************************************************************************)
EXTENDS Naturals, Sequences, K4allConfig

CONSTANTS
    Resource,        \* names of the ClusterConfig objects
    UserDocument,    \* documents that people put into the file
    UserSpec,        \* specs that people put into a resource
    Absent,          \* the file does not exist
    Garbage,         \* the file is there and is not a JSON object
    Partial,         \* the file was left half written
    NoDocument,      \* a ConfigMap whose config.json is missing or made by hand
    NoResource,      \* the worker has no key
    MaxUserSteps,    \* bound: steps of people
    MaxResyncs,      \* bound: periodic resyncs of the resource informer
    MaxFaults,       \* bound: transient API or file errors
    MaxCrashes,      \* bound: restarts of the operator
    MaxCmVersions    \* bound: versions of the ConfigMap

ASSUME SyncAssumption ==
    /\ UserDocument \subseteq Document
    /\ UserSpec \subseteq ClusterConfigSpec
    /\ {Absent, Garbage, Partial, NoDocument} \cap Document = {}
    /\ Partial \notin {Absent, Garbage}
    /\ NoResource \notin Resource
    /\ {MaxUserSteps, MaxResyncs, MaxFaults, MaxCrashes,
        MaxCmVersions} \subseteq Nat

VARIABLES
    file,      \* /etc/k4all-config.json
    tmp,       \* /etc/k4all-config.json.tmp
    ns,        \* the namespace k4all-operator-system exists
    crLog,     \* versions of each ClusterConfig
    crSeen,    \* position of the informer cache in each of these logs
    cmLog,     \* versions of the ConfigMap
    cmSeen,    \* position of the informer cache in cmLog
    queue,     \* keys in the work queue of the reconciler
    rec,       \* the reconciler's worker: where it is, its key, what it read
    sync,      \* each process that runs SyncConfig: where it is, what it read
    count,     \* how many user steps, resyncs, faults and crashes happened
    held,      \* history: every document the file has held
    since,     \* history: of each resource, those held since its newest version
    written    \* history: for each resource, the version last written to the file

api     == <<ns, crLog, cmLog>>
caches  == <<crSeen, cmSeen>>
disk    == <<file, tmp>>
history == <<held, since, written>>
vars    == <<file, tmp, ns, crLog, crSeen, cmLog, cmSeen, queue, rec, sync, count,
             held, since, written>>

Syncer == {"reconciler", "ticker"}

\* A version of a ClusterConfig; "by" is the manager that wrote it, and
\* fileSync is false when the annotation file-sync reads "false".
Version == [alive : BOOLEAN, fileSync : BOOLEAN, spec : ClusterConfigSpec,
            by : {"user", "operator"}]

CmVersion == [alive : BOOLEAN, doc : Document \cup {NoDocument},
              by : {"user", "operator"}]

Exists(log) == Len(log) > 0 /\ log[Len(log)].alive

\* The API server takes an update only if it was computed from the newest version.
UpToDate(log, rv) == rv = Len(log)

\* What a read through the cache finds.
SeenAlive(log, pos) == pos > 0 /\ log[pos].alive

Readable(content) == content \in Document

Counted(what, max) ==
    /\ count[what] < max
    /\ count' = [count EXCEPT ![what] = @ + 1]

Idle   == [pc |-> "idle", key |-> NoResource, rv |-> 0, doc |-> NoDocument]
NoSync == [pc |-> "idle", doc |-> NoDocument, rv |-> 0]

WorkerState ==
    [pc  : {"idle", "namespace", "readFile", "update",   \* from the file, or
            "openTemp", "writeTemp", "rename", "sync"},  \* to the file
     key : Resource \cup {NoResource}, rv : Nat, doc : Document \cup {NoDocument}]

SyncState == [pc : {"idle", "read", "get", "create", "update"},
              doc : Document \cup {NoDocument}, rv : Nat]

Event == {"user", "resync", "fault", "crash"}

TypeOK ==
    /\ file \in Document \cup {Absent, Garbage}
    /\ tmp \in Document \cup {Absent, Partial}
    /\ ns \in BOOLEAN
    /\ crLog \in [Resource -> Seq(Version)]
    /\ crSeen \in [Resource -> Nat]
    /\ cmLog \in Seq(CmVersion)
    /\ cmSeen \in Nat
    /\ queue \subseteq Resource
    /\ rec \in WorkerState
    /\ sync \in [Syncer -> SyncState]
    /\ count \in [Event -> Nat]
    /\ held \subseteq Document
    /\ since \in [Resource -> SUBSET Document]
    /\ written \in [Resource -> Nat]

Init ==
    /\ file \in UserDocument \cup {Absent}
    /\ tmp = Absent
    /\ ns \in BOOLEAN
    /\ crLog = [k \in Resource |-> << >>]
    /\ crSeen = [k \in Resource |-> 0]
    /\ cmLog = << >>
    /\ cmSeen = 0
    /\ queue = {}
    /\ rec = Idle
    /\ sync = [p \in Syncer |-> NoSync]
    /\ count = [c \in Event |-> 0]
    /\ held = {file} \cap Document
    /\ since = [k \in Resource |-> held]
    /\ written = [k \in Resource |-> 0]

\* What the history variables note of a new content of the file, and of a new
\* version of a resource.
FileHolds(content) ==
    /\ held' = held \cup ({content} \cap Document)
    /\ since' = [k \in Resource |-> since[k] \cup ({content} \cap Document)]

NoteVersion(k) == since' = [since EXCEPT ![k] = {file} \cap Document]

(***************************************************************************)
(* People: they edit the file on the host and the objects in the cluster.  *)
(***************************************************************************)
UserWritesFile ==
    /\ Counted("user", MaxUserSteps)
    /\ file' \in (UserDocument \cup {Absent, Garbage}) \ {file}
    /\ FileHolds(file')
    /\ UNCHANGED <<tmp, api, caches, queue, rec, sync, written>>

UserPutsResource(k) ==
    /\ Counted("user", MaxUserSteps)
    /\ \E b \in BOOLEAN, s \in UserSpec :
          crLog' = [crLog EXCEPT ![k] = Append(@,
                       [alive |-> TRUE, fileSync |-> b, spec |-> s, by |-> "user"])]
    /\ NoteVersion(k)
    /\ UNCHANGED <<disk, ns, cmLog, caches, queue, rec, sync, held, written>>

UserDeletesResource(k) ==
    /\ Counted("user", MaxUserSteps)
    /\ Exists(crLog[k])
    /\ crLog' = [crLog EXCEPT ![k] = Append(@,
                    [@[Len(@)] EXCEPT !.alive = FALSE, !.by = "user"])]
    /\ NoteVersion(k)
    /\ UNCHANGED <<disk, ns, cmLog, caches, queue, rec, sync, held, written>>

\* Someone deletes the ConfigMap, or replaces its content by hand.
UserChangesConfigMap ==
    /\ Counted("user", MaxUserSteps)
    /\ Exists(cmLog)
    /\ Len(cmLog) < MaxCmVersions
    /\ \E b \in BOOLEAN :
          cmLog' = Append(cmLog, [alive |-> b, doc |-> NoDocument, by |-> "user"])
    /\ UNCHANGED <<disk, ns, crLog, caches, queue, rec, sync, history>>

(***************************************************************************)
(* The informers of controller-runtime: one watch event at a time.         *)
(***************************************************************************)
DeliverResource(k) ==
    /\ crSeen[k] < Len(crLog[k])
    /\ crSeen' = [crSeen EXCEPT ![k] = @ + 1]
    /\ queue' = queue \cup {k}
    /\ UNCHANGED <<disk, api, cmSeen, rec, sync, count, history>>

DeliverConfigMap ==
    /\ cmSeen < Len(cmLog)
    /\ cmSeen' = cmSeen + 1
    /\ UNCHANGED <<disk, api, crSeen, queue, rec, sync, count, history>>

\* The informer's resync hands every cached object to the controller again.
Resync(k) ==
    /\ Counted("resync", MaxResyncs)
    /\ SeenAlive(crLog[k], crSeen[k])
    /\ queue' = queue \cup {k}
    /\ UNCHANGED <<disk, api, caches, rec, sync, history>>

(***************************************************************************)
(* ClusterConfigReconciler.Reconcile.  An error puts the key back into the *)
(* queue.                                                                  *)
(***************************************************************************)
GiveUp ==
    /\ rec' = Idle
    /\ UNCHANGED queue

Retry ==
    /\ rec' = Idle
    /\ queue' = queue \cup {rec.key}

\* A pass that reads its object from the cache or from the API server.
StartReconcileUncached(k) ==
    /\ rec.pc = "idle"
    /\ k \in queue
    /\ queue' = queue \ {k}
    /\ \E rv \in {crSeen[k], Len(crLog[k])} :
          rec' = IF SeenAlive(crLog[k], rv)
                 THEN [Idle EXCEPT !.pc = "namespace", !.key = k, !.rv = rv]
                 ELSE Idle
    /\ UNCHANGED <<disk, api, caches, sync, count, history>>

\* Take a key and read its object from the cache; one that is gone is ignored.
StartReconcile(k) ==
    /\ rec.pc = "idle"
    /\ k \in queue
    /\ queue' = queue \ {k}
    /\ rec' = IF SeenAlive(crLog[k], crSeen[k])
              THEN [Idle EXCEPT !.pc = "namespace", !.key = k, !.rv = crSeen[k]]
              ELSE Idle
    /\ UNCHANGED <<disk, api, caches, sync, count, history>>

\* The version of the object that the worker read.
Object == crLog[rec.key][rec.rv]

\* Create the namespace if need be; the annotation gives the direction.
EnsureNamespace ==
    /\ rec.pc = "namespace"
    /\ ns' = TRUE
    /\ rec' = [rec EXCEPT !.pc = IF Object.fileSync THEN "readFile" ELSE "openTemp"]
    /\ UNCHANGED <<disk, crLog, cmLog, caches, queue, sync, count, history>>

ReadConfigAndUpdateK8s ==
    /\ rec.pc = "readFile"
    /\ \/ /\ Readable(file)
          /\ rec' = [rec EXCEPT !.pc = "update", !.doc = file]
          /\ UNCHANGED queue
       \/ /\ ~Readable(file)
          /\ Retry
    /\ UNCHANGED <<disk, api, caches, sync, count, history>>

AdoptedAgain == [alive |-> TRUE, fileSync |-> TRUE,
                 spec |-> MapToClusterConfig(ParseConfigFile(rec.doc)), by |-> "operator"]

Adopted == [alive |-> TRUE, fileSync |-> FALSE,
            spec |-> MapToClusterConfig(ParseConfigFile(rec.doc)), by |-> "operator"]

SyncNext == sync' = [sync EXCEPT !["reconciler"] = [NoSync EXCEPT !.pc = "read"]]

\* An update that overwrites whatever is there.
UpdateResourceBlindly ==
    /\ rec.pc = "update"
    /\ crLog' = [crLog EXCEPT ![rec.key] = Append(@, Adopted)]
    /\ NoteVersion(rec.key)
    /\ rec' = [rec EXCEPT !.pc = "sync"]
    /\ SyncNext
    /\ UNCHANGED <<disk, ns, cmLog, caches, queue, count, held, written>>

\* The API server rejects an update computed from an old version.  The reply
\* to an update it took may be lost, which the reconciler sees as an error.
UpdateResource ==
    /\ rec.pc = "update"
    /\ \/ /\ UpToDate(crLog[rec.key], rec.rv)
          /\ crLog' = [crLog EXCEPT ![rec.key] = Append(@, Adopted)]
          /\ NoteVersion(rec.key)
          /\ \/ /\ rec' = [rec EXCEPT !.pc = "sync"]
                /\ SyncNext
                /\ UNCHANGED <<queue, count>>
             \/ /\ Counted("fault", MaxFaults)
                /\ Retry
                /\ UNCHANGED sync
       \/ /\ ~UpToDate(crLog[rec.key], rec.rv)
          /\ Retry
          /\ UNCHANGED <<crLog, since, sync, count>>
    /\ UNCHANGED <<disk, ns, cmLog, caches, held, written>>

(***************************************************************************)
(* WriteClusterConfigToFile: truncate the temporary file, fill it, rename. *)
(***************************************************************************)
OpenTempOnly ==
    /\ rec.pc = "openTemp"
    /\ tmp' = Partial
    /\ rec' = [rec EXCEPT !.pc = "rename"]
    /\ UNCHANGED <<file, api, caches, queue, sync, count, history>>

OpenTempExclusive ==
    /\ rec.pc = "openTemp"
    /\ \/ /\ tmp = Absent
          /\ tmp' = Partial
          /\ rec' = [rec EXCEPT !.pc = "writeTemp"]
          /\ UNCHANGED queue
       \/ /\ tmp # Absent
          /\ Retry
          /\ UNCHANGED tmp
    /\ UNCHANGED <<file, api, caches, sync, count, history>>

OpenTemp ==
    /\ rec.pc = "openTemp"
    /\ tmp' = Partial
    /\ rec' = [rec EXCEPT !.pc = "writeTemp"]
    /\ UNCHANGED <<file, api, caches, queue, sync, count, history>>

WriteTempRereading ==
    /\ rec.pc = "writeTemp"
    /\ tmp' = WrittenDocument(crLog[rec.key][crSeen[rec.key]].spec)
    /\ rec' = [rec EXCEPT !.pc = "rename"]
    /\ UNCHANGED <<file, api, caches, queue, sync, count, history>>

WriteTemp ==
    /\ rec.pc = "writeTemp"
    /\ tmp' = WrittenDocument(Object.spec)
    /\ rec' = [rec EXCEPT !.pc = "rename"]
    /\ UNCHANGED <<file, api, caches, queue, sync, count, history>>

RenameFile ==
    /\ rec.pc = "rename"
    /\ file' = tmp
    /\ tmp' = Absent
    /\ FileHolds(tmp)
    /\ written' = [written EXCEPT ![rec.key] = rec.rv]
    /\ rec' = [rec EXCEPT !.pc = "sync"]
    /\ SyncNext
    /\ UNCHANGED <<api, caches, queue, count>>

\* A call to the API or to the file system fails; what it did so far stays.
ReconcileFault ==
    /\ Counted("fault", MaxFaults)
    /\ rec.pc \notin {"idle", "sync"}
    /\ Retry
    /\ UNCHANGED <<disk, api, caches, sync, history>>

(***************************************************************************)
(* K4allConfigSyncer.SyncConfig, run by the reconciler at the end of its   *)
(* pass and by the ticker.  The ticker only logs an error.                 *)
(***************************************************************************)
SyncDone(p) ==
    /\ sync' = [sync EXCEPT ![p] = NoSync]
    /\ rec' = IF p = "reconciler" THEN Idle ELSE rec
    /\ UNCHANGED queue

SyncFailed(p) ==
    /\ sync' = [sync EXCEPT ![p] = NoSync]
    /\ IF p = "reconciler" THEN Retry ELSE UNCHANGED <<rec, queue>>

TickNever == FALSE /\ UNCHANGED vars

Tick ==
    /\ sync["ticker"].pc = "idle"
    /\ sync' = [sync EXCEPT !["ticker"] = [NoSync EXCEPT !.pc = "read"]]
    /\ UNCHANGED <<disk, api, caches, queue, rec, count, history>>

Normalised == WrittenDocument(MapToClusterConfig(ParseConfigFile(file)))
FileData == MarshalIndent(ParseConfigFile(file))

SyncRead(p) ==
    /\ sync[p].pc = "read"
    /\ \/ /\ Readable(file)
          /\ sync' = [sync EXCEPT ![p] = [@ EXCEPT !.pc = "get", !.doc = FileData]]
          /\ UNCHANGED <<queue, rec>>
       \/ /\ ~Readable(file)
          /\ SyncFailed(p)
    /\ UNCHANGED <<disk, api, caches, count, history>>

SyncGetUncompared(p) ==
    /\ sync[p].pc = "get"
    /\ sync' = [sync EXCEPT ![p] =
                   IF SeenAlive(cmLog, cmSeen)
                   THEN [@ EXCEPT !.pc = "update", !.rv = cmSeen]
                   ELSE [@ EXCEPT !.pc = "create"]]
    /\ UNCHANGED <<disk, api, caches, queue, rec, count, history>>

\* Read the ConfigMap from the cache and compare its content.
SyncGet(p) ==
    /\ sync[p].pc = "get"
    /\ \/ /\ ~SeenAlive(cmLog, cmSeen)
          /\ sync' = [sync EXCEPT ![p] = [@ EXCEPT !.pc = "create"]]
          /\ UNCHANGED <<queue, rec>>
       \/ /\ SeenAlive(cmLog, cmSeen)
          /\ cmLog[cmSeen].doc # sync[p].doc
          /\ sync' = [sync EXCEPT ![p] = [@ EXCEPT !.pc = "update", !.rv = cmSeen]]
          /\ UNCHANGED <<queue, rec>>
       \/ /\ SeenAlive(cmLog, cmSeen)
          /\ cmLog[cmSeen].doc = sync[p].doc
          /\ SyncDone(p)
    /\ UNCHANGED <<disk, api, caches, count, history>>

\* The API server takes the write: the ConfigMap is new, in a namespace that
\* exists, or the update was computed from its newest version.  At the bound on
\* versions it refuses every write.
Accepted(p) ==
    /\ Len(cmLog) < MaxCmVersions
    /\ sync[p].pc = "create" => ns /\ ~Exists(cmLog)
    /\ sync[p].pc = "update" => UpToDate(cmLog, sync[p].rv)

WriteConfigMap(p) ==
    cmLog' = Append(cmLog, [alive |-> TRUE, doc |-> sync[p].doc, by |-> "operator"])

SyncWrite(p) ==
    /\ sync[p].pc \in {"create", "update"}
    /\ \/ /\ Accepted(p)
          /\ WriteConfigMap(p)
          /\ SyncDone(p)
       \/ /\ ~Accepted(p)
          /\ SyncFailed(p)
          /\ UNCHANGED cmLog
    /\ UNCHANGED <<disk, ns, crLog, caches, count, history>>

\* The call fails; a write that fails may have been taken all the same.
SyncFault(p) ==
    /\ Counted("fault", MaxFaults)
    /\ sync[p].pc # "idle"
    /\ SyncFailed(p)
    /\ \/ UNCHANGED cmLog
       \/ /\ sync[p].pc \in {"create", "update"}
          /\ Accepted(p)
          /\ WriteConfigMap(p)
    /\ UNCHANGED <<disk, ns, crLog, caches, history>>

(***************************************************************************)
(* A restart: memory is lost, the caches are filled from the API server    *)
(* and every object found is handed to the controller.  The disk stays.    *)
(***************************************************************************)
Crash ==
    /\ Counted("crash", MaxCrashes)
    /\ rec' = Idle
    /\ sync' = [p \in Syncer |-> NoSync]
    /\ crSeen' = [k \in Resource |-> Len(crLog[k])]
    /\ cmSeen' = Len(cmLog)
    /\ queue' = {k \in Resource : Exists(crLog[k])}
    /\ UNCHANGED <<disk, api, history>>

ReconcileStep ==
    \/ EnsureNamespace \/ ReadConfigAndUpdateK8s \/ UpdateResource
    \/ OpenTemp \/ WriteTemp \/ RenameFile

SyncStep(p) == SyncRead(p) \/ SyncGet(p) \/ SyncWrite(p)

Next ==
    \/ UserWritesFile
    \/ UserChangesConfigMap
    \/ DeliverConfigMap
    \/ ReconcileStep
    \/ ReconcileFault
    \/ Tick
    \/ Crash
    \/ \E k \in Resource :
          \/ UserPutsResource(k) \/ UserDeletesResource(k)
          \/ DeliverResource(k) \/ Resync(k) \/ StartReconcile(k)
    \/ \E p \in Syncer : SyncStep(p) \/ SyncFault(p)

(***************************************************************************)
(* The informers, the worker, the ticker and the runtime make progress.    *)
(* The work queue is first in, first out, so a key that keeps coming back  *)
(* to it is taken in the end.  People, resyncs, faults and restarts are    *)
(* not fair: none of them has to happen.                                   *)
(***************************************************************************)
Fairness ==
    /\ WF_vars(DeliverConfigMap)
    /\ WF_vars(ReconcileStep)
    /\ WF_vars(Tick)
    /\ \A k \in Resource : WF_vars(DeliverResource(k)) /\ SF_vars(StartReconcile(k))
    /\ \A p \in Syncer : WF_vars(SyncStep(p))

Spec == Init /\ [][Next]_vars /\ Fairness

--------------------------------------------------------------------------------
(***************************************************************************)
(* Safety.                                                                 *)
(***************************************************************************)

\* The operator changes a resource only to adopt the file: the version it
\* replaces was live and still asked for the file, the new one does not ask any
\* more (so one adoption is never followed by a second), and its spec is the
\* reading of a document that was in the file.  The object that Reconcile read
\* comes from a cache, so only the version check keeps it from overwriting a
\* spec, or an annotation, that somebody put there in the meantime.
OperatorOnlyAdopts ==
    \A k \in Resource : \A i \in 1..Len(crLog[k]) :
        crLog[k][i].by = "operator" =>
            /\ i > 1
            /\ crLog[k][i - 1].alive /\ crLog[k][i - 1].fileSync
            /\ crLog[k][i].alive /\ ~crLog[k][i].fileSync
            /\ \E d \in held :
                  crLog[k][i].spec = MapToClusterConfig(ParseConfigFile(d))

\* What the syncer puts into the ConfigMap is the faithful copy, flags and
\* pinned versions included, of a document that the file has held, whatever the
\* two callers of SyncConfig, the writer of the file and a crash do in between.
ConfigMapProvenance ==
    \A i \in 1..Len(cmLog) :
        cmLog[i].by = "operator" =>
            \E d \in held : cmLog[i].doc = MarshalIndent(ParseConfigFile(d))

\* SyncConfig never writes the content that the ConfigMap already has.  Every
\* write makes the feature controllers run again, and the comparison is made
\* with a cached copy by two processes.
NoRepeatedUpdate ==
    \A i \in 2..Len(cmLog) :
        cmLog[i].by = "operator" /\ cmLog[i - 1].alive =>
            cmLog[i].doc # cmLog[i - 1].doc

\* The file is what a person left there, or the complete rendering of one
\* version of a resource that was live and did not ask for the file: never a
\* half-written document and never a spec that should have been overwritten by
\* the file, also after a crash between opening the temporary file and renaming.
FileProvenance ==
    \/ file \in UserDocument \cup {Absent, Garbage}
    \/ \E k \in Resource : \E i \in 1..Len(crLog[k]) :
          /\ crLog[k][i].alive /\ ~crLog[k][i].fileSync
          /\ file = WrittenDocument(crLog[k][i].spec)

\* The file never goes back to an older version of the same resource, across
\* retries, late watch events and restarts.
WritesInOrder == [][\A k \in Resource : written'[k] >= written[k]]_written

(***************************************************************************)
(* The inductive invariant behind the safety properties.                   *)
(***************************************************************************)

\* A cache is behind the API server, never ahead of it, and what was written to
\* the file had been seen.
CachesOK ==
    /\ \A k \in Resource : crSeen[k] <= Len(crLog[k]) /\ written[k] <= crSeen[k]
    /\ cmSeen <= Len(cmLog)

\* The worker goes through the steps of one direction with a version that it saw.
WorkerOK ==
    rec.pc # "idle" =>
        /\ rec.key \in Resource
        /\ rec.rv > 0 /\ rec.rv <= crSeen[rec.key] /\ written[rec.key] <= rec.rv
        /\ Object.alive
        /\ rec.pc \in {"readFile", "update"} => Object.fileSync
        /\ rec.pc = "update" => rec.doc \in held
        /\ rec.pc = "update" /\ UpToDate(crLog[rec.key], rec.rv) => rec.doc \in since[rec.key]
        /\ rec.pc \in {"openTemp", "writeTemp", "rename"} => ~Object.fileSync
        /\ rec.pc = "rename" => tmp = WrittenDocument(Object.spec)

\* A process that runs SyncConfig carries the copy of a document of the file and,
\* before it updates, a version of the ConfigMap with another content.
SyncersOK ==
    /\ Readable(file) => file \in held /\ \A k \in Resource : file \in since[k]
    /\ sync["reconciler"].pc # "idle" => rec.pc = "sync"
    /\ \A p \in Syncer :
          /\ sync[p].pc \in {"get", "create", "update"} =>
                \E d \in held : sync[p].doc = MarshalIndent(ParseConfigFile(d))
          /\ sync[p].pc = "update" =>
                /\ sync[p].rv > 0 /\ sync[p].rv <= Len(cmLog)
                /\ cmLog[sync[p].rv].doc # sync[p].doc

\* Everything above: what is true initially and kept by every step.
IInv ==
    /\ TypeOK /\ CachesOK /\ WorkerOK /\ SyncersOK
    /\ OperatorOnlyAdopts /\ ConfigMapProvenance /\ NoRepeatedUpdate /\ FileProvenance

(***************************************************************************)
(* The refinement: each step is one of the abstract specification, or none *)
(* that it sees.                                                           *)
(***************************************************************************)
ConfigMap ==
    IF cmLog = << >> THEN [alive |-> FALSE, doc |-> NoDocument, by |-> "user"]
    ELSE cmLog[Len(cmLog)]

Abstract == INSTANCE Mirror WITH past <- held, log <- crLog, out <- written, map <- ConfigMap

\* Adoption takes what the file has held since the resource asked for it, the file
\* and the ConfigMap get nothing but what Mirror says, and nothing else changes, in
\* whatever order two processes, people, late caches and restarts get in between.
ImplementsMirror == Abstract!Spec

(***************************************************************************)
(* Liveness.  Since people, faults and restarts are bounded, "in the end"  *)
(* means: once they leave the system alone.                                *)
(***************************************************************************)

\* In the end the ConfigMap holds what the file says, although a late SyncConfig
\* of the other process may have put an older content there.
FileReachesConfigMap ==
    <>[](Readable(file) /\ ns =>
            Exists(cmLog) /\ cmLog[Len(cmLog)].doc = FileData)

\* A resource that does not ask for the file reaches it: each version of it is
\* written to the file, or a later one is, or it is replaced by a later one.
ResourceReachesFile ==
    \A k \in Resource : \A i \in 1..(2 * MaxUserSteps) :
        (Len(crLog[k]) = i /\ Exists(crLog[k]) /\ ~crLog[k][i].fileSync)
            ~> (written[k] >= i \/ Len(crLog[k]) > i)

\* A resource that asks for the file gets it, if the file can be read in the end.
ResourceAdoptsFile ==
    \A k \in Resource :
        <>[](Exists(crLog[k]) /\ Readable(file) => ~crLog[k][Len(crLog[k])].fileSync)

\* The version of a feature that the file pins (config_parser.go:72, "Version of
\* ArgoCD to install") is still pinned after the operator has written back a
\* resource that nobody edited and that is the reading of this very file.
PinnedVersionKept ==
    [][RenameFile /\ Readable(file)
         /\ Object.by = "operator"
         /\ Object.spec = MapToClusterConfig(ParseConfigFile(file))
       => file'.config.pinned = file.config.pinned]_vars

================================================================================
