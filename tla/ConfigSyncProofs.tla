--------------------------- MODULE ConfigSyncProofs ---------------------------
(***************************************************************************)
(* The safety properties of ConfigSync hold for every number of resources, *)
(* every set of documents and specs, and every bound.  IInv is inductive:  *)
(* each section shows that the steps keep one of its conjuncts.            *)
(***************************************************************************)
EXTENDS ConfigSync, K4allConfigProofs

(***************************************************************************)
(* Logs.                                                                   *)
(***************************************************************************)

\* What appending does to a log.
LEMMA AppendFacts ==
    ASSUME NEW S, NEW log \in Seq(S), NEW v \in S
    PROVE  /\ Append(log, v) \in Seq(S)
           /\ Len(log) \in Nat
           /\ Len(Append(log, v)) = Len(log) + 1
           /\ \A i \in 1..Len(log) : Append(log, v)[i] = log[i]
           /\ Append(log, v)[Len(log) + 1] = v
OBVIOUS

\* A log to which something is appended is another log.
LEMMA AppendDiffers ==
    ASSUME NEW S, NEW log \in Seq(S), NEW v
    PROVE  Append(log, v) # log
<1>1. Len(Append(log, v)) = Len(log) + 1 /\ Len(log) \in Nat
  OBVIOUS
<1> QED
  BY <1>1

\* A new version of one resource leaves every older version and every other
\* resource alone.
LEMMA ResourceAppend ==
    ASSUME TypeOK, NEW k \in Resource, NEW v \in Version,
           crLog' = [crLog EXCEPT ![k] = Append(@, v)]
    PROVE  /\ crLog' \in [Resource -> Seq(Version)]
           /\ \A j \in Resource \ {k} : crLog'[j] = crLog[j]
           /\ Len(crLog[k]) \in Nat
           /\ Len(crLog'[k]) = Len(crLog[k]) + 1
           /\ \A i \in 1..Len(crLog[k]) : crLog'[k][i] = crLog[k][i]
           /\ crLog'[k][Len(crLog[k]) + 1] = v
<1>1. crLog[k] \in Seq(Version) /\ crLog'[k] = Append(crLog[k], v)
  BY DEF TypeOK
<1>2. /\ Append(crLog[k], v) \in Seq(Version)
      /\ Len(crLog[k]) \in Nat
      /\ Len(Append(crLog[k], v)) = Len(crLog[k]) + 1
      /\ \A i \in 1..Len(crLog[k]) : Append(crLog[k], v)[i] = crLog[k][i]
      /\ Append(crLog[k], v)[Len(crLog[k]) + 1] = v
  BY <1>1, AppendFacts
<1> QED
  BY <1>1, <1>2 DEF TypeOK

\* The newest version of a log is a version, and taking its life away gives one.
LEMMA NewestVersion ==
    ASSUME NEW log \in Seq(Version), Exists(log)
    PROVE  /\ Len(log) \in Nat \ {0}
           /\ log[Len(log)] \in Version
           /\ [log[Len(log)] EXCEPT !.alive = FALSE, !.by = "user"] \in Version
           /\ [log[Len(log)] EXCEPT !.alive = FALSE, !.by = "user"].by = "user"
<1>1. Len(log) \in Nat \ {0} /\ log[Len(log)] \in Version
  BY DEF Exists
<1> QED
  BY <1>1 DEF Version

\* The version that the worker read.
LEMMA ObjectType ==
    ASSUME TypeOK, CachesOK, WorkerOK, rec.pc # "idle"
    PROVE  /\ rec.key \in Resource
           /\ rec.rv \in 1..Len(crLog[rec.key])
           /\ Object \in Version
BY DEF TypeOK, CachesOK, WorkerOK, WorkerState, Object

(***************************************************************************)
(* Types.                                                                  *)
(***************************************************************************)

\* The documents that the system computes are documents.
LEMMA DocumentTypes ==
    /\ Readable(file) => FileData \in Document
    /\ \A s \in ClusterConfigSpec : WrittenDocument(s) \in Document
    /\ \A d \in Document : MapToClusterConfig(ParseConfigFile(d)) \in ClusterConfigSpec
BY ConversionTypes DEF Readable, FileData, ParseConfigFile, Document

\* The states that a worker and a SyncConfig move between.
LEMMA StateTypes ==
    /\ Idle \in WorkerState /\ NoSync \in SyncState
    /\ [NoSync EXCEPT !.pc = "read"] \in SyncState
    /\ \A k \in Resource, n \in Nat :
          [Idle EXCEPT !.pc = "namespace", !.key = k, !.rv = n] \in WorkerState
    /\ \A r \in WorkerState, d \in Document :
          /\ [r EXCEPT !.pc = "update", !.doc = d] \in WorkerState
          /\ \A c \in {"readFile", "openTemp", "writeTemp", "rename", "sync"} :
                [r EXCEPT !.pc = c] \in WorkerState
    /\ \A s \in SyncState, d \in Document :
          [s EXCEPT !.pc = "get", !.doc = d] \in SyncState
BY DEF Idle, NoSync, WorkerState, SyncState

\* Counting an event.
LEMMA CountedType ==
    ASSUME TypeOK, NEW c \in Event, NEW max, Counted(c, max)
    PROVE  count' \in [Event -> Nat]
BY DEF TypeOK, Counted

\* Giving up or retrying leaves the worker idle.
LEMMA RetryType ==
    ASSUME TypeOK, Retry, rec.key \in Resource
    PROVE  /\ queue' \subseteq Resource
           /\ rec'.pc = "idle"
           /\ rec' \in WorkerState
BY StateTypes DEF TypeOK, Retry, Idle

\* The end of a SyncConfig leaves its process idle, and the worker typed.
LEMMA SyncEndType ==
    ASSUME TypeOK, WorkerOK, SyncersOK, NEW p \in Syncer, sync[p].pc # "idle",
           SyncDone(p) \/ SyncFailed(p)
    PROVE  /\ queue' \subseteq Resource
           /\ rec' \in WorkerState
           /\ sync' \in [Syncer -> SyncState]
<1>1. sync' = [sync EXCEPT ![p] = NoSync]
  BY DEF SyncDone, SyncFailed
<1>2. sync' \in [Syncer -> SyncState]
  BY <1>1, StateTypes DEF TypeOK
<1>3. CASE p = "reconciler"
  <2>1. rec.key \in Resource
    BY <1>3 DEF SyncersOK, WorkerOK
  <2> QED
    BY <1>2, <1>3, <2>1, RetryType, StateTypes DEF TypeOK, SyncDone, SyncFailed
<1>4. CASE p # "reconciler"
  BY <1>2, <1>4 DEF TypeOK, SyncDone, SyncFailed
<1> QED
  BY <1>3, <1>4, StateTypes

\* A write of the ConfigMap appends a version.
LEMMA ConfigMapAppend ==
    ASSUME TypeOK, NEW p \in Syncer, WriteConfigMap(p)
    PROVE  /\ cmLog' \in Seq(CmVersion)
           /\ Len(cmLog) \in Nat
           /\ Len(cmLog') = Len(cmLog) + 1
           /\ \A i \in 1..Len(cmLog) : cmLog'[i] = cmLog[i]
           /\ cmLog'[Len(cmLog) + 1]
                = [alive |-> TRUE, doc |-> sync[p].doc, by |-> "operator"]
<1> DEFINE v == [alive |-> TRUE, doc |-> sync[p].doc, by |-> "operator"]
<1>1. v \in CmVersion /\ cmLog \in Seq(CmVersion) /\ cmLog' = Append(cmLog, v)
  BY DEF TypeOK, SyncState, CmVersion, WriteConfigMap
<1> HIDE DEF v
<1>2. /\ cmLog' \in Seq(CmVersion)
      /\ Len(cmLog) \in Nat
      /\ Len(cmLog') = Len(cmLog) + 1
      /\ \A i \in 1..Len(cmLog) : cmLog'[i] = cmLog[i]
      /\ cmLog'[Len(cmLog) + 1] = v
  BY <1>1, AppendFacts
<1> QED
  BY <1>2 DEF v

\* Every step keeps the types.
LEMMA TypeStep ==
    ASSUME TypeOK, CachesOK, WorkerOK, SyncersOK, Next
    PROVE  TypeOK'
<1> USE SyncAssumption DEF api, caches, disk, history, FileHolds
<1>0. ASSUME NEW k, NoteVersion(k)
      PROVE  since' \in [Resource -> SUBSET Document]
  BY <1>0 DEF TypeOK, NoteVersion
<1>1. CASE UserWritesFile
  BY <1>1, CountedType DEF TypeOK, UserWritesFile, Event
<1>2. CASE UserChangesConfigMap
  <2>1. PICK b \in BOOLEAN :
            cmLog' = Append(cmLog, [alive |-> b, doc |-> NoDocument, by |-> "user"])
    BY <1>2 DEF UserChangesConfigMap
  <2>2. [alive |-> b, doc |-> NoDocument, by |-> "user"] \in CmVersion
    BY DEF CmVersion
  <2>3. cmLog' \in Seq(CmVersion)
    BY <2>1, <2>2, AppendFacts DEF TypeOK
  <2> QED
    BY <1>2, <2>3, CountedType DEF TypeOK, UserChangesConfigMap, Event
<1>3. CASE DeliverConfigMap
  BY <1>3 DEF TypeOK, DeliverConfigMap
<1>4. CASE ReconcileStep
  <2>1. CASE EnsureNamespace
    <3>1. rec' \in WorkerState
      BY <2>1 DEF TypeOK, EnsureNamespace, WorkerState
    <3> QED
      BY <2>1, <3>1 DEF TypeOK, EnsureNamespace
  <2>2. CASE ReadConfigAndUpdateK8s
    <3>1. rec.key \in Resource
      BY <2>2 DEF ReadConfigAndUpdateK8s, WorkerOK
    <3>2. rec' \in WorkerState /\ queue' \subseteq Resource
      <4>1. CASE Readable(file)
        BY <2>2, <4>1 DEF TypeOK, ReadConfigAndUpdateK8s, Readable, WorkerState
      <4>2. CASE ~Readable(file)
        BY <2>2, <3>1, <4>2, RetryType DEF ReadConfigAndUpdateK8s
      <4> QED
        BY <4>1, <4>2
    <3> QED
      BY <2>2, <3>2 DEF TypeOK, ReadConfigAndUpdateK8s
  <2>3. CASE UpdateResource
    <3>1. rec.key \in Resource /\ rec.doc \in Document /\ held \subseteq Document
      BY <2>3 DEF UpdateResource, WorkerOK, TypeOK
    <3>2. Adopted \in Version
      BY <3>1, DocumentTypes DEF Adopted, Version
    <3>3. crLog' \in [Resource -> Seq(Version)]
      <4>1. CASE crLog' = [crLog EXCEPT ![rec.key] = Append(@, Adopted)]
        BY <3>1, <3>2, <4>1, ResourceAppend
      <4>2. CASE UNCHANGED crLog
        BY <4>2 DEF TypeOK
      <4> QED
        BY <2>3, <4>1, <4>2 DEF UpdateResource
    <3>4. /\ queue' \subseteq Resource
          /\ rec' \in WorkerState
      BY <2>3, <3>1, RetryType, StateTypes DEF TypeOK, UpdateResource
    <3>5. sync' \in [Syncer -> SyncState]
      BY <2>3, StateTypes DEF TypeOK, UpdateResource, SyncNext
    <3>6. count' \in [Event -> Nat]
      BY <2>3, CountedType DEF TypeOK, UpdateResource, Event
    <3>7. since' \in [Resource -> SUBSET Document]
      BY <2>3, <1>0 DEF TypeOK, UpdateResource
    <3> QED
      BY <2>3, <3>3, <3>4, <3>5, <3>6, <3>7 DEF TypeOK, UpdateResource
  <2>4. CASE OpenTemp
    <3>1. rec' \in WorkerState
      BY <2>4 DEF TypeOK, OpenTemp, WorkerState
    <3> QED
      BY <2>4, <3>1 DEF TypeOK, OpenTemp
  <2>5. CASE WriteTemp
    <3>1. Object.spec \in ClusterConfigSpec
      BY <2>5, ObjectType DEF WriteTemp, Version
    <3> QED
      BY <2>5, <3>1, DocumentTypes, StateTypes DEF TypeOK, WriteTemp
  <2>6. CASE RenameFile
    <3>1. rec.key \in Resource /\ tmp = WrittenDocument(Object.spec)
      BY <2>6 DEF RenameFile, WorkerOK
    <3>2. tmp \in Document
      BY <2>6, <3>1, ObjectType, DocumentTypes DEF RenameFile, Version
    <3>3. sync' \in [Syncer -> SyncState]
      BY <2>6, StateTypes DEF TypeOK, RenameFile, SyncNext
    <3>4. rec' \in WorkerState
      BY <2>6 DEF TypeOK, RenameFile, WorkerState
    <3>5. written' \in [Resource -> Nat]
      BY <2>6, <3>1 DEF TypeOK, RenameFile, WorkerState
    <3> QED
      BY <2>6, <3>2, <3>3, <3>4, <3>5 DEF TypeOK, RenameFile
  <2> QED
    BY <1>4, <2>1, <2>2, <2>3, <2>4, <2>5, <2>6 DEF ReconcileStep
<1>5. CASE ReconcileFault
  <2>1. rec.key \in Resource
    BY <1>5 DEF ReconcileFault, WorkerOK
  <2> QED
    BY <1>5, <2>1, RetryType, CountedType DEF TypeOK, ReconcileFault, Event
<1>6. CASE Tick
  BY <1>6, StateTypes DEF TypeOK, Tick
<1>7. CASE Crash
  <2>1. \A k \in Resource : Len(crLog[k]) \in Nat
    BY DEF TypeOK
  <2>2. crSeen' \in [Resource -> Nat] /\ cmSeen' \in Nat
    BY <1>7, <2>1 DEF TypeOK, Crash
  <2>3. rec' \in WorkerState /\ sync' \in [Syncer -> SyncState]
    BY <1>7, StateTypes DEF Crash
  <2>4. count' \in [Event -> Nat] /\ queue' \subseteq Resource
    BY <1>7, CountedType DEF Crash, Event
  <2> QED
    BY <1>7, <2>2, <2>3, <2>4 DEF TypeOK, Crash
<1>8. ASSUME NEW k \in Resource, UserPutsResource(k)
      PROVE  TypeOK'
  <2>1. PICK b \in BOOLEAN, s \in UserSpec :
            crLog' = [crLog EXCEPT ![k] = Append(@,
                        [alive |-> TRUE, fileSync |-> b, spec |-> s, by |-> "user"])]
    BY <1>8 DEF UserPutsResource
  <2>2. [alive |-> TRUE, fileSync |-> b, spec |-> s, by |-> "user"] \in Version
    BY DEF Version
  <2>3. crLog' \in [Resource -> Seq(Version)]
    BY <2>1, <2>2, ResourceAppend
  <2> QED
    BY <1>0, <1>8, <2>3, CountedType DEF TypeOK, UserPutsResource, Event
<1>9. ASSUME NEW k \in Resource, UserDeletesResource(k)
      PROVE  TypeOK'
  <2>1. crLog[k] \in Seq(Version) /\ Exists(crLog[k])
    BY <1>9 DEF TypeOK, UserDeletesResource
  <2>2. crLog' \in [Resource -> Seq(Version)]
    BY <1>9, <2>1, NewestVersion, ResourceAppend DEF UserDeletesResource
  <2> QED
    BY <1>0, <1>9, <2>2, CountedType DEF TypeOK, UserDeletesResource, Event
<1>10. ASSUME NEW k \in Resource, DeliverResource(k)
       PROVE  TypeOK'
  BY <1>10 DEF TypeOK, DeliverResource
<1>11. ASSUME NEW k \in Resource, Resync(k)
       PROVE  TypeOK'
  BY <1>11, CountedType DEF TypeOK, Resync, Event
<1>12. ASSUME NEW k \in Resource, StartReconcile(k)
       PROVE  TypeOK'
  BY <1>12, StateTypes DEF TypeOK, StartReconcile
<1>13. ASSUME NEW p \in Syncer, SyncStep(p)
       PROVE  TypeOK'
  <2>1. CASE SyncRead(p)
    <3>1. CASE Readable(file)
      <4>1. sync' \in [Syncer -> SyncState]
        <5>1. [sync[p] EXCEPT !.pc = "get", !.doc = FileData] \in SyncState
          BY <3>1, DocumentTypes, StateTypes DEF TypeOK
        <5>2. sync' = [sync EXCEPT ![p] = [sync[p] EXCEPT !.pc = "get", !.doc = FileData]]
          BY <2>1, <3>1 DEF SyncRead
        <5> QED
          BY <5>1, <5>2 DEF TypeOK
      <4> QED
        BY <2>1, <3>1, <4>1 DEF TypeOK, SyncRead
    <3>2. CASE ~Readable(file)
      BY <2>1, <3>2, SyncEndType DEF TypeOK, SyncRead
    <3> QED
      BY <3>1, <3>2
  <2>2. CASE SyncGet(p)
    <3>1. CASE SyncDone(p)
      BY <2>2, <3>1, SyncEndType DEF TypeOK, SyncGet
    <3>2. CASE UNCHANGED <<queue, rec>>
      <4>1. sync' \in [Syncer -> SyncState]
        <5>1. /\ [sync[p] EXCEPT !.pc = "create"] \in SyncState
              /\ [sync[p] EXCEPT !.pc = "update", !.rv = cmSeen] \in SyncState
          BY DEF TypeOK, SyncState
        <5> QED
          BY <2>2, <5>1, SyncEndType DEF TypeOK, SyncGet
      <4> QED
        BY <2>2, <3>2, <4>1 DEF TypeOK, SyncGet
    <3> QED
      BY <2>2, <3>1, <3>2 DEF SyncGet
  <2>3. CASE SyncWrite(p)
    BY <1>13, <2>3, SyncEndType, ConfigMapAppend DEF TypeOK, SyncWrite
  <2> QED
    BY <1>13, <2>1, <2>2, <2>3 DEF SyncStep
<1>14. ASSUME NEW p \in Syncer, SyncFault(p)
       PROVE  TypeOK'
  BY <1>14, SyncEndType, ConfigMapAppend, CountedType DEF TypeOK, SyncFault, Event
<1> QED
  BY <1>1, <1>2, <1>3, <1>4, <1>5, <1>6, <1>7, <1>8, <1>9, <1>10, <1>11, <1>12,
     <1>13, <1>14 DEF Next

(***************************************************************************)
(* Who writes what.                                                        *)
(***************************************************************************)

\* A resource gets at most one version in a step: a person's, or the one that
\* UpdateResource computed from the newest version.
LEMMA ResourceWrites ==
    ASSUME TypeOK, CachesOK, WorkerOK, SyncersOK, Next, NEW k \in Resource
    PROVE  \/ crLog'[k] = crLog[k]
           \/ /\ Len(crLog'[k]) = Len(crLog[k]) + 1
              /\ \A i \in 1..Len(crLog[k]) : crLog'[k][i] = crLog[k][i]
              /\ \/ crLog'[k][Len(crLog[k]) + 1].by = "user"
                 \/ /\ rec.pc = "update" /\ rec.key = k /\ rec.rv = Len(crLog[k])
                    /\ crLog'[k][Len(crLog[k]) + 1] = Adopted
<1> USE DEF api, caches, disk, history
<1>1. CASE UNCHANGED crLog
  BY <1>1
<1>2. CASE UpdateResource
  <2>1. rec.pc = "update" /\ rec.key \in Resource /\ rec.doc \in Document
    BY <1>2 DEF UpdateResource, WorkerOK, TypeOK
  <2>2. Adopted \in Version
    BY <2>1, DocumentTypes DEF Adopted, Version
  <2>3. CASE UNCHANGED crLog
    BY <2>3
  <2>4. CASE /\ UpToDate(crLog[rec.key], rec.rv)
             /\ crLog' = [crLog EXCEPT ![rec.key] = Append(@, Adopted)]
    BY <2>1, <2>2, <2>4, ResourceAppend DEF TypeOK, UpToDate
  <2> QED
    BY <1>2, <2>3, <2>4 DEF UpdateResource
<1>3. ASSUME NEW j \in Resource, UserPutsResource(j)
      PROVE  \/ crLog'[k] = crLog[k]
             \/ /\ Len(crLog'[k]) = Len(crLog[k]) + 1
                /\ \A i \in 1..Len(crLog[k]) : crLog'[k][i] = crLog[k][i]
                /\ crLog'[k][Len(crLog[k]) + 1].by = "user"
  <2>1. PICK b \in BOOLEAN, s \in UserSpec :
            crLog' = [crLog EXCEPT ![j] = Append(@,
                        [alive |-> TRUE, fileSync |-> b, spec |-> s, by |-> "user"])]
    BY <1>3 DEF UserPutsResource
  <2>2. [alive |-> TRUE, fileSync |-> b, spec |-> s, by |-> "user"] \in Version
    BY SyncAssumption DEF Version
  <2> QED
    BY <2>1, <2>2, ResourceAppend
<1>4. ASSUME NEW j \in Resource, UserDeletesResource(j)
      PROVE  \/ crLog'[k] = crLog[k]
             \/ /\ Len(crLog'[k]) = Len(crLog[k]) + 1
                /\ \A i \in 1..Len(crLog[k]) : crLog'[k][i] = crLog[k][i]
                /\ crLog'[k][Len(crLog[k]) + 1].by = "user"
  <2> DEFINE v == [crLog[j][Len(crLog[j])] EXCEPT !.alive = FALSE, !.by = "user"]
  <2>1. crLog[j] \in Seq(Version) /\ Exists(crLog[j])
    BY <1>4 DEF TypeOK, UserDeletesResource
  <2>2. v \in Version /\ v.by = "user"
    BY <2>1, NewestVersion
  <2>3. crLog' = [crLog EXCEPT ![j] = Append(@, v)]
    BY <1>4 DEF UserDeletesResource
  <2> HIDE DEF v
  <2> QED
    BY <2>2, <2>3, ResourceAppend
<1> QED
  BY <1>1, <1>2, <1>3, <1>4
  DEF Next, ReconcileStep, SyncStep, UserWritesFile, UserChangesConfigMap,
      DeliverConfigMap, EnsureNamespace, ReadConfigAndUpdateK8s, OpenTemp, WriteTemp,
      RenameFile, ReconcileFault, Tick, Crash, DeliverResource, Resync,
      StartReconcile, SyncRead, SyncGet, SyncWrite, SyncFault

\* The ConfigMap gets at most one version in a step: a person's, or one that the
\* API server took from a process that was about to write.
LEMMA ConfigMapWrites ==
    ASSUME TypeOK, Next
    PROVE  \/ cmLog' = cmLog
           \/ /\ Len(cmLog') = Len(cmLog) + 1
              /\ \A i \in 1..Len(cmLog) : cmLog'[i] = cmLog[i]
              /\ \/ cmLog'[Len(cmLog) + 1].by = "user"
                 \/ \E p \in Syncer :
                       /\ sync[p].pc \in {"create", "update"} /\ Accepted(p)
                       /\ cmLog'[Len(cmLog) + 1]
                            = [alive |-> TRUE, doc |-> sync[p].doc, by |-> "operator"]
<1> USE DEF api, caches, disk, history
<1>1. CASE UNCHANGED cmLog
  BY <1>1
<1>2. CASE UserChangesConfigMap
  <2>1. PICK b \in BOOLEAN :
            cmLog' = Append(cmLog, [alive |-> b, doc |-> NoDocument, by |-> "user"])
    BY <1>2 DEF UserChangesConfigMap
  <2>2. [alive |-> b, doc |-> NoDocument, by |-> "user"] \in CmVersion
    BY DEF CmVersion
  <2> QED
    BY <2>1, <2>2, AppendFacts DEF TypeOK
<1>3. ASSUME NEW p \in Syncer, WriteConfigMap(p), Accepted(p),
             sync[p].pc \in {"create", "update"}
      PROVE  /\ Len(cmLog') = Len(cmLog) + 1
             /\ \A i \in 1..Len(cmLog) : cmLog'[i] = cmLog[i]
             /\ cmLog'[Len(cmLog) + 1]
                  = [alive |-> TRUE, doc |-> sync[p].doc, by |-> "operator"]
  BY <1>3, ConfigMapAppend
<1> QED
  BY <1>1, <1>2, <1>3
  DEF Next, ReconcileStep, SyncStep, UserWritesFile, UserPutsResource,
      UserDeletesResource, UpdateResource,
      DeliverConfigMap, EnsureNamespace, ReadConfigAndUpdateK8s, OpenTemp, WriteTemp,
      RenameFile, ReconcileFault, Tick, Crash, DeliverResource, Resync,
      StartReconcile, SyncRead, SyncGet, SyncWrite, SyncFault

\* A log only grows, and what it says stays.
LEMMA LogsGrow ==
    ASSUME TypeOK, CachesOK, WorkerOK, SyncersOK, Next
    PROVE  /\ \A k \in Resource :
                 /\ Len(crLog[k]) \in Nat /\ Len(crLog'[k]) \in Nat
                 /\ Len(crLog[k]) <= Len(crLog'[k])
                 /\ \A i \in 1..Len(crLog[k]) : crLog'[k][i] = crLog[k][i]
           /\ Len(cmLog) \in Nat /\ Len(cmLog') \in Nat
           /\ Len(cmLog) <= Len(cmLog')
           /\ \A i \in 1..Len(cmLog) : cmLog'[i] = cmLog[i]
<1>1. /\ \A k \in Resource : Len(crLog[k]) \in Nat
      /\ Len(cmLog) \in Nat
  BY DEF TypeOK
<1> QED
  BY <1>1, ResourceWrites, ConfigMapWrites

\* What the file has held is remembered.
LEMMA HeldGrows ==
    ASSUME TypeOK, SyncersOK, Next
    PROVE  /\ held \subseteq held'
           /\ Readable(file') => file' \in held' /\ \A k \in Resource : file' \in since'[k]
<1> USE DEF api, caches, disk, history, FileHolds, NoteVersion, TypeOK, Readable
<1>1. CASE UserWritesFile \/ RenameFile
  BY <1>1 DEF UserWritesFile, RenameFile
<1>2. CASE UNCHANGED <<file, held, since>>
  BY <1>2 DEF SyncersOK
<1>3. ASSUME NEW k \in Resource, NoteVersion(k), UNCHANGED <<file, held>>
      PROVE  /\ held \subseteq held'
             /\ Readable(file') => /\ file' \in held'
                                  /\ \A j \in Resource : file' \in since'[j]
  BY <1>3 DEF SyncersOK
<1>4. CASE UpdateResource
  <2>1. rec.key \in Resource \/ UNCHANGED since
    BY <1>4 DEF UpdateResource, UpToDate, NoteVersion, SyncersOK
  <2> QED
    BY <1>2, <1>3, <1>4, <2>1 DEF UpdateResource
<1> QED
  BY <1>1, <1>2, <1>3, <1>4
  DEF Next, ReconcileStep, SyncStep, UserPutsResource,
      UserDeletesResource, UserChangesConfigMap,
      DeliverConfigMap, EnsureNamespace, ReadConfigAndUpdateK8s, OpenTemp, WriteTemp,
      ReconcileFault, Tick, Crash, DeliverResource, Resync,
      StartReconcile, SyncRead, SyncGet, SyncWrite, SyncFault

\* What is remembered of a resource is only cut back when it gets a new version.
LEMMA SinceGrows ==
    ASSUME TypeOK, CachesOK, WorkerOK, SyncersOK, Next, NEW k \in Resource
    PROVE  \/ crLog'[k] = crLog[k] /\ since[k] \subseteq since'[k]
           \/ Len(crLog'[k]) = Len(crLog[k]) + 1
<1> USE DEF api, caches, disk, history, FileHolds, NoteVersion, TypeOK
<1>1. CASE UserWritesFile \/ RenameFile
  BY <1>1 DEF UserWritesFile, RenameFile
<1>2. CASE UNCHANGED <<crLog, since>>
  BY <1>2
<1>3. ASSUME NEW j \in Resource, UserPutsResource(j) \/ UserDeletesResource(j)
      PROVE  crLog'[k] = crLog[k] => since[k] \subseteq since'[k]
  <2>1. j # k => since'[k] = since[k]
    BY <1>3 DEF UserPutsResource, UserDeletesResource
  <2>2. \E v : crLog'[j] = Append(crLog[j], v)
    BY <1>3 DEF UserPutsResource, UserDeletesResource
  <2>3. crLog'[j] # crLog[j]
    BY <2>2, AppendDiffers
  <2> QED
    BY <2>1, <2>3
<1>4. CASE UpdateResource
  <2>1. crLog'[k] = crLog[k] => since[k] \subseteq since'[k]
    <3>1. rec.key \in Resource
      BY <1>4 DEF UpdateResource, WorkerOK
    <3>2. CASE UNCHANGED since
      BY <3>2
    <3>3. CASE crLog'[rec.key] = Append(crLog[rec.key], Adopted) /\ NoteVersion(rec.key)
      <4>1. crLog'[rec.key] # crLog[rec.key]
        BY <3>1, <3>3, AppendDiffers
      <4> QED
        BY <3>3, <4>1
    <3> QED
      BY <1>4, <3>1, <3>2, <3>3 DEF UpdateResource
  <2> QED
    BY <2>1, ResourceWrites
<1> QED
  BY <1>1, <1>2, <1>3, <1>4, ResourceWrites
  DEF Next, ReconcileStep, SyncStep, UserChangesConfigMap,
      DeliverConfigMap, EnsureNamespace, ReadConfigAndUpdateK8s, OpenTemp, WriteTemp,
      ReconcileFault, Tick, Crash, DeliverResource, Resync,
      StartReconcile, SyncRead, SyncGet, SyncWrite, SyncFault

(***************************************************************************)
(* Caches, worker and syncers.                                             *)
(***************************************************************************)

\* Positions only move forward, up to the end of their logs, and the version
\* written to the file was seen.
LEMMA CachesStep ==
    ASSUME TypeOK, CachesOK, WorkerOK, SyncersOK, Next
    PROVE  /\ CachesOK'
           /\ \A k \in Resource : crSeen[k] <= crSeen'[k] /\ written[k] <= written'[k]
<1> USE DEF api, caches, disk, history
<1>1. /\ crSeen \in [Resource -> Nat] /\ written \in [Resource -> Nat]
      /\ cmSeen \in Nat /\ rec.rv \in Nat
  BY DEF TypeOK, WorkerState
<1>2. CASE /\ UNCHANGED <<crSeen, written>>
           /\ cmSeen' = cmSeen \/ (cmSeen < Len(cmLog) /\ cmSeen' = cmSeen + 1)
  BY <1>1, <1>2, LogsGrow DEF CachesOK
<1>3. CASE RenameFile
  BY <1>1, <1>3, LogsGrow DEF CachesOK, WorkerOK, RenameFile
<1>4. ASSUME NEW k \in Resource, DeliverResource(k)
      PROVE  /\ CachesOK'
             /\ \A j \in Resource : crSeen[j] <= crSeen'[j] /\ written[j] <= written'[j]
  BY <1>1, <1>4, LogsGrow DEF CachesOK, DeliverResource
<1>5. CASE Crash
  BY <1>1, <1>5, LogsGrow DEF CachesOK, Crash
<1> QED
  BY <1>2, <1>3, <1>4, <1>5
  DEF Next, ReconcileStep, SyncStep, UserWritesFile, UserPutsResource,
      UserDeletesResource, UserChangesConfigMap, UpdateResource, DeliverConfigMap,
      EnsureNamespace, ReadConfigAndUpdateK8s, OpenTemp, WriteTemp, ReconcileFault,
      Tick, Resync, StartReconcile, SyncRead, SyncGet, SyncWrite, SyncFault

\* While the worker keeps its key and the version it read, what it knows of them
\* stays true: versions do not change, and only the worker moves its own records.
LEMMA WorkerKeeps ==
    ASSUME TypeOK, CachesOK, WorkerOK, SyncersOK, Next,
           rec.pc # "idle", rec'.key = rec.key, rec'.rv = rec.rv
    PROVE  /\ rec.key \in Resource
           /\ rec.rv > 0 /\ rec.rv <= crSeen'[rec.key]
           /\ Object' = Object /\ Object.alive
<1>1. /\ rec.key \in Resource /\ rec.rv \in Nat /\ crSeen \in [Resource -> Nat]
      /\ rec.rv > 0 /\ rec.rv <= crSeen[rec.key] /\ Object.alive
  BY DEF TypeOK, WorkerState, WorkerOK
<1>2. rec.rv \in 1..Len(crLog[rec.key])
  BY ObjectType
<1>3. crLog'[rec.key][rec.rv] = crLog[rec.key][rec.rv]
  BY <1>1, <1>2, LogsGrow
<1>4. crSeen'[rec.key] \in Nat /\ crSeen[rec.key] <= crSeen'[rec.key]
  BY <1>1, CachesStep, TypeStep DEF TypeOK
<1> QED
  BY <1>1, <1>3, <1>4 DEF Object

\* The document that the worker is about to adopt stays one that the file has held
\* since the version that it read, as long as that version is the newest.
LEMMA AdoptsRecent ==
    ASSUME TypeOK, CachesOK, WorkerOK, SyncersOK, Next
    PROVE  rec.pc = "update" /\ UpToDate(crLog'[rec.key], rec.rv)
             => rec.doc \in since'[rec.key]
<1> SUFFICES ASSUME rec.pc = "update", rec.rv = Len(crLog'[rec.key])
             PROVE  rec.doc \in since'[rec.key]
  BY DEF UpToDate
<1>1. rec.key \in Resource /\ rec.rv \in 1..Len(crLog[rec.key])
  BY ObjectType
<1>2. Len(crLog[rec.key]) \in Nat
  BY <1>1, LogsGrow
<1>3. Len(crLog'[rec.key]) # Len(crLog[rec.key]) + 1
  BY <1>1, <1>2
<1>4. crLog'[rec.key] = crLog[rec.key] /\ since[rec.key] \subseteq since'[rec.key]
  BY <1>1, <1>3, SinceGrows
<1> QED
  BY <1>4 DEF WorkerOK, UpToDate

\* The worker stays on the path of its direction, with a version that it saw.
LEMMA WorkerStep ==
    ASSUME TypeOK, CachesOK, WorkerOK, SyncersOK, Next
    PROVE  WorkerOK'
<1> USE DEF api, caches, disk, history
<1>1. CASE rec'.pc = "idle"
  BY <1>1 DEF WorkerOK
<1>2. CASE UNCHANGED <<rec, tmp, written>>
  <2>1. rec.pc = "update" /\ UpToDate(crLog'[rec.key], rec.rv) => rec.doc \in since'[rec.key]
    BY AdoptsRecent
  <2> QED
    BY <1>2, <2>1, WorkerKeeps, HeldGrows DEF WorkerOK
<1>3. ASSUME NEW k \in Resource, StartReconcile(k), rec'.pc # "idle"
      PROVE  WorkerOK'
  <2>1. /\ SeenAlive(crLog[k], crSeen[k])
        /\ rec' = [Idle EXCEPT !.pc = "namespace", !.key = k, !.rv = crSeen[k]]
    BY <1>3 DEF StartReconcile, Idle
  <2>2. rec'.pc = "namespace" /\ rec'.key = k /\ rec'.rv = crSeen[k]
    BY <2>1 DEF Idle
  <2> QED
    BY <1>3, <2>1, <2>2 DEF WorkerOK, StartReconcile, SeenAlive, Object, TypeOK, CachesOK
<1>4. CASE /\ EnsureNamespace \/ ReadConfigAndUpdateK8s \/ UpdateResource
              \/ OpenTemp \/ WriteTemp
           /\ rec'.pc # "idle"
  <2> DEFINE Moves ==
        /\ rec.pc # "idle" /\ rec'.key = rec.key /\ rec'.rv = rec.rv
        /\ UNCHANGED <<written, held>>
        /\ rec'.pc = "update" => rec'.doc \in since'[rec.key]
        /\ rec'.pc \in {"readFile", "update"} => Object.fileSync
        /\ rec'.pc = "update" => rec'.doc \in held
        /\ rec'.pc \in {"openTemp", "writeTemp", "rename"} => ~Object.fileSync
        /\ rec'.pc = "rename" => tmp' = WrittenDocument(Object.spec)
  <2>1. ASSUME EnsureNamespace PROVE Moves
    BY <2>1 DEF EnsureNamespace, TypeOK, WorkerState
  <2>2. ASSUME ReadConfigAndUpdateK8s PROVE Moves
    <3>1. Readable(file) /\ rec.pc = "readFile"
            /\ rec' = [rec EXCEPT !.pc = "update", !.doc = file]
      BY <1>4, <2>2 DEF ReadConfigAndUpdateK8s, Retry, Idle
    <3> QED
      BY <2>2, <3>1 DEF ReadConfigAndUpdateK8s, TypeOK, WorkerState, WorkerOK, SyncersOK
  <2>3. ASSUME UpdateResource PROVE Moves
    <3>1. rec.pc = "update" /\ rec' = [rec EXCEPT !.pc = "sync"]
      BY <1>4, <2>3 DEF UpdateResource, Retry, Idle
    <3> QED
      BY <2>3, <3>1 DEF UpdateResource, TypeOK, WorkerState
  <2>4. ASSUME OpenTemp PROVE Moves
    BY <2>4 DEF OpenTemp, TypeOK, WorkerState, WorkerOK
  <2>5. ASSUME WriteTemp PROVE Moves
    BY <2>5 DEF WriteTemp, TypeOK, WorkerState, WorkerOK
  <2>6. Moves
    BY <1>4, <2>1, <2>2, <2>3, <2>4, <2>5
  <2>7. /\ rec.key \in Resource
        /\ rec.rv > 0 /\ rec.rv <= crSeen'[rec.key]
        /\ Object' = Object /\ Object.alive
    BY <2>6, WorkerKeeps
  <2> QED
    BY <2>6, <2>7 DEF WorkerOK
<1>5. CASE RenameFile
  <2>1. /\ rec.pc = "rename" /\ rec'.pc = "sync" /\ rec'.key = rec.key /\ rec'.rv = rec.rv
        /\ written' = [written EXCEPT ![rec.key] = rec.rv]
    BY <1>5 DEF RenameFile, TypeOK, WorkerState
  <2> QED
    BY <2>1, WorkerKeeps DEF WorkerOK, TypeOK, WorkerState
<1>6. ASSUME NEW p \in Syncer, SyncStep(p) \/ SyncFault(p), rec'.pc # "idle"
      PROVE  UNCHANGED <<rec, tmp, written>>
  BY <1>6 DEF SyncStep, SyncRead, SyncGet, SyncWrite, SyncFault, SyncDone, SyncFailed,
              Retry, Idle
<1>7. ASSUME NEW k \in Resource,
             \/ UserPutsResource(k) \/ UserDeletesResource(k)
             \/ DeliverResource(k) \/ Resync(k)
      PROVE  UNCHANGED <<rec, tmp, written>>
  BY <1>7 DEF UserPutsResource, UserDeletesResource, DeliverResource, Resync
<1>8. CASE UserWritesFile \/ UserChangesConfigMap \/ DeliverConfigMap \/ Tick
  BY <1>2, <1>8 DEF UserWritesFile, UserChangesConfigMap, DeliverConfigMap, Tick
<1>9. CASE ReconcileFault \/ Crash
  BY <1>1, <1>9 DEF ReconcileFault, Crash, Retry, Idle
<1> QED
  BY <1>1, <1>2, <1>3, <1>4, <1>5, <1>6, <1>7, <1>8, <1>9 DEF Next, ReconcileStep

\* What a SyncConfig carries stays a copy of a document that the file has held.
LEMMA SyncersStep ==
    ASSUME TypeOK, CachesOK, WorkerOK, SyncersOK, Next
    PROVE  SyncersOK'
<1> USE DEF api, caches, disk, history
<1>1. /\ held \subseteq held'
      /\ Readable(file') => file' \in held' /\ \A k \in Resource : file' \in since'[k]
  BY HeldGrows
<1> DEFINE Carries(q) ==
      /\ sync[q].pc \in {"get", "create", "update"} =>
            \E d \in held : sync[q].doc = MarshalIndent(ParseConfigFile(d))
      /\ sync[q].pc = "update" =>
            /\ sync[q].rv > 0 /\ sync[q].rv <= Len(cmLog)
            /\ cmLog[sync[q].rv].doc # sync[q].doc
<1>2. ASSUME NEW q \in Syncer, sync'[q] = sync[q]
      PROVE  Carries(q)'
  <2>1. Carries(q) /\ sync[q].rv \in Nat
    BY DEF SyncersOK, TypeOK, SyncState
  <2> QED
    BY <1>1, <1>2, <2>1, LogsGrow
<1>3. ASSUME NEW q \in Syncer, sync'[q].pc \in {"idle", "read"}
      PROVE  Carries(q)'
  BY <1>3
<1>4. ASSUME NEW q \in Syncer, SyncRead(q)
      PROVE  Carries(q)'
  <2>1. CASE Readable(file)
    <3>1. sync'[q].pc = "get" /\ sync'[q].doc = FileData
      BY <1>4, <2>1 DEF SyncRead, TypeOK, SyncState
    <3> QED
      BY <1>1, <2>1, <3>1 DEF SyncersOK, FileData
  <2>2. CASE ~Readable(file)
    BY <1>3, <1>4, <2>2 DEF SyncRead, SyncFailed, NoSync, TypeOK
  <2> QED
    BY <2>1, <2>2
<1>5. ASSUME NEW q \in Syncer, SyncGet(q)
      PROVE  Carries(q)'
  <2>1. /\ sync[q].pc = "get" /\ sync[q] \in SyncState /\ cmLog' = cmLog
        /\ \E d \in held : sync[q].doc = MarshalIndent(ParseConfigFile(d))
    BY <1>5 DEF SyncGet, SyncersOK, TypeOK
  <2>2. CASE sync' = [sync EXCEPT ![q] = [@ EXCEPT !.pc = "create"]]
    <3>1. sync'[q].pc = "create" /\ sync'[q].doc = sync[q].doc
      BY <2>1, <2>2 DEF TypeOK, SyncState
    <3> QED
      BY <1>1, <2>1, <3>1
  <2>3. CASE /\ SeenAlive(cmLog, cmSeen)
             /\ cmLog[cmSeen].doc # sync[q].doc
             /\ sync' = [sync EXCEPT ![q] = [@ EXCEPT !.pc = "update", !.rv = cmSeen]]
    <3>1. /\ sync'[q].pc = "update" /\ sync'[q].doc = sync[q].doc
          /\ sync'[q].rv = cmSeen
      BY <2>1, <2>3 DEF TypeOK, SyncState
    <3> QED
      BY <1>1, <2>1, <2>3, <3>1 DEF CachesOK, SeenAlive
  <2>4. CASE SyncDone(q)
    BY <1>3, <2>4 DEF SyncDone, NoSync, TypeOK
  <2> QED
    BY <1>5, <2>2, <2>3, <2>4 DEF SyncGet
<1>6. ASSUME NEW q \in Syncer, SyncWrite(q) \/ SyncFault(q)
      PROVE  Carries(q)'
  <2>1. sync' = [sync EXCEPT ![q] = NoSync]
    BY <1>6 DEF SyncWrite, SyncFault, SyncDone, SyncFailed
  <2> QED
    BY <1>3, <2>1 DEF NoSync, TypeOK
<1>7. ASSUME NEW p \in Syncer, SyncStep(p) \/ SyncFault(p),
             NEW q \in Syncer
      PROVE  Carries(q)'
  <2>1. q # p => sync'[q] = sync[q]
    BY <1>7 DEF TypeOK, SyncStep, SyncRead, SyncGet, SyncWrite, SyncFault, SyncDone,
                SyncFailed
  <2> QED
    BY <1>2, <1>4, <1>5, <1>6, <1>7, <2>1 DEF SyncStep
<1>8. ASSUME Tick \/ Crash, NEW q \in Syncer
      PROVE  Carries(q)'
  <2>1. sync'[q] = sync[q] \/ sync'[q].pc \in {"idle", "read"}
    BY <1>8 DEF Tick, Crash, NoSync, TypeOK
  <2> QED
    BY <1>2, <1>3, <2>1
<1>9. ASSUME UpdateResource \/ RenameFile, NEW q \in Syncer
      PROVE  Carries(q)'
  <2>1. sync'[q] = sync[q] \/ sync'[q].pc = "read"
    BY <1>9 DEF UpdateResource, RenameFile, SyncNext, NoSync, TypeOK
  <2> QED
    BY <1>2, <1>3, <2>1
<1>10. ASSUME UNCHANGED sync, NEW q \in Syncer
       PROVE  Carries(q)'
  BY <1>2, <1>10
<1> HIDE DEF Carries
<1>11. \A q \in Syncer : Carries(q)'
  BY <1>7, <1>8, <1>9, <1>10
  DEF Next, ReconcileStep, UserWritesFile, UserPutsResource, UserDeletesResource,
      UserChangesConfigMap, DeliverConfigMap, EnsureNamespace, ReadConfigAndUpdateK8s,
      OpenTemp, WriteTemp, ReconcileFault, DeliverResource, Resync, StartReconcile
<1>12. sync'["reconciler"].pc # "idle" => rec'.pc = "sync"
  <2>1. sync["reconciler"].pc # "idle" => rec.pc = "sync"
    BY DEF SyncersOK
  <2>2. ASSUME NEW p \in Syncer, SyncStep(p) \/ SyncFault(p)
        PROVE  \/ sync'["reconciler"].pc = "idle"
               \/ /\ rec' = rec
                  /\ sync["reconciler"].pc = "idle" => sync'["reconciler"].pc = "idle"
    <3>1. CASE p = "reconciler"
      BY <2>2, <3>1 DEF SyncStep, SyncRead, SyncGet, SyncWrite, SyncFault, SyncDone,
                        SyncFailed, NoSync, TypeOK, Syncer
    <3>2. CASE p # "reconciler"
      BY <2>2, <3>2 DEF SyncStep, SyncRead, SyncGet, SyncWrite, SyncFault, SyncDone,
                        SyncFailed, TypeOK, Syncer
    <3> QED
      BY <3>1, <3>2
  <2>3. CASE UpdateResource \/ RenameFile
    BY <2>1, <2>3 DEF UpdateResource, RenameFile, TypeOK, WorkerState
  <2>4. CASE EnsureNamespace \/ ReadConfigAndUpdateK8s \/ OpenTemp \/ WriteTemp
             \/ ReconcileFault
    BY <2>1, <2>4 DEF EnsureNamespace, ReadConfigAndUpdateK8s, OpenTemp, WriteTemp,
                      ReconcileFault
  <2>5. CASE Crash
    BY <2>5 DEF Crash, NoSync, Syncer
  <2>6. CASE Tick
    BY <2>1, <2>6 DEF Tick, TypeOK
  <2>7. ASSUME NEW k \in Resource, StartReconcile(k)
        PROVE  sync'["reconciler"].pc = "idle"
    BY <2>1, <2>7 DEF StartReconcile
  <2> QED
    BY <2>1, <2>2, <2>3, <2>4, <2>5, <2>6, <2>7
    DEF Next, ReconcileStep, UserWritesFile, UserPutsResource, UserDeletesResource,
        UserChangesConfigMap, DeliverConfigMap, DeliverResource, Resync
<1> QED
  BY <1>1, <1>11, <1>12 DEF SyncersOK, Carries

(***************************************************************************)
(* The safety properties.                                                  *)
(***************************************************************************)

\* A step that appends to the log of a resource either is a person's or replaces
\* the very version that the worker read, which asked for the file.
LEMMA AdoptsStep ==
    ASSUME TypeOK, CachesOK, WorkerOK, SyncersOK, Next, OperatorOnlyAdopts
    PROVE  OperatorOnlyAdopts'
<1> SUFFICES ASSUME NEW k \in Resource, NEW i \in 1..Len(crLog'[k]),
                    crLog'[k][i].by = "operator"
             PROVE  /\ i > 1
                    /\ crLog'[k][i - 1].alive /\ crLog'[k][i - 1].fileSync
                    /\ crLog'[k][i].alive /\ ~crLog'[k][i].fileSync
                    /\ \E d \in held' :
                         crLog'[k][i].spec = MapToClusterConfig(ParseConfigFile(d))
  BY DEF OperatorOnlyAdopts
<1>1. held \subseteq held'
  BY HeldGrows
<1>2. /\ Len(crLog[k]) \in Nat
      /\ \A j \in 1..Len(crLog[k]) : crLog'[k][j] = crLog[k][j]
  BY LogsGrow
<1>3. CASE i \in 1..Len(crLog[k])
  BY <1>1, <1>2, <1>3 DEF OperatorOnlyAdopts
<1>4. CASE i \notin 1..Len(crLog[k])
  <2>1. /\ rec.pc = "update" /\ rec.key = k /\ rec.rv = Len(crLog[k])
        /\ i = Len(crLog[k]) + 1 /\ crLog'[k][i] = Adopted
    BY <1>2, <1>4, ResourceWrites
  <2>2. /\ rec.rv \in 1..Len(crLog[k]) /\ rec.doc \in held
        /\ crLog[k][rec.rv].alive /\ crLog[k][rec.rv].fileSync
    BY <2>1, ObjectType DEF WorkerOK, Object
  <2>3. crLog'[k][i - 1] = crLog[k][rec.rv]
    BY <1>2, <2>1, <2>2
  <2> QED
    BY <1>1, <1>2, <2>1, <2>2, <2>3 DEF Adopted
<1> QED
  BY <1>3, <1>4

\* A version of the ConfigMap that is new and the operator's comes from a process
\* whose write the API server took.
LEMMA OperatorWrite ==
    ASSUME TypeOK, CachesOK, WorkerOK, SyncersOK, Next,
           NEW i \in 1..Len(cmLog'), i \notin 1..Len(cmLog), cmLog'[i].by = "operator"
    PROVE  \E p \in Syncer :
              /\ sync[p].pc \in {"create", "update"} /\ Accepted(p)
              /\ i = Len(cmLog) + 1 /\ cmLog'[i].doc = sync[p].doc
<1>1. Len(cmLog) \in Nat /\ Len(cmLog') = Len(cmLog) + 1 /\ i = Len(cmLog) + 1
  BY ConfigMapWrites, LogsGrow
<1>2. CASE cmLog'[i].by = "user"
  BY <1>2
<1>3. ASSUME NEW p \in Syncer,
             cmLog'[i] = [alive |-> TRUE, doc |-> sync[p].doc, by |-> "operator"]
      PROVE  cmLog'[i].doc = sync[p].doc
  BY <1>3
<1> QED
  BY <1>1, <1>2, <1>3, ConfigMapWrites

\* What a step appends to the log of the ConfigMap comes from the file.
LEMMA ProvenanceStep ==
    ASSUME TypeOK, CachesOK, WorkerOK, SyncersOK, Next, ConfigMapProvenance
    PROVE  ConfigMapProvenance'
<1>1. held \subseteq held'
  BY HeldGrows
<1>2. /\ Len(cmLog) \in Nat
      /\ \A i \in 1..Len(cmLog) : cmLog'[i] = cmLog[i]
  BY LogsGrow
<1>3. ASSUME NEW i \in 1..Len(cmLog'), cmLog'[i].by = "operator"
      PROVE  \E d \in held' : cmLog'[i].doc = MarshalIndent(ParseConfigFile(d))
  <2>1. CASE i \in 1..Len(cmLog)
    BY <1>1, <1>2, <1>3, <2>1 DEF ConfigMapProvenance
  <2>2. CASE i \notin 1..Len(cmLog)
    <3>1. PICK p \in Syncer :
             /\ sync[p].pc \in {"create", "update"}
             /\ cmLog'[Len(cmLog) + 1].doc = sync[p].doc
             /\ i = Len(cmLog) + 1
      BY <1>2, <1>3, <2>2, OperatorWrite
    <3> QED
      BY <1>1, <3>1 DEF SyncersOK
  <2> QED
    BY <2>1, <2>2
<1> QED
  BY <1>3 DEF ConfigMapProvenance

\* What a SyncConfig appends differs from the version that it read, the newest one.
LEMMA NoRepeatStep ==
    ASSUME TypeOK, CachesOK, WorkerOK, SyncersOK, Next, NoRepeatedUpdate
    PROVE  NoRepeatedUpdate'
<1>1. /\ Len(cmLog) \in Nat
      /\ \A i \in 1..Len(cmLog) : cmLog'[i] = cmLog[i]
  BY LogsGrow
<1>2. ASSUME NEW i \in 2..Len(cmLog'), cmLog'[i].by = "operator", cmLog'[i - 1].alive
      PROVE  cmLog'[i].doc # cmLog'[i - 1].doc
  <2>1. CASE i \in 2..Len(cmLog)
    BY <1>1, <1>2, <2>1 DEF NoRepeatedUpdate
  <2>2. CASE i \notin 2..Len(cmLog)
    <3>1. PICK p \in Syncer :
             /\ sync[p].pc \in {"create", "update"} /\ Accepted(p)
             /\ i = Len(cmLog) + 1 /\ cmLog'[i].doc = sync[p].doc
      BY <1>1, <1>2, <2>2, OperatorWrite
    <3>2. Len(cmLog) > 0 /\ cmLog'[i - 1] = cmLog[Len(cmLog)]
      BY <1>1, <3>1
    <3>3. sync[p].pc = "update" /\ sync[p].rv = Len(cmLog)
      BY <1>2, <3>1, <3>2 DEF Accepted, Exists, UpToDate
    <3> QED
      BY <3>1, <3>2, <3>3 DEF SyncersOK
  <2> QED
    BY <2>1, <2>2
<1> QED
  BY <1>2 DEF NoRepeatedUpdate

\* Only a person and the renaming of a complete temporary file change the file.
LEMMA FileStep ==
    ASSUME TypeOK, CachesOK, WorkerOK, SyncersOK, Next, FileProvenance
    PROVE  FileProvenance'
<1>1. CASE UNCHANGED file
  BY <1>1, LogsGrow DEF FileProvenance
<1>2. CASE UserWritesFile
  BY <1>2 DEF UserWritesFile, FileProvenance
<1>3. CASE RenameFile
  <2>1. /\ rec.key \in Resource /\ rec.rv \in 1..Len(crLog[rec.key])
        /\ Object.alive /\ ~Object.fileSync /\ file' = WrittenDocument(Object.spec)
        /\ crLog' = crLog
    BY <1>3, ObjectType DEF RenameFile, WorkerOK, api
  <2> QED
    BY <2>1 DEF FileProvenance, Object
<1> QED
  BY <1>1, <1>2, <1>3
  DEF Next, ReconcileStep, SyncStep, UserPutsResource, UserDeletesResource,
      UserChangesConfigMap, UpdateResource, DeliverConfigMap, EnsureNamespace,
      ReadConfigAndUpdateK8s, OpenTemp, WriteTemp, ReconcileFault, Tick, Crash,
      DeliverResource, Resync, StartReconcile, SyncRead, SyncGet, SyncWrite, SyncFault,
      disk

\* The inductive invariant holds initially.
LEMMA InitInvariant == Init => IInv
<1> SUFFICES ASSUME Init PROVE IInv
  OBVIOUS
<1>1. TypeOK
  <2>1. << >> \in Seq(Version) /\ << >> \in Seq(CmVersion)
    OBVIOUS
  <2>2. Idle \in WorkerState /\ NoSync \in SyncState
    BY StateTypes
  <2>3. file \in Document \cup {Absent, Garbage} /\ held \subseteq Document
    BY SyncAssumption DEF Init
  <2> QED
    BY <2>1, <2>2, <2>3 DEF Init, TypeOK
<1>2. /\ \A k \in Resource : crLog[k] = << >> /\ crSeen[k] = 0 /\ written[k] = 0
      /\ cmLog = << >> /\ cmSeen = 0
      /\ \A p \in Syncer : sync[p].pc = "idle"
      /\ rec.pc = "idle"
      /\ file \in UserDocument \cup {Absent} /\ held = {file} \cap Document
      /\ \A k \in Resource : since[k] = held
  BY DEF Init, Idle, NoSync
<1> QED
  BY <1>1, <1>2 DEF IInv, CachesOK, WorkerOK, SyncersOK, OperatorOnlyAdopts,
                    ConfigMapProvenance, NoRepeatedUpdate, FileProvenance, Readable,
                    Syncer

\* A step that changes no variable keeps it.
LEMMA StutterInvariant == IInv /\ UNCHANGED vars => IInv'
BY DEF IInv, vars, TypeOK, CachesOK, WorkerOK, SyncersOK, OperatorOnlyAdopts,
       ConfigMapProvenance, NoRepeatedUpdate, FileProvenance, Object, Readable

\* The inductive invariant holds in every state of every execution.
THEOREM Invariant == Spec => []IInv
<1>1. IInv /\ [Next]_vars => IInv'
  <2>1. CASE UNCHANGED vars
    BY <2>1, StutterInvariant
  <2>2. CASE Next
    BY <2>2, TypeStep, CachesStep, WorkerStep, SyncersStep, AdoptsStep, ProvenanceStep,
       NoRepeatStep, FileStep DEF IInv
  <2> QED
    BY <2>1, <2>2
<1> QED
  BY <1>1, InitInvariant, PTL DEF Spec

\* Every variable keeps its type; in particular the file is never half written.
THEOREM TypeCorrect == Spec => []TypeOK
BY Invariant, PTL DEF IInv

\* The operator never overwrites a resource except to adopt the file once, and
\* only if the version it replaces asked for that.
THEOREM Adoption == Spec => []OperatorOnlyAdopts
BY Invariant, PTL DEF IInv

\* The operator never writes a content to the ConfigMap that was not in the file.
THEOREM Provenance == Spec => []ConfigMapProvenance
BY Invariant, PTL DEF IInv

\* The operator never writes the content that the ConfigMap already has.
THEOREM NoRepetition == Spec => []NoRepeatedUpdate
BY Invariant, PTL DEF IInv

\* The file is a person's, or the complete rendering of one version of a resource.
THEOREM FileIsWhole == Spec => []FileProvenance
BY Invariant, PTL DEF IInv

\* The file never goes back to an older version of a resource.
THEOREM WritesOrdered == Spec => WritesInOrder
<1>1. IInv /\ [Next]_vars => [\A k \in Resource : written'[k] >= written[k]]_written
  <2>1. CASE UNCHANGED vars
    BY <2>1 DEF vars
  <2>2. ASSUME IInv, Next, NEW k \in Resource
        PROVE  written'[k] >= written[k]
    <3>1. written[k] <= written'[k]
      BY <2>2, CachesStep DEF IInv
    <3>2. written[k] \in Nat /\ written'[k] \in Nat
      BY <2>2, TypeStep DEF IInv, TypeOK
    <3> QED
      BY <3>1, <3>2
  <2> QED
    BY <2>1, <2>2
<1> QED
  BY <1>1, Invariant, PTL DEF Spec, WritesInOrder

(***************************************************************************)
(* ConfigSync implements Mirror, for every number of resources, every set  *)
(* of documents and specs, and every bound: with the inductive invariant,  *)
(* each step is a step of Mirror or changes nothing that Mirror sees.      *)
(***************************************************************************)

\* Mirror reads and writes documents by the same conversions.
LEMMA SameConversions ==
    /\ Abstract!Document = Document
    /\ \A d : Abstract!ParseConfigFile(d) = ParseConfigFile(d)
    /\ \A c : Abstract!MapToClusterConfig(c) = MapToClusterConfig(c)
    /\ \A c : Abstract!MarshalIndent(c) = MarshalIndent(c)
    /\ \A s : Abstract!WrittenDocument(s) = WrittenDocument(s)
BY DEF Abstract!Document, Document, Abstract!Config, Config, Abstract!ParseConfigFile,
       ParseConfigFile, Abstract!MapToClusterConfig, MapToClusterConfig,
       Abstract!LowerIsTrue, LowerIsTrue, Abstract!MarshalIndent, MarshalIndent,
       Abstract!WrittenDocument, WrittenDocument, Abstract!mapFromClusterConfig,
       mapFromClusterConfig, Abstract!FormatBool, FormatBool

(***************************************************************************)
(* The ConfigMap that Mirror sees is the newest version.                   *)
(***************************************************************************)

\* If it is there, the API server has one, and it is that one.
LEMMA MapIsNewest ==
    ASSUME TypeOK
    PROVE  /\ ConfigMap.alive => Exists(cmLog)
           /\ Exists(cmLog) => ConfigMap = cmLog[Len(cmLog)]
<1>1. cmLog \in Seq(CmVersion)
  BY DEF TypeOK
<1>2. CASE cmLog = << >>
  BY <1>2 DEF ConfigMap, Exists
<1>3. CASE cmLog # << >>
  <2>1. Len(cmLog) \in Nat /\ Len(cmLog) > 0
    BY <1>1, <1>3
  <2> QED
    BY <1>3, <2>1 DEF ConfigMap, Exists
<1> QED
  BY <1>2, <1>3

\* A new version is what it then is.
LEMMA MapAppended ==
    ASSUME TypeOK, NEW v \in CmVersion, cmLog' = Append(cmLog, v)
    PROVE  ConfigMap' = v
<1>1. cmLog \in Seq(CmVersion)
  BY DEF TypeOK
<1>2. /\ Len(cmLog) \in Nat
      /\ Len(Append(cmLog, v)) = Len(cmLog) + 1
      /\ Append(cmLog, v)[Len(cmLog) + 1] = v
  BY <1>1, AppendFacts
<1>3. cmLog' # << >>
  BY <1>2
<1> QED
  BY <1>2, <1>3 DEF ConfigMap

(***************************************************************************)
(* The steps of the operator that Mirror sees.                             *)
(***************************************************************************)

\* An update that the API server takes is an adoption, its lost reply included.
LEMMA UpdateRefines ==
    ASSUME IInv, UpdateResource
    PROVE  (\E k \in Resource : Abstract!Adopt(k)) \/ UNCHANGED Abstract!vars
<1>1. CASE /\ UpToDate(crLog[rec.key], rec.rv)
           /\ crLog' = [crLog EXCEPT ![rec.key] = Append(@, Adopted)]
           /\ NoteVersion(rec.key)
  <2>1. /\ rec.pc = "update" /\ rec.key \in Resource /\ rec.rv = Len(crLog[rec.key])
        /\ rec.rv \in 1..Len(crLog[rec.key])
        /\ Object.alive /\ Object.fileSync /\ rec.doc \in since[rec.key]
    BY <1>1, ObjectType DEF IInv, WorkerOK, UpdateResource, UpToDate
  <2>2. crLog[rec.key] # << >>
    BY <2>1
  <2>3. /\ Abstract!ResourceBecomes(rec.key,
              [alive |-> TRUE, fileSync |-> FALSE,
               spec |-> Abstract!MapToClusterConfig(Abstract!ParseConfigFile(rec.doc)),
               by |-> "operator"])
    BY <1>1, SameConversions DEF Abstract!ResourceBecomes, Adopted, NoteVersion
  <2>4. UNCHANGED <<file, held, written, ConfigMap>>
    BY DEF UpdateResource, disk, ConfigMap
  <2> QED
    BY <2>1, <2>2, <2>3, <2>4 DEF Abstract!Adopt, Object
<1>2. CASE UNCHANGED <<crLog, since>>
  BY <1>2 DEF UpdateResource, disk, ConfigMap, Abstract!vars
<1> QED
  BY <1>1, <1>2 DEF UpdateResource

\* The renaming of the temporary file writes the version out that was read.
LEMMA RenameRefines ==
    ASSUME IInv, RenameFile
    PROVE  \E k \in Resource : Abstract!WriteOut(k)
<1>1. /\ rec.key \in Resource /\ rec.rv \in 1..Len(crLog[rec.key])
      /\ rec.rv >= written[rec.key]
      /\ Object.alive /\ ~Object.fileSync /\ tmp = WrittenDocument(Object.spec)
  <2>1. rec.rv \in Nat /\ written[rec.key] \in Nat /\ written[rec.key] <= rec.rv
    BY DEF IInv, TypeOK, WorkerOK, WorkerState, RenameFile
  <2> QED
    BY <2>1, ObjectType DEF IInv, WorkerOK, RenameFile
<1>2. Abstract!FileBecomes(Abstract!WrittenDocument(Object.spec))
  BY <1>1, SameConversions DEF RenameFile, FileHolds, Abstract!FileBecomes
<1>3. UNCHANGED <<crLog, ConfigMap>>
  BY DEF RenameFile, api, ConfigMap
<1> QED
  BY <1>1, <1>2, <1>3 DEF Abstract!WriteOut, Object, RenameFile

\* A write of the ConfigMap that the API server takes copies a document that the
\* file has held, and one that is not there yet.
LEMMA WriteRefines ==
    ASSUME IInv, NEW p \in Syncer, sync[p].pc \in {"create", "update"}, Accepted(p),
           WriteConfigMap(p), UNCHANGED <<file, held, since, crLog, written>>
    PROVE  Abstract!Copy
<1> DEFINE v == [alive |-> TRUE, doc |-> sync[p].doc, by |-> "operator"]
<1>1. v \in CmVersion
  BY DEF IInv, TypeOK, SyncState, CmVersion
<1>2. ConfigMap' = v
  BY <1>1, MapAppended DEF IInv, WriteConfigMap
<1>3. PICK d \in held : sync[p].doc = MarshalIndent(ParseConfigFile(d))
  BY DEF IInv, SyncersOK
<1>4. ConfigMap.alive => v.doc # ConfigMap.doc
  <2>1. SUFFICES ASSUME Exists(cmLog)
                 PROVE  cmLog[Len(cmLog)].doc # sync[p].doc
    BY MapIsNewest DEF IInv
  <2>2. sync[p].pc = "update" /\ sync[p].rv = Len(cmLog)
    BY <2>1 DEF Accepted, UpToDate
  <2> QED
    BY <2>2 DEF IInv, SyncersOK
<1> QED
  BY <1>2, <1>3, <1>4, SameConversions DEF Abstract!Copy

(***************************************************************************)
(* People, and all the steps.                                              *)
(***************************************************************************)

\* What people do is what Mirror says of them.
LEMMA PeopleRefine ==
    ASSUME IInv
    PROVE  /\ UserWritesFile => Abstract!WriteFile
           /\ UserChangesConfigMap => Abstract!ChangeMap
           /\ \A k \in Resource :
                 /\ UserPutsResource(k) => Abstract!PutResource(k)
                 /\ UserDeletesResource(k) => Abstract!DeleteResource(k)
<1> USE DEF api, caches, disk, history, Abstract!ResourceBecomes, NoteVersion
<1>1. UserWritesFile => Abstract!WriteFile
  BY SameConversions
  DEF UserWritesFile, FileHolds, ConfigMap, Abstract!WriteFile, Abstract!FileBecomes
<1>2. ASSUME UserChangesConfigMap PROVE Abstract!ChangeMap
  <2>1. PICK b \in BOOLEAN :
            cmLog' = Append(cmLog, [alive |-> b, doc |-> NoDocument, by |-> "user"])
    BY <1>2 DEF UserChangesConfigMap
  <2>2. [alive |-> b, doc |-> NoDocument, by |-> "user"] \in CmVersion
    BY DEF CmVersion
  <2>3. ConfigMap' = [alive |-> b, doc |-> NoDocument, by |-> "user"]
    BY <2>1, <2>2, MapAppended DEF IInv
  <2> QED
    BY <1>2, <2>3 DEF UserChangesConfigMap, Abstract!ChangeMap
<1>3. ASSUME NEW k \in Resource
      PROVE  UserPutsResource(k) => Abstract!PutResource(k)
  BY SameConversions DEF UserPutsResource, ConfigMap, Abstract!PutResource
<1>4. ASSUME NEW k \in Resource
      PROVE  UserDeletesResource(k) => Abstract!DeleteResource(k)
  BY SameConversions DEF UserDeletesResource, Exists, ConfigMap, Abstract!DeleteResource
<1> QED
  BY <1>1, <1>2, <1>3, <1>4

\* Every step is one of Mirror, or one that Mirror does not see.
LEMMA StepRefines ==
    ASSUME IInv, Next
    PROVE  Abstract!Next \/ UNCHANGED Abstract!vars
<1>1. CASE UserWritesFile \/ UserChangesConfigMap
  BY <1>1, PeopleRefine DEF Abstract!Next
<1>2. ASSUME NEW k \in Resource, UserPutsResource(k) \/ UserDeletesResource(k)
      PROVE  Abstract!Next
  BY <1>2, PeopleRefine DEF Abstract!Next
<1>3. CASE UpdateResource
  BY <1>3, UpdateRefines DEF Abstract!Next
<1>4. CASE RenameFile
  BY <1>4, RenameRefines DEF Abstract!Next
<1>5. ASSUME NEW p \in Syncer, SyncWrite(p) \/ SyncFault(p)
      PROVE  Abstract!Next \/ UNCHANGED Abstract!vars
  <2>1. UNCHANGED <<file, held, since, crLog, written>>
    BY <1>5 DEF SyncWrite, SyncFault, disk, history
  <2>2. CASE UNCHANGED cmLog
    BY <2>1, <2>2 DEF ConfigMap, Abstract!vars
  <2>3. CASE /\ sync[p].pc \in {"create", "update"}
             /\ Accepted(p) /\ WriteConfigMap(p)
    BY <2>1, <2>3, WriteRefines DEF Abstract!Next
  <2> QED
    BY <1>5, <2>2, <2>3 DEF SyncWrite, SyncFault
<1>6. CASE UNCHANGED <<file, held, since, crLog, written, cmLog>>
  BY <1>6 DEF ConfigMap, Abstract!vars
<1> QED
  BY <1>1, <1>2, <1>3, <1>4, <1>5, <1>6
  DEF Next, ReconcileStep, SyncStep, DeliverConfigMap, EnsureNamespace,
      ReadConfigAndUpdateK8s, OpenTemp, WriteTemp, ReconcileFault, Tick, Crash,
      DeliverResource, Resync, StartReconcile, SyncRead, SyncGet, api, disk, history

\* The operator does nothing to the file, the resources and the ConfigMap but what
\* Mirror says: it adopts, writes out and copies, each in one step, although the
\* code works on cached copies, in two processes, over errors and restarts.
THEOREM Refinement == Spec => ImplementsMirror
<1>1. Init => Abstract!Init
  BY SameConversions DEF Init, Abstract!Init, Abstract!NoMap, ConfigMap
<1>2. IInv /\ [Next]_vars => [Abstract!Next]_(Abstract!vars)
  <2>1. CASE UNCHANGED vars
    BY <2>1 DEF vars, ConfigMap, Abstract!vars
  <2>2. ASSUME IInv, Next PROVE [Abstract!Next]_(Abstract!vars)
    BY <2>2, StepRefines
  <2> QED
    BY <2>1, <2>2
<1> QED
  BY <1>1, <1>2, Invariant, PTL DEF Spec, ImplementsMirror, Abstract!Spec

================================================================================
