# A TLA+ development of the k4all operator

The operator runs in the cluster of a k4all node. It keeps the configuration of the node
in step between a file on the host and the Kubernetes API, and installs or removes
features (Argo CD, KubeVirt) as the configuration says. This directory holds TLA+ modules
translated from its source, TLC configurations that check them on small instances, and
proofs that TLAPS checks for all instances. `PROJECT.json` maps every definition to the
source lines it stands for, and lists the runs, hazards, findings and theorems.

Run a model with `tlc -workers 2 -config X.cfg M`, a proof with `tlapm M.tla`.

## 1. Inventory of the system

| part (source) | state | operations | talks to |
|---|---|---|---|
| configuration types and conversions (`internal/controller/config`, `api/v1alpha1`) | none | parse, map to a spec, map to a `Config`, merge, write | the file |
| `ClusterConfigReconciler` (`clusterconfig_controller.go`) | work queue, one worker | adopt the file into a `ClusterConfig`; write a `ClusterConfig` to the file; then `SyncConfig` | file, API server, syncer |
| `K4allConfigSyncer` (`feature_controller.go`) | a ticker (5 s) | `SyncConfig`: file to ConfigMap `k4all-config` | file, API server |
| `ArgocdReconciler` (`argocd_controller.go`) | work queue, one worker; ConfigMap `argocd-values` | helm status, install, uninstall; delete the namespace; save values | ConfigMap, job runner |
| job runner (`jobrunner/jobrunner.go`) | the map `outputCallbacks`; Kubernetes jobs | `RunJob`, `waitForJobCompletion`, `RunHelmCommand`, `RunHostCommand` | API server, pods |
| `VirtReconciler` (`virt_controller.go`) | work queue, one worker; ConfigMap `virt-values` | install, follow-up, emulation, uninstall of KubeVirt, CDI, KubeVirt Manager | ConfigMap, downloader |
| KVM check (same file) | node labels, a DaemonSet | label nodes, wait, decide on emulation | nodes, DaemonSet controller |
| downloader (`downloader/downloader.go`) | none | apply or delete manifests from a URL, wait for readiness | network, API server |
| manager (`cmd/main.go`) | informer caches, leader lease | start all of the above | API server |

`SyncClusterConfig`, `SyncK8sToConfigFile`, `MergeAndWriteConfig`, `FeatureManager` and the
feature scripts are in the repository, and nothing that `main.go` starts calls them.
(`SyncClusterConfig` would not work: `ConvertToClusterConfigSpec` is a stub that returns empty
features and networking.)

How the parts interact: the reconcilers and the syncer share the file, the ConfigMap and
one informer cache per kind of object, and never call each other, except that
`ClusterConfigReconciler` ends a pass with `SyncConfig`. A write of the ConfigMap wakes
the feature controllers. A feature controller blocks for minutes in the job runner, whose
jobs outlive the call and the process.

Hard behaviours: reads from caches that lag behind; updates refused for their version, or
taken with the reply lost; two processes in `SyncConfig` at once; a restart between any two
steps; commands that still act after their caller gave up; errors in the middle of a pass,
which is then repeated from the start. What each part must guarantee:

- conversions: a round trip loses nothing that somebody needs; a flag is read as it was meant.
- configuration: no edit of a resource is overwritten unseen (an edit of the file may be, by the
  write-out of a resource: the code does not compare); the file and the ConfigMap are always
  whole and faithful copies; in the end all copies agree.
- job runner: a call ends; a call without an error is over; each mishap hides at most one
  failure and leaves at most one job behind.
- features: what is installed was asked for; in the end it is what the configuration says.
- KVM check: the answer fits the nodes; labels of earlier checks and nodes that the check
  did not reach do not decide for good; nothing privileged is left running.
- downloader: no error means done; what an error leaves can be completed; a call ends.

## 2. Modules

    K4allConfig ----+---- ConfigSync ---- MCConfigSync
       |            |      |   :
       |            |      |   : refinement (Abstract == INSTANCE Mirror WITH ...)
       |            |      |   v
       |            |      | Mirror        (EXTENDS K4allConfig)
       |            |      |
    K4allConfigProofs ---- ConfigSyncProofs
                    |
               FeatureWish ---+--------------- VirtLifecycle ---- MCVirtLifecycle
                    |         |                     |
                    |    FeatureWishProofs ---+---- VirtLifecycleProofs
                    |                         |
                    |                         +---- ArgocdProofs
                    |                               |
    CommandCall ----+------------------------------ Argocd ---- MCArgocd
       ^
       : refinement (Contract == INSTANCE CommandCall WITH ...)
    JobRunner ---- JobRunnerProofs

    KvmCheck ---- KvmCheckProofs      (the part of VirtReconciler behind EmulationNeeded)
    Manifest ---- ManifestProofs      (the downloader behind VirtLifecycle's manifests)

**K4allConfig** has the two shapes of the configuration and the conversions, as operators.
`Config` has flags that are texts (`"true"`, `"True"`, ...) and a pinned version for each
feature; `ClusterConfigSpec` has booleans and no versions. The fields that every wired
conversion copies are one opaque text, `base`. A `Document` is a `Config` with whatever else
a JSON file may say, which parsing drops.

**ConfigSync** is the core: people, informers, `ClusterConfigReconciler`,
`K4allConfigSyncer` and restarts. An object of the API server is a log of versions, so its
resource version is the length of the log, a cache is a position in the log, and an update
is taken only if it was computed from the last position. `rec` is the worker of the
reconciler: `StartReconcile` (cached read), `EnsureNamespace`, then either
`ReadConfigAndUpdateK8s`, `UpdateResource` or `OpenTemp`, `WriteTemp`, `RenameFile`, and
then the steps of `SyncConfig`. `sync` has the two processes that run `SyncConfig`
(`SyncRead`, `SyncGet`, `SyncWrite`): the reconciler and the ticker, which are different
`K4allConfigSyncer` objects with no lock between them. `ReconcileFault` and `SyncFault` fail
any call, and a write that fails may have been taken. `held`, `since` and `written` are
history variables: no action decides anything by them.

**Mirror** is the abstract specification of `ConfigSync`: a file, resources and a ConfigMap,
three atomic steps of the operator (`Adopt`, `WriteOut`, `Copy`), and no caches, queue,
temporary file, faults or restarts. What it says about the data is what people may rely
on: a resource that asks for the file gets a document that the file has held *since it asked*
(`since`), although the code reads the file some steps after the cached resource and
updates some steps later; the file gets a version that did not ask for it, never an older one;
the ConfigMap gets a document of the file, never the one it has. The mapping takes `held`,
`crLog` and `written` as they are and the newest version of `cmLog` as the ConfigMap.

**CommandCall** is the contract of the job runner, an abstract specification: the stages of
a call with its caller, whether its command still runs, how often it acted, and whether it
succeeded. An error tells the caller nothing about the command; a return without an error
tells that it acted and is over.

**JobRunner** is `RunJob` step by step with the jobs and pods of Kubernetes: a job is named
after the second it is created in; its pods start, act, end, get killed and are retried up
to the backoff limit; the worker sees them through a cache. The module shows that it
implements `CommandCall` by the mapping `stage <- Stage`, `running <- Runs`, in two parts:
`ImplementsContract`, the steps, which is proved, and `CallsReturn`, the fairness.

**FeatureWish** is what the feature controllers have in common: the ConfigMap as a log of
versions (`wishes`), the position of the informer cache in it (`seen`), the one key of the
work queue (`queued`), and what a controller makes of a version (`Managed`, `Enabled`). Its
actions leave the rest of a controller open; `Argocd` and `VirtLifecycle` complete them.

**Argocd** EXTENDS `FeatureWish` and `CommandCall` and uses the actions of both: `MakeCall` is `Make` with the effect on
the worker, `CallOk` and `CallError` are `ReturnOk` and `ReturnError` with the next step of
`Reconcile`, and `CommandActs` is `Act` with what helm does to the release. Thus a late
command of an earlier pass acts in the middle of a later one, exactly as far as the contract
allows. `CommandCall` lets the names of calls be used again, so that `Call` needs one name
per command that runs at the same time. When both names are taken by late commands the
model's worker waits for one of them to end: a bound of the model, not a rule of the code.

**VirtLifecycle** EXTENDS `FeatureWish` with `VirtReconciler`. KubeVirt and CDI are two
`Kind`s, each with its CRD, its operator, its custom resource and its namespace (`crd`,
`operator`, `cr`, `ns`); KubeVirt Manager is one deployment. `Check` is `IsVirtInstalled`;
`InstallStep` has the steps of `InstallVirtComponents`, among them `Clean` and
`CleanOperator`, which delete CDI before it is installed; `UninstallStep` those of
`UninstallVirtComponents`, which log their errors and go on. `ApplyOperator`, `ApplyResource`
and `WaitReady` stand for the code of both kinds. `mapped` is what the uncached client has
found in the discovery of the API server, and is lost in a restart: without it a read of a
custom resource is an error. Each step may fail after what it did took effect (`Fault`).
`EmulationNeeded` leaves the answer of the KVM check open: `"auto"` may give either answer or
an error, and `KvmCheck` says when it gives which. A manifest is its CRD, its namespace and its
operator, and applying it may stop after any part; `Manifest` has the list of objects.
`DeletesForEver` is the removal that `Manifest` calls `Loops`: the worker is lost (`"endless"`)
until the operator restarts; every removal of a manifest may end so (`RemoveManager`, `RemoveCDI`,
`CleanOperator`, `RemoveOperator`). A cache of namespaces or of `virt-values` that lags counts as a
fault: a write is refused and the pass repeated, or, in `DeleteNamespace`, the deletion is skipped
and the pass ends as if there were no namespace.

**KvmCheck** is `CheckEmulationNeeded` in the setting `"auto"`, repeated. The list of nodes, with
their labels, is a log of versions like `crLog`; `seen` is the position of the node cache.
`Deploy` creates or updates the DaemonSet as its cached copy says; `AwaitRollout`, `AwaitLabels`
and `DeleteDaemonSet` are the rest of `runKVMCheckAndLabelNodes`; `CheckEmulationNeeded` decides;
`UpdateEmulationSetting` writes the answer to KubeVirt. That the wait for the labels expires is
no error (`pc = "expired"`). Around the worker, nodes join, stop, and come back with another
hardware; pods start, label their node, sleep and label again; a pod of a deleted DaemonSet may
label late (`stray`). A pod of a running DaemonSet is followed only as far as it would change a
label, and stays ready between two runs of its container, although the container exits after a
minute and is restarted after growing pauses (see the assumptions below).

**Manifest** is one worker in `ApplyYAMLFromURL` or `DeleteYAMLFromURL`: `Fetch` opens the
download, which may break off (`end`, `broken`); `Decode` takes the next document; an object goes
through `Get` and `Put` (`createOrUpdateResource`) or `DeleteObject` before the next is decoded.
Others write the same objects in between (`Touched`), and objects that are being deleted
vanish (`Finalized`, and an update, which removes their finalizers). An application that failed
begins again (`Retry`), as `InstallVirtComponents` does.

Definitions directly before the one they resemble (`GiveUp` before `Retry`, `KeepJob` before
`Cleanup`, ...) are faulty variants. No action uses them; they show, one for each property,
that the property notices the fault (`PROJECT.json`, "mutants").

## 3. What the runs check

| run | instance | what it shows |
|---|---|---|
| `config_safety` | 2 ClusterConfigs, 2 user steps, 1 resync, 1 fault, 1 restart, 4 ConfigMap versions; resources symmetric | `OperatorOnlyAdopts`, `ConfigMapProvenance`, `NoRepeatedUpdate`, `FileProvenance`, `WritesInOrder`, and `IInv`, the invariant of the proofs |
| `config_liveness` | 1 ClusterConfig, 2 user steps with one document and one spec, 1 fault, 1 restart, 20 versions | `FileReachesConfigMap`, `ResourceReachesFile`, `ResourceAdoptsFile`, refinement of `Mirror` |
| `pinned_version` | 1 ClusterConfig, 2 user steps | finding: `PinnedVersionKept` fails |
| `job_runner` | 2 seconds for calls, 2 pods a job, loops of 1 and 2, 1 fault, 1 restart | `OneOrphanPerMishap`, `OverlapOnlyAfterError`, `OneFailureLostPerMishap`, refinement of `CommandCall` (`ImplementsContract`, `CallsReturn`) |
| `job_lost_log` | the same | finding: `SuccessIsReal` fails |
| `argocd` | 2 ConfigMap versions out of 4 contents, deletion and garbage; 2 calls; 1 fault, 1 restart | `ReleaseWasWished`, `NamespaceOutlivesRelease`, `NoUpgradeInPlace`, `ReleaseFollowsWish`, `ValuesFollowWish`, `NamespaceGoes` |
| `argocd_failed_install` | 2 versions, 1 fault | finding: `EnabledIsDeployed` fails |
| `virt` | 2 ConfigMap versions out of 5 contents, deletion and garbage; 2 faults, 1 restart | `InstallsOnlyWhatWasWished`, `HealthyLeftAlone`, `EnabledGetsReady`, `SettingsFollow`, `KubeVirtStops` |
| `virt_fresh_cluster` | 1 version, nothing fails | finding: `FreshClusterGetsReady` fails |
| `virt_leftovers` | 2 versions, 1 fault | finding: `DisabledLeavesNothing` fails |
| `kvm` | 2 nodes; 1 fault, 1 stop and 1 restart, at most 2 of them | `NativeOnlyWithKvm`, `EmulationOnlyWithout`, `EmulationFits`, `DaemonSetGoes` |
| `manifest` | 2 objects, manifests of up to 3 documents, 3 calls, 3 faults | `OkMeansDone`, `CreatedInOrder`, `AppliedInTheEnd`, `CallsEnd` |

Every passing run but `config_liveness` checks the type invariant of its module too.

**Bounds.** Two user steps allow an edit during any step of a pass begun for an earlier edit,
and two resources allow their passes to overwrite each other's file; the theorems lift the
safety properties of `ConfigSync` to all bounds. One fault and one restart allow a retry and
a restart at every point, and every passing run has both in one behaviour. Without a bound
on ConfigMap versions two resources and the ticker can keep writing; at the bound the API server refuses, which
`config_safety` reaches and `config_liveness`, with 20, does not. Two names for calls in
`Argocd` allow a late command beside the current one. In `job_runner` two seconds give two
calls, the least for overlap and for a name used twice; loops of one and two iterations have
each exit of the code's loops of 10 and 120. In `Argocd` and `VirtLifecycle` two
versions let the wish turn at any step of an installation or a removal, and an
installation may come after a removal, since both start from a cluster with the feature or
without; two faults in `VirtLifecycle` let the pass that repairs a failed one fail too. In `KvmCheck` two
nodes are one that a check reaches and one that it does not, or one that has KVM and one that has
not; joins and starts are not bounded but by the number of nodes and of stops. In `Manifest` three
documents have an object twice, or an empty or malformed one before, between or after objects;
three calls apply, delete and apply again over what was left.

**Deadlock** is checked, except where the system may really stop: `JobRunner` when the last
second for calls is over, `Argocd` and `VirtLifecycle` when there is no ConfigMap or
nothing is left to do, and `Manifest` after its last call.

**Fairness.** In `ConfigSync` informers deliver, the worker and the processes in `SyncConfig`
go on, and the ticker fires: goroutines that the Go runtime and client-go always run again.
A key in the work queue is taken strongly fairly, because the queue is first in, first out.
People, resyncs, faults and restarts are not fair. `JobRunner` assumes only that the worker
goes on, nothing about Kubernetes: each loop is bounded, so a call ends. `Argocd` assumes
besides that jobs run and end, that a namespace under deletion goes away, and that the
informer resyncs for ever (controller-runtime does, every ten hours, and `main.go` sets no
other period): "in the end" there can mean ten hours, since a late command wakes nobody.
`VirtLifecycle` does without the resync, as a pass that installs or removes something asks
for another; only `KubeVirtStops` has the resync as its premise, for a deletion that was skipped
(section 4). `VirtLifecycle` assumes that the API server serves the CRDs it has, that namespaces are emptied, and that an operator
makes its resource ready or completes its deletion; nobody completes a deletion when the
operator is gone. A wait of minutes expires while the operator is at work only by a fault.
`KvmCheck` assumes that the worker goes on and asks again, after an error at once and otherwise
at the resync of the ConfigMap; that the DaemonSet controller starts a pod on every node that is
up and reports; and that informers deliver. Nodes need not join, stop or start, and a node that
is down need not come back. `Manifest` assumes that the worker goes on and that a failed
installation is repeated, nothing of the cluster or the network (a request that never gets an
answer, for which the code sets no timeout, is left out).

**Assumptions.** One API server (a cache never goes back in time); one leader; the
namespace of the operator is not deleted; opening and renaming a file are atomic and `rename`
is durable; helm writes to stderr when it fails; a helm command acts at one moment, and one
that is cut off leaves a pending or failed release; the client of controller-runtime keeps
the kinds it has found and asks again for those it has not; it reads unstructured objects uncached; pods that are ready label
their node within the five seconds the code waits, and a rollout of two minutes does not expire
with every node up, except by a fault, so that only finitely many rollouts expire because the
containers, which exit after `sleep 60`, pause at different times (a first rollout finds them in
their first minute; a DaemonSet that an earlier check left has pods whose pauses grow up to five
minutes); a decoder that met a broken download meets it again.

## 4. Findings

1. *A pinned version gets lost.* After a `ClusterConfig` has adopted the file, the next pass
   writes it back without the feature versions. (`pinned_version`)
2. *The exit code of helm is always 0* (`|| true; EXIT_CODE=$?`), so the job completes, and a
   failed command is a success when its log cannot be read. (`job_lost_log`)
3. *A failed installation is never repeated*, although the code asks for a retry: `helm
   status` answers for the failed release. (`argocd_failed_install`)
4. *On a cluster that never had KubeVirt nothing is ever installed.* `isKubeVirtInstalled`
   returns the error that the kind is not known, and the pass ends there; its sibling for
   CDI calls the same error "not an error". (`virt_fresh_cluster`)
5. *A removal leaves components behind.* `UninstallVirtComponents` is called only if all three
   are ready when the pass looks; otherwise the namespace `kubevirt` is deleted and CDI and
   KubeVirt Manager stay. (`virt_leftovers`)

Other behaviour worth knowing, which the properties that hold state as their exceptions or
premises:

- *A deletion is skipped without a retry.* `IsNamespacePresent` (`virt_controller.go:707`) returns no
  error, whatever happened to its read; a failed or late read means that there is no namespace, and
  the branch after it, "Failed to check if namespace is present", which asks for a retry, cannot run.
  If KubeVirt was not ready for a moment when it was disabled, only the resync stops it:
  `KubeVirtStops` has the resync as its premise, and is violated without it by one `Wobble` and one
  skipped deletion.
- *The namespace of Argo CD may stay.* If the uninstallation acted and its call failed, or the
  deletion of the namespace failed, the retry finds no release and leaves the namespace alone
  (`argocd_controller.go:281`); `NamespaceGoes` is about undisturbed executions.
- *A removal may never return.* `DeleteYAMLFromURL` tries "the next document" after any error of the
  decoder (`downloader.go:286`), and a download that broke off has none: `Loops` in `CallsEnd`, and
  `Hangs` in the liveness properties of `VirtLifecycle`.
- While one node is down every KVM check fails, so that the emulation setting does not change and the
  DaemonSet of the failed check keeps running (`EmulationFits`, `DaemonSetGoes`).
- The deletion of a resource whose operator is gone is completed by nobody, and stands in the way of
  any later installation (`Stuck` in `EnabledGetsReady`).
- `outputCallbacks` (`jobrunner.go:448`) is never emptied, and grows by an entry per command.

The theorem `MergeKeepsNothing` shows besides that `MergeAndWriteConfig`, which nothing calls,
would not merge: passing through a spec drops what it kept of the file.

## 5. What is proved

Every safety property of a passing run is a theorem, invariants, action properties and the
refinements of `Mirror` and `CommandCall`: each is proved from the named assumptions on the
constants only, so for any number of resources, calls, pods, nodes, versions, documents, faults
and restarts. Hardly any of the invariants is inductive as it stands, in most components not even
type correctness; what follows says for each what had to be added, and why.

| module | theorems |
|---|---|
| `ConfigSyncProofs` | `TypeCorrect`, `Adoption`, `Provenance`, `NoRepetition`, `FileIsWhole`, `WritesOrdered`, `Refinement` (of `Mirror`) |
| `JobRunnerProofs` | `TypeCorrect`, `JobsLeft`, `Overlap`, `FailuresReported`, `Refinement` (of `CommandCall`, steps) |
| `ArgocdProofs` | `TypeCorrect`, `NamespaceLast`, `OnlyWished`, `NoUpgrade` |
| `VirtLifecycleProofs` | `TypeCorrect`, `OnlyWished`, `HealthyIsSafe` |
| `KvmCheckProofs` | `TypeCorrect`, `NativeIsSafe`, `EmulationIsNeeded` |
| `ManifestProofs` | `TypeCorrect`, `Completion`, `CreationOrder` |
| `K4allConfigProofs` | `ResourceRoundTrip`, `WrittenFlagsAreRead`, `MergeKeepsNothing` |
| `FeatureWishProofs` | lemmas that the two feature controllers share |

In every component but the conversions a theorem `Invariant` says `Spec => []IInv`; TLC has
checked each `IInv` on the small instance, too.

**ConfigSync.** That the operator overwrites only what it has read depends on where its worker
is and on the version it holds, so `WorkerOK` ties the worker to a live version, at most as new
as its cache, whose annotation gave its direction, and ties the temporary file to that version
before the rename. `NoRepeatedUpdate` depends on a comparison made a step earlier by either
process: `SyncersOK` says that a process about to update holds a version whose content differs,
and the version check makes that version the newest one. `CachesOK` orders the positions:
written to the file at most seen, seen at most the newest, from which `WritesInOrder` follows.
The proof has a lemma for each conjunct and step (`TypeStep`, `CachesStep`, `WorkerStep`,
`SyncersStep`, `AdoptsStep`, `ProvenanceStep`, `NoRepeatStep`, `FileStep`), over lemmas that say
which steps extend a log (`ResourceWrites`, `ConfigMapWrites`) and that logs only grow
(`LogsGrow`). For the refinement `WorkerOK` says besides that the document in the worker's hands
is in `since` as long as the version it read is the newest one, and `SyncersOK` that the file's
present document is in every `since` (`SinceGrows`, `AdoptsRecent`). The step proof is short:
`UpdateRefines`, `RenameRefines` and `WriteRefines` map the three writes of the operator to
`Adopt`, `WriteOut` and `Copy`, `PeopleRefine` the steps of people, and every other step leaves
what `Mirror` sees unchanged. `IInv` is also an invariant of `config_safety`.

**JobRunner.** A name is never used for a second job, and so everything that a read of the API
can tell about a job stays true: `JobsOK` says that its status only advances, that an end of the
job is the end of its pods, that a completed job has acted, and that the cache trails it.
`CallsOK` places the calls: those before `now` have ended, those after it are unmade and have no
job. `ResultOK` says that the worker's idea of success (`failure`) rests on the completed
status. `MishapsOK` keeps accounts: it counts the jobs of ended calls (`Lost`) and the failures that
ended calls did not report (`Unheard`), together with the job or failure that the present call has
already lost, against faults, restarts and reads from a late cache. No step adds more than the
present call to either set, and none does without a mishap of its own (`LostStep`, `UnheardStep`;
`SubsetBounded`, `OneMore` and `SetBounds` are the facts on finite sets), from which
`OneOrphanPerMishap` and `OneFailureLostPerMishap` follow. With these invariants each lemma of the refinement takes one step of
the runner to one of the contract: `StartRefines` to `Make` (or `Collide`, when the name is
taken), `CreateRefines` to `Begin` or `ReturnError`, `CleanupRefines` to `ReturnOk` or
`ReturnError`, `CrashRefines` to `Abandon`, `PodStepRefines` to `Act` and `Stop`; `Unseen` says
that the contract does not see the rest.

**The feature controllers.** `FeatureWishProofs` says of any step of either controller that the
log of wishes and the cache only advance, so that what was `Shown` to a controller stays so, and
that a pass begins with a version that was shown. `PassOK` of `Argocd` carries this through the
pass, and `CommandsOK` to the commands, also those that nobody waits for any more: whatever is
installed, by whichever of them, was wished. The other two properties are about executions in
which nothing failed; for these `AloneOK` says that no command runs but the awaited one, and
that what helm has answered is still true when the worker acts by it: there is no release when
`install` begins, nor when the namespace is deleted. `SettledOK` of `VirtLifecycle` is that
KubeVirt Manager comes last and goes first. As long as nothing failed, all three are therefore
ready only outside `InstallStep`, except that its last wait may see them, and in a removal only
up to its first step; so `HealthyIsSafe` follows although the installation deletes CDI without
looking at it.

**KvmCheck.** Labels lie: one may be of another check or of hardware that is no longer there.
`ListsOK` says that a node stays in the list, and that a label is replaced, never taken away;
`LabelsOK` that, until the first node is stopped, every label in every version of the list is
the truth about its node, the versions that the cache still has to show included. With it any
answer `"native"` rests on a node that has KVM. For `"emulate"` the worker needs every node
labelled: `WorkerOK` says that without a fault it decides only when each node it `asked` for is,
and that these are in its cache.

**The conversions.** `K4allConfigProofs` proves about the conversions that a resource survives
the trip through the file (`ResourceRoundTrip`), that the exact comparison of the feature
controllers reads every written flag correctly (`WrittenFlagsAreRead`), and `MergeKeepsNothing`.

**Manifest.** What a returned call has done says nothing of one that is running, so `Progress`
adds that every document before `at` is `Done`: an object as the call wants it, or one in
`missed`. `DoneStays` shows that neither the rest of the call, nor an object whose finalizers
end, nor another writer undoes it; a download that is not broken reaches the end of the
manifest, so a call that ends there has done all of it.

**Only model-checked**, because the prover knows neither `ENABLED` nor rules for fairness: the
liveness properties (`FileReachesConfigMap`, `ResourceReachesFile`, `ResourceAdoptsFile`;
`CallsReturn`, the fairness half of `CommandCall`; `ReleaseFollowsWish`, `ValuesFollowWish`,
`NamespaceGoes`; `EnabledGetsReady`, `SettingsFollow`, `KubeVirtStops`; `EmulationFits`,
`DaemonSetGoes`; `AppliedInTheEnd`, `CallsEnd`), and the violations of section 4.

## 6. Not modelled

The unwired code named above, which no execution reaches; HTTP, logging, metrics, probes, leader
election, RBAC; the contents of job specifications and of objects in manifests; the address that
is passed to the Argo CD chart. `KvmCheck` and `Manifest` are not composed with `VirtLifecycle` in
one state space, which would be out of TLC's reach: `VirtLifecycle` allows
every outcome that they show of a single call, a removal that never returns and a check that fails
included. What it bounds is how often: errors count as faults, so that a check that fails for as long
as some node is down, which `KvmCheck` shows, is not among its executions, and `EnabledGetsReady` and
`SettingsFollow` say nothing of a cluster with such a node.

## 7. Plan

Done, in this order: `K4allConfig`, `ConfigSync` and its proofs, `CommandCall` and
`JobRunner`, `Argocd`, `VirtLifecycle`, `KvmCheck`, `Manifest`, `Mirror` and the proof of its
refinement, and the proofs of all other components. To do:

1. An abstract specification of a feature controller (it installs and removes as some wish that it
   has seen says), with the steps of `Argocd` and `VirtLifecycle` shown to implement it.
2. The result texts of host commands, for the address that reaches the Argo CD chart.
