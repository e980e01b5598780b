----------------------------- MODULE VirtLifecycle -----------------------------
(***************************************************************************)
(* VirtReconciler: installs and uninstalls KubeVirt, CDI and KubeVirt      *)
(* Manager as the ConfigMap k4all-config says.                             *)
(*                                                                         *)
(* KubeVirt and CDI are each a manifest with an operator and the kind of   *)
(* its custom resource (the CRD), and then the custom resource, whose      *)
(* operator makes it ready and takes part in its deletion.  An uncached    *)
(* client has to find the kind in the discovery of the API server before   *)
(* it can read a custom resource; what it found it keeps until the         *)
(* operator restarts.                                                      *)
(*                                                                         *)
(* A pass of Reconcile takes many minutes and can fail after every call;   *)
(* the next pass then starts from the beginning.                           *)
(***************************************************************************)
EXTENDS Naturals, Sequences, FeatureWish

CONSTANTS
    NoWish, NoValues,
    MaxFaults,       \* bound: failed calls, timeouts, components that become unready
    MaxCrashes       \* bound: restarts of the operator

ASSUME VirtAssumption ==
    /\ NoWish \notin Config
    /\ {MaxFaults, MaxCrashes} \subseteq Nat

VARIABLES
    pc,          \* where the worker is in Reconcile
    want,        \* the Config that this pass read
    mapped,      \* the kinds that the client has found in the discovery
    crd,         \* of each kind: the CRD of its custom resource
    operator,    \* of each kind: its operator runs
    cr,          \* of each kind: its custom resource
    ns,          \* of each kind: the namespace of its operator
    manager,     \* the deployment of KubeVirt Manager
    emulation,   \* useEmulation in the resource of KubeVirt
    values,      \* what the ConfigMap virt-values says
    count        \* how many faults and restarts there were

kinds   == <<crd, operator, cr, ns>>
cluster == <<kinds, manager, emulation>>
input   == <<wishes, seen>>
vars    == <<wishVars, pc, want, mapped, cluster, values, count>>

Kind == {"KubeVirt", "CDI"}

Step ==
    {"idle", "check",
     "operator", "resource", "wait", "emulateNew",                    \* KubeVirt
     "clean", "cleanOperator", "cdiOperator", "cdiCrd", "cdiResource", "cdiWait",
     "manager", "managerWait",
     "emulate", "save",                                               \* installed
     "saveOff", "removeManager", "removeCDI", "remove", "gone", "removeOperator",
     "namespace",                                                     \* not installed
     "endless"}                                 \* a download that will not be read on

TypeOK ==
    /\ WishTypeOK
    /\ pc \in Step
    /\ want \in Config \cup {NoWish}
    /\ pc = "idle" <=> want = NoWish
    /\ mapped \subseteq Kind
    /\ crd \in [Kind -> {"absent", "pending", "served", "removing"}]
    /\ operator \in [Kind -> BOOLEAN]
    /\ cr \in [Kind -> {"none", "starting", "ready", "deleting"}]
    /\ ns \in [Kind -> {"absent", "live", "terminating"}]
    /\ manager \in {"none", "starting", "ready"}
    /\ emulation \in {"unset", "on", "off"}
    /\ values \in [enabled : BOOLEAN, emulation : Text] \cup {NoValues}
    /\ count \in [{"fault", "crash"} -> Nat]
    /\ \A k \in Kind :
          /\ cr[k] # "none" => crd[k] \in {"served", "removing"}
          /\ crd[k] = "removing" => cr[k] = "deleting"

\* The operator comes to a cluster without KubeVirt, or with all of it.
Init ==
    /\ WishInit
    /\ pc = "idle" /\ want = NoWish /\ mapped = {}
    /\ \E there \in BOOLEAN :
          /\ crd = [k \in Kind |-> IF there THEN "served" ELSE "absent"]
          /\ operator = [k \in Kind |-> there]
          /\ cr = [k \in Kind |-> IF there THEN "ready" ELSE "none"]
          /\ ns = [k \in Kind |-> IF there THEN "live" ELSE "absent"]
          /\ manager = IF there THEN "ready" ELSE "none"
    /\ emulation = "unset"
    /\ values = NoValues
    /\ count = [e \in {"fault", "crash"} |-> 0]

Counted(what, max) ==
    /\ count[what] < max
    /\ count' = [count EXCEPT ![what] = @ + 1]

Fault == Counted("fault", MaxFaults)

(***************************************************************************)
(* The informers.                                                          *)
(***************************************************************************)
ConfigMapChanges == WishChanges /\ UNCHANGED <<pc, want, mapped, cluster, values, count>>
DeliverConfigMap == WishArrives /\ UNCHANGED <<pc, want, mapped, cluster, values, count>>
Resync           == WishResync  /\ UNCHANGED <<pc, want, mapped, cluster, values, count>>

(***************************************************************************)
(* VirtReconciler.Reconcile.                                               *)
(***************************************************************************)
GoTo(where) ==
    /\ pc' = where
    /\ UNCHANGED <<queued, want>>

\* A pass that leaves what it has read to the next one.
FinishForgetting ==
    /\ pc' = "idle"
    /\ UNCHANGED <<queued, want>>

Finish ==
    /\ pc' = "idle" /\ want' = NoWish
    /\ UNCHANGED queued

\* A pass that ends for good.
GiveUp ==
    /\ pc' = "idle" /\ want' = NoWish
    /\ queued' = FALSE

\* An error, or the follow-up that a pass asks for: the key is queued again.
Again ==
    /\ pc' = "idle" /\ want' = NoWish
    /\ queued' = TRUE

FaultAgain == Fault /\ Again

\* Nothing that the worker does changes these.
Around == UNCHANGED <<wishes, seen>>

\* A pass that does not look at the flag "managed".
StartReconcileUnmanaged ==
    /\ pc = "idle" /\ queued
    /\ seen > 0 /\ wishes[seen] \in Config
    /\ pc' = "check" /\ want' = wishes[seen] /\ queued' = FALSE
    /\ Around
    /\ UNCHANGED <<mapped, cluster, values, count>>

StartReconcile ==
    /\ pc = "idle"
    /\ \/ /\ HasWork
          /\ pc' = "check" /\ want' = wishes[seen] /\ queued' = FALSE
          /\ UNCHANGED count
       \/ /\ NoWork
          /\ Dismiss
          /\ UNCHANGED <<pc, want, count>>
       \/ /\ queued /\ Fault                  \* in a Get, or in GetValues
          /\ UNCHANGED <<queued, pc, want>>
    /\ Around
    /\ UNCHANGED <<mapped, cluster, values>>

Discovered(k) == crd[k] \in {"served", "removing"}
Mappable(k)   == k \in mapped \/ Discovered(k)
Finds(ks)     == mapped' = mapped \cup {k \in ks : Mappable(k)}

AllReady == cr["KubeVirt"] = "ready" /\ cr["CDI"] = "ready" /\ manager = "ready"

\* A pass that also wants the emulation to be set before it calls Virt installed.
CheckWithEmulation ==
    /\ pc = "check" /\ Mappable("KubeVirt")
    /\ Finds(Kind)
    /\ GoTo(IF AllReady /\ emulation # "unset"
            THEN IF Enabled(want) THEN "emulate" ELSE "saveOff"
            ELSE IF Enabled(want) THEN "operator" ELSE "namespace")
    /\ Around
    /\ UNCHANGED <<cluster, values, count>>

\* IsVirtInstalled.  That the kind of KubeVirt is not known is an error; that of
\* CDI, which is read only if KubeVirt is deployed, means not installed.
Check ==
    /\ pc = "check"
    /\ \/ /\ Mappable("KubeVirt")
          /\ Finds(IF cr["KubeVirt"] = "ready" THEN Kind ELSE {"KubeVirt"})
          /\ IF AllReady
             THEN GoTo(IF Enabled(want) THEN "emulate" ELSE "saveOff")
             ELSE GoTo(IF Enabled(want) THEN "operator" ELSE "namespace")
          /\ UNCHANGED count
       \/ /\ ~Mappable("KubeVirt")
          /\ Again
          /\ UNCHANGED <<mapped, count>>
       \/ /\ FaultAgain
          /\ UNCHANGED mapped
    /\ Around
    /\ UNCHANGED <<cluster, values>>

(***************************************************************************)
(* InstallVirtComponents, with InstallCDI and InstallKubeVirtManager.  The *)
(* two manifests of KubeVirt and of CDI are applied in the same way.       *)
(***************************************************************************)
Registered(k) == [crd EXCEPT ![k] = IF @ = "absent" THEN "pending" ELSE @]
Opened(k)     == [ns EXCEPT ![k] = IF @ = "absent" THEN "live" ELSE @]

\* The manifest of the operator: its namespace, the CRD, and then the objects in
\* the namespace, which takes none while it is being deleted.
ApplyOperator(k, at, next) ==
    /\ pc = at
    /\ \/ /\ ns[k] # "terminating"
          /\ ns' = Opened(k) /\ crd' = Registered(k)
          /\ operator' = [operator EXCEPT ![k] = TRUE]
          /\ GoTo(next)
          /\ UNCHANGED count
       \/ /\ ns[k] = "terminating"
          /\ crd' = Registered(k)
          /\ Again
          /\ UNCHANGED <<ns, operator, count>>
       \/ /\ FaultAgain
          /\ \/ UNCHANGED <<ns, crd, operator>>
             \/ ns' = Opened(k) /\ crd' \in {crd, Registered(k)} /\ UNCHANGED operator
             \/ /\ ns[k] # "terminating"
                /\ ns' = Opened(k) /\ crd' = Registered(k)
                /\ operator' = [operator EXCEPT ![k] = TRUE]
    /\ Around
    /\ UNCHANGED <<mapped, cr, manager, emulation, values>>

\* createOrUpdateResource with the custom resource.  An update replaces the spec,
\* and the finalizers too, which may complete a deletion.
CreateOrUpdate(k) ==
    /\ Mappable(k)
    /\ emulation' = IF k = "KubeVirt" THEN "unset" ELSE emulation
    /\ \/ /\ cr[k] = "none"
          /\ crd[k] = "served" /\ ns[k] = "live"
          /\ cr' = [cr EXCEPT ![k] = "starting"]
       \/ /\ cr[k] \in {"starting", "ready"}
          /\ UNCHANGED cr
       \/ /\ cr[k] = "deleting" /\ crd[k] = "served"
          /\ \E s \in {"deleting", "none"} : cr' = [cr EXCEPT ![k] = s]
       \/ /\ cr[k] = "deleting" /\ crd[k] = "removing"
          /\ UNCHANGED cr

ApplyResource(k, at, next) ==
    /\ pc = at
    /\ Finds({k})
    /\ \/ /\ CreateOrUpdate(k)
          /\ \/ GoTo(next) /\ UNCHANGED count
             \/ FaultAgain                      \* the reply is lost
       \/ /\ \/ FaultAgain
             \/ /\ ~Mappable(k) \/ (cr[k] = "none" /\ ~(crd[k] = "served" /\ ns[k] = "live"))
                /\ Again
                /\ UNCHANGED count
          /\ UNCHANGED <<cr, emulation>>
    /\ Around
    /\ UNCHANGED <<crd, operator, ns, manager, values>>

\* A wait of minutes times out while the operator has work to do only by a fault.
Busy(k) == operator[k] /\ cr[k] \in {"starting", "deleting"}

WaitReady(k, at, next) ==
    /\ pc = at
    /\ \/ cr[k] = "ready" /\ GoTo(next) /\ UNCHANGED count
       \/ ~Busy(k) /\ cr[k] # "ready" /\ Again /\ UNCHANGED count
       \/ FaultAgain
    /\ Around
    /\ UNCHANGED <<mapped, cluster, values>>

\* CheckEmulationNeeded; in the setting "auto" the nodes decide.
EmulationNeeded(setting) ==
    CASE setting = "true" -> {TRUE}
      [] setting = "auto" -> BOOLEAN
      [] OTHER            -> {FALSE}

\* A setting that is never taken back.
UpdateEmulationOnly(use) ==
    IF use THEN "on" ELSE emulation

UpdateEmulation(use) ==
    IF use THEN "on" ELSE IF emulation = "unset" THEN "unset" ELSE "off"

\* UpdateEmulationSetting, which fails without the resource.
SetEmulation(use, next) ==
    \/ /\ cr["KubeVirt"] # "none"
       /\ emulation' = UpdateEmulation(use)
       /\ GoTo(next)
       /\ UNCHANGED count
    \/ /\ cr["KubeVirt"] = "none"
       /\ Again
       /\ UNCHANGED <<emulation, count>>

\* The check fails, or the update, or only its reply is lost.
SetEmulationFault(answers) ==
    /\ FaultAgain
    /\ \/ UNCHANGED emulation
       \/ /\ cr["KubeVirt"] # "none"
          /\ \E use \in answers : emulation' = UpdateEmulation(use)

\* A fresh installation takes the setting for "auto", whatever it is.
EmulateNew ==
    /\ pc = "emulateNew"
    /\ \/ \E use \in EmulationNeeded("auto") :
             IF use THEN SetEmulation(use, "clean")
             ELSE GoTo("clean") /\ UNCHANGED <<emulation, count>>
       \/ SetEmulationFault({TRUE})
    /\ Around
    /\ UNCHANGED <<mapped, kinds, manager, values>>

Emulate ==
    /\ pc = "emulate"
    /\ \/ \E use \in EmulationNeeded(want.emulation) : SetEmulation(use, "save")
       \/ SetEmulationFault(EmulationNeeded(want.emulation))
    /\ Around
    /\ UNCHANGED <<mapped, kinds, manager, values>>

\* The finalizers of a resource keep it until its operator has cleaned up.
MarkDeleted(k) ==
    [cr EXCEPT ![k] = IF @ \in {"starting", "ready"} THEN "deleting" ELSE @]

\* The manifest of the operator is deleted, and with the CRD all its resources.
WithdrawOperator(k) ==
    /\ operator' = [operator EXCEPT ![k] = FALSE]
    /\ cr' = MarkDeleted(k)
    /\ crd' = [crd EXCEPT ![k] = IF cr[k] = "none" THEN "absent" ELSE "removing"]

CloseNamespace(k) ==
    [ns EXCEPT ![k] = IF @ = "live" THEN "terminating" ELSE @]

\* A removal by a manifest whose download breaks off, after some of its objects:
\* DeleteYAMLFromURL never returns (Manifest!Loops), and only a restart helps.
DeletesForEver(k) ==
    /\ Fault
    /\ GoTo("endless")
    /\ \/ UNCHANGED <<crd, operator, ns>> /\ cr' \in {cr, MarkDeleted(k)}
       \/ ns' = CloseNamespace(k) /\ cr' = MarkDeleted(k) /\ UNCHANGED <<crd, operator>>
       \/ ns' = CloseNamespace(k) /\ WithdrawOperator(k)

\* CleanupCDIResources deletes whatever there is of CDI before it is installed, in
\* two waits of ten seconds, and logs every error.
Clean ==
    /\ pc = "clean"
    /\ Finds({"CDI"})
    /\ \/ cr' = MarkDeleted("CDI") /\ UNCHANGED count
       \/ Fault /\ UNCHANGED cr
    /\ GoTo("cleanOperator")
    /\ Around
    /\ UNCHANGED <<crd, operator, ns, manager, emulation, values>>

CleanOperator ==
    /\ pc = "cleanOperator"
    /\ \/ /\ \/ WithdrawOperator("CDI") /\ UNCHANGED count
             \/ Fault /\ UNCHANGED <<operator, cr, crd>>       \* no version to be had
          /\ ns' = CloseNamespace("CDI")
          /\ GoTo("cdiOperator")
       \/ DeletesForEver("CDI")
    /\ Around
    /\ UNCHANGED <<mapped, manager, emulation, values>>

\* The list of CDI resources works once the CRD is served.
WaitCrd ==
    /\ pc = "cdiCrd"
    /\ Finds({"CDI"})
    /\ \/ Discovered("CDI") /\ GoTo("cdiResource") /\ UNCHANGED count
       \/ crd["CDI"] = "absent" /\ Again /\ UNCHANGED count
       \/ FaultAgain
    /\ Around
    /\ UNCHANGED <<cluster, values>>

\* An existing deployment is deleted first; both are gone and made in one step.
ApplyManager ==
    /\ pc = "manager"
    /\ \/ manager' = "starting" /\ GoTo("managerWait") /\ UNCHANGED count
       \/ manager' \in {manager, "none", "starting"} /\ FaultAgain
    /\ Around
    /\ UNCHANGED <<mapped, kinds, emulation, values>>

\* The last step of an installation asks for the follow-up.
WaitManager ==
    /\ pc = "managerWait"
    /\ \/ manager = "ready" /\ Again /\ UNCHANGED count
       \/ FaultAgain
    /\ Around
    /\ UNCHANGED <<mapped, cluster, values>>

Saving == [enabled |-> Enabled(want), emulation |-> want.emulation]

\* SaveValues, at the end of one direction and at the beginning of the other.
SaveValues ==
    /\ pc \in {"save", "saveOff"}
    /\ \/ /\ values' = Saving
          /\ IF pc = "save" THEN Finish ELSE GoTo("removeManager")
          /\ UNCHANGED count
       \/ FaultAgain /\ values' \in {values, Saving}
    /\ Around
    /\ UNCHANGED <<mapped, cluster>>

(***************************************************************************)
(* UninstallVirtComponents: errors are logged, and the next step follows.  *)
(***************************************************************************)
RemoveManager ==
    /\ pc = "removeManager"
    /\ \/ manager' = "none" /\ GoTo("removeCDI") /\ UNCHANGED count
       \/ /\ Fault
          /\ manager' \in {manager, "none"}
          /\ GoTo("removeCDI") \/ GoTo("endless")
    /\ Around
    /\ UNCHANGED <<mapped, kinds, emulation, values>>

\* UninstallCDI ends at the first error of the API, or skips the operator.
RemoveCDI ==
    /\ pc = "removeCDI"
    /\ Finds({"CDI"})
    /\ \/ /\ \/ WithdrawOperator("CDI") /\ ns' = CloseNamespace("CDI") /\ UNCHANGED count
             \/ Fault /\ cr' \in {cr, MarkDeleted("CDI")} /\ UNCHANGED <<crd, operator, ns>>
          /\ GoTo("remove")
       \/ DeletesForEver("CDI")
    /\ Around
    /\ UNCHANGED <<manager, emulation, values>>

Remove ==
    /\ pc = "remove"
    /\ Finds({"KubeVirt"})
    /\ \/ cr' = MarkDeleted("KubeVirt") /\ UNCHANGED count
       \/ Fault /\ UNCHANGED cr
    /\ GoTo("gone")
    /\ Around
    /\ UNCHANGED <<crd, operator, ns, manager, emulation, values>>

\* A removal that does not wait.
AwaitNothing ==
    /\ pc = "gone"
    /\ GoTo("removeOperator")
    /\ Around
    /\ UNCHANGED <<mapped, cluster, values, count>>

\* Three minutes for the resource of KubeVirt to go; then on, whatever it does.
AwaitGone ==
    /\ pc = "gone"
    /\ \/ cr["KubeVirt"] # "deleting" /\ UNCHANGED count
       \/ ~operator["KubeVirt"] /\ UNCHANGED count
       \/ Fault
    /\ GoTo("removeOperator")
    /\ Around
    /\ UNCHANGED <<mapped, cluster, values>>

RemoveOperator ==
    /\ pc = "removeOperator"
    /\ \/ /\ WithdrawOperator("KubeVirt")
          /\ ns' = CloseNamespace("KubeVirt")
          /\ Again
          /\ UNCHANGED count
       \/ /\ Fault                            \* no version to be had: only the namespace
          /\ ns' = CloseNamespace("KubeVirt")
          /\ cr' = MarkDeleted("KubeVirt")
          /\ Again
          /\ UNCHANGED <<operator, crd>>
       \/ /\ FaultAgain
          /\ UNCHANGED <<operator, crd, cr, ns>>
       \/ DeletesForEver("KubeVirt")
    /\ Around
    /\ UNCHANGED <<mapped, manager, emulation, values>>

\* A pass that leaves a half-installed KubeVirt alone.
KeepNamespace ==
    /\ pc = "namespace"
    /\ Finish
    /\ Around
    /\ UNCHANGED <<mapped, cluster, values, count>>

\* What is not installed, or half: the namespace goes, with what is in it.  A failed
\* or late read of the namespace (IsNamespacePresent) says that there is none, and the
\* pass ends without another; a failed deletion asks for one.
DeleteNamespace ==
    /\ pc = "namespace"
    /\ \/ /\ ns["KubeVirt"] # "absent"
          /\ ns' = CloseNamespace("KubeVirt")
          /\ cr' = MarkDeleted("KubeVirt")
          /\ (Finish /\ UNCHANGED count) \/ FaultAgain
       \/ ns["KubeVirt"] = "absent" /\ Finish /\ UNCHANGED <<ns, cr, count>>
       \/ Fault /\ (Finish \/ Again) /\ UNCHANGED <<ns, cr>>
    /\ Around
    /\ UNCHANGED <<mapped, crd, operator, manager, emulation, values>>

InstallStep ==
    \/ ApplyOperator("KubeVirt", "operator", "resource")
    \/ ApplyResource("KubeVirt", "resource", "wait")
    \/ WaitReady("KubeVirt", "wait", "emulateNew")
    \/ EmulateNew \/ Clean \/ CleanOperator
    \/ ApplyOperator("CDI", "cdiOperator", "cdiCrd")
    \/ WaitCrd
    \/ ApplyResource("CDI", "cdiResource", "cdiWait")
    \/ WaitReady("CDI", "cdiWait", "manager")       \* with the patch of its limits
    \/ ApplyManager \/ WaitManager

UninstallStep == RemoveManager \/ RemoveCDI \/ Remove \/ AwaitGone \/ RemoveOperator

WorkerStep ==
    \/ StartReconcile \/ Check
    \/ InstallStep
    \/ Emulate \/ SaveValues
    \/ UninstallStep
    \/ DeleteNamespace

(***************************************************************************)
(* The rest of the cluster: the API server, the operators, the namespaces. *)
(***************************************************************************)
Serve(k) ==
    /\ crd[k] = "pending"
    /\ crd' = [crd EXCEPT ![k] = "served"]
    /\ UNCHANGED <<wishVars, pc, want, mapped, operator, cr, ns, manager, emulation,
                   values, count>>

GetsReady(k) ==
    /\ Busy(k) /\ cr[k] = "starting"
    /\ cr' = [cr EXCEPT ![k] = "ready"]
    /\ UNCHANGED <<wishVars, pc, want, mapped, crd, operator, ns, manager, emulation,
                   values, count>>

\* The deletion of a resource ends; without the operator it need not.
Gone(k) ==
    /\ cr[k] = "deleting"
    /\ cr' = [cr EXCEPT ![k] = "none"]
    /\ crd' = [crd EXCEPT ![k] = IF @ = "removing" THEN "absent" ELSE @]
    /\ UNCHANGED <<wishVars, pc, want, mapped, operator, ns, manager, emulation, values,
                   count>>

NamespaceStops(k) ==
    /\ ns[k] = "terminating" /\ operator[k]
    /\ operator' = [operator EXCEPT ![k] = FALSE]
    /\ UNCHANGED <<wishVars, pc, want, mapped, crd, cr, ns, manager, emulation, values,
                   count>>

\* The resource of KubeVirt is in the namespace, that of CDI is not.
NamespaceGone(k) ==
    /\ ns[k] = "terminating" /\ ~operator[k]
    /\ k = "KubeVirt" => cr[k] = "none"
    /\ ns' = [ns EXCEPT ![k] = "absent"]
    /\ UNCHANGED <<wishVars, pc, want, mapped, crd, operator, cr, manager, emulation,
                   values, count>>

ManagerReady ==
    /\ manager = "starting"
    /\ manager' = "ready"
    /\ UNCHANGED <<wishVars, pc, want, mapped, kinds, emulation, values, count>>

\* A component is not ready for a while.
Wobble ==
    /\ Fault
    /\ \/ /\ \E k \in Kind : cr[k] = "ready" /\ cr' = [cr EXCEPT ![k] = "starting"]
          /\ UNCHANGED manager
       \/ /\ manager = "ready" /\ manager' = "starting"
          /\ UNCHANGED cr
    /\ UNCHANGED <<wishVars, pc, want, mapped, crd, operator, ns, emulation, values>>

Crash ==
    /\ Counted("crash", MaxCrashes)
    /\ pc' = "idle" /\ want' = NoWish /\ mapped' = {}
    /\ WishListed
    /\ UNCHANGED <<cluster, values>>

Next ==
    \/ ConfigMapChanges \/ DeliverConfigMap \/ Resync
    \/ WorkerStep
    \/ \E k \in Kind :
          Serve(k) \/ GetsReady(k) \/ Gone(k) \/ NamespaceStops(k) \/ NamespaceGone(k)
    \/ ManagerReady \/ Wobble \/ Crash

(***************************************************************************)
(* The informer delivers, the worker goes on, the API server serves what   *)
(* is registered, a namespace is emptied, and an operator makes a resource *)
(* ready or lets it go.  That the resync comes is assumed only by the one  *)
(* property that needs it.                                                 *)
(***************************************************************************)
Fairness ==
    /\ WF_vars(DeliverConfigMap) /\ WF_vars(WorkerStep) /\ WF_vars(ManagerReady)
    /\ \A k \in Kind :
          /\ WF_vars(Serve(k)) /\ WF_vars(GetsReady(k))
          /\ WF_vars(operator[k] /\ Gone(k))
          /\ WF_vars(NamespaceStops(k)) /\ WF_vars(NamespaceGone(k))

Spec == Init /\ [][Next]_vars /\ Fairness

--------------------------------------------------------------------------------
Undisturbed == \A e \in {"fault", "crash"} : count[e] = 0

\* An operator is installed only for a version of the ConfigMap that the cache has
\* shown and that had the feature managed and enabled, in however old a pass.
InstallsOnlyWhatWasWished ==
    [][\A k \in Kind : ~operator[k] /\ operator'[k] =>
          \E i \in 1..seen : Wanted(wishes[i])]_<<operator, wishes, seen>>

\* Unless something fails, a set that is ready is taken apart only by a pass that read
\* the wish to remove it, although an installation deletes CDI before it installs it,
\* installs KubeVirt Manager anew, and is followed by another pass.
HealthyLeftAlone ==
    [][Undisturbed' /\ AllReady /\ ~Unwanted(want) => AllReady']_<<cluster, count>>

\* What keeps an installation from ever ending: nobody completes the deletion of a
\* resource whose operator is gone, the kind of KubeVirt is not to be found, or the
\* worker reads a broken download for ever.
Stuck   == \E k \in Kind : cr[k] = "deleting" /\ ~operator[k]
Unknown == ~Mappable("KubeVirt")
Hangs   == pc = "endless"

\* In the end all three components are ready if they are enabled, from whatever
\* point of an installation or a removal, unless it gets stuck.
EnabledGetsReady == <>[](Wanted(Newest) => AllReady \/ Stuck \/ Unknown \/ Hangs)

\* In the end KubeVirt emulates, or does not, as the ConfigMap says, although an
\* installation starts with another setting and an update resets it; and the
\* ConfigMap virt-values says the same.
SettingsFollow ==
    <>[](Wanted(Newest) /\ AllReady /\ ~Hangs =>
            /\ Newest.emulation = "true" => emulation = "on"
            /\ Newest.emulation = "false" => emulation # "on"
            /\ values = [enabled |-> TRUE, emulation |-> Newest.emulation])

\* In the end a KubeVirt that is disabled does not run, were it half installed.  The
\* resync is needed: a pass that skipped the deletion for a failed or late read asks
\* for no other, since the retry of virt_controller.go:689-692 can never be reached.
KubeVirtStops ==
    WF_vars(Resync) =>
        <>[](Unwanted(Newest) /\ ~Hangs => cr["KubeVirt"] \in {"none", "deleting"})

\* "UninstallVirtComponents removes KubeVirt and related components" (virt_
\* controller.go:846): in the end none of the three components is there if they
\* are disabled.
DisabledLeavesNothing ==
    <>[](Unwanted(Newest) /\ ~Hangs =>
            manager = "none" /\ \A k \in Kind : cr[k] \in {"none", "deleting"})

\* "If the error is because the CRD doesn't exist yet, that's not an error, it just
\* means CDI is not installed" (virt_controller.go:481): so it should be of KubeVirt,
\* and in the end the three components are ready if they are enabled.
FreshClusterGetsReady == <>[](Wanted(Newest) => AllReady \/ Stuck)

================================================================================
