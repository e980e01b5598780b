-------------------------------- MODULE Argocd --------------------------------
(***************************************************************************)
(* ArgocdReconciler: installs and uninstalls Argo CD as the ConfigMap      *)
(* k4all-config says.  It is the client of the job runner: each helm       *)
(* command is a call of CommandCall, so that a command whose caller gave   *)
(* up, or died, may still act on the release during a later pass.          *)
(*                                                                         *)
(* The release, the namespace argocd and the values ConfigMap              *)
(* argocd-values are what the commands and the worker act on.              *)
(***************************************************************************)
EXTENDS Naturals, Sequences, FeatureWish, CommandCall

CONSTANTS
    DefaultVersion,  \* of the chart, when Config pins none
    NoCall, NoWish, NoValues,
    MaxFaults,       \* bound: API errors, lost logs, failed helm operations
    MaxCrashes       \* bound: restarts of the operator

ASSUME ArgocdAssumption ==
    /\ NoWish \notin Config
    /\ NoCall \notin Call
    /\ DefaultVersion \in Text
    /\ {MaxFaults, MaxCrashes} \subseteq Nat

VARIABLES
    pc,          \* where the worker is in Reconcile
    want,        \* the Config that this pass read
    call,        \* the command that it waits for
    command,     \* what each call runs
    release,     \* helm's record of the release argocd
    namespace,   \* the namespace argocd
    values,      \* what the ConfigMap argocd-values says
    valuesLate,  \* the cache does not have the last write of it
    count        \* how many faults and restarts there were

work  == <<queued, pc, want, call>>
argo  == <<release, namespace>>
saved == <<values, valuesLate>>
input == <<wishes, seen>>
vars  == <<input, work, command, argo, saved, count, callVars>>

\* The last argument of a command that the model keeps: the version of the chart.
Command == [run : {"none", "status", "host", "install", "uninstall"}, version : Text]

\* helm's status of a release; an interrupted operation leaves it pending.
Release == [status : {"none", "pending", "failed", "deployed"}, version : Text]

NoRelease == [status |-> "none", version |-> ""]

Installed == [status |-> "deployed", version |-> DefaultVersion]

TypeOK ==
    /\ WishTypeOK
    /\ pc \in {"idle", "status", "host", "install", "uninstall", "namespace", "save"}
    /\ want \in Config \cup {NoWish}
    /\ call \in Call \cup {NoCall}
    /\ command \in [Call -> Command]
    /\ release \in Release
    /\ namespace \in {"absent", "live", "terminating"}
    /\ values \in [enabled : BOOLEAN, version : Text] \cup {NoValues}
    /\ valuesLate \in BOOLEAN
    /\ count \in [{"fault", "crash"} -> Nat]
    /\ CallTypeOK
    /\ \A c \in Call : stage[c] \in Awaited <=> call = c

\* The operator comes to a cluster without Argo CD, or with it.
Init ==
    /\ WishInit
    /\ pc = "idle" /\ want = NoWish /\ call = NoCall
    /\ command = [c \in Call |-> [run |-> "none", version |-> ""]]
    /\ \/ release = NoRelease /\ namespace = "absent"
       \/ release = Installed /\ namespace = "live"
    /\ values = NoValues /\ valuesLate = FALSE
    /\ count = [e \in {"fault", "crash"} |-> 0]
    /\ CallInit

Counted(what, max) ==
    /\ count[what] < max
    /\ count' = [count EXCEPT ![what] = @ + 1]

Fault == Counted("fault", MaxFaults)

(***************************************************************************)
(* The informers.                                                          *)
(***************************************************************************)
ConfigMapChanges ==
    /\ WishChanges
    /\ UNCHANGED <<pc, want, call, command, argo, saved, count, callVars>>

DeliverConfigMap ==
    /\ WishArrives
    /\ UNCHANGED <<pc, want, call, command, argo, saved, count, callVars>>

Resync ==
    /\ WishResync
    /\ UNCHANGED <<pc, want, call, command, argo, saved, count, callVars>>

DeliverValues ==
    /\ valuesLate
    /\ valuesLate' = FALSE
    /\ UNCHANGED <<input, work, command, argo, values, count, callVars>>

(***************************************************************************)
(* ArgocdReconciler.Reconcile, one pass.  RequeueAfter is ignored when an  *)
(* error is returned with it: the key is queued again at once.             *)
(***************************************************************************)
Finish ==
    /\ pc' = "idle" /\ want' = NoWish /\ call' = NoCall
    /\ UNCHANGED queued

Retry ==
    /\ pc' = "idle" /\ want' = NoWish /\ call' = NoCall
    /\ queued' = TRUE

GoTo(where) ==
    /\ pc' = where /\ call' = NoCall
    /\ UNCHANGED <<queued, want>>

VersionOf(w) == IF w.pinned[OwnFeature] = "" THEN DefaultVersion ELSE w.pinned[OwnFeature]

\* A pass that does not look at the flag "managed".
StartReconcileUnmanaged ==
    /\ pc = "idle" /\ queued
    /\ IF seen > 0 /\ wishes[seen] \in Config
       THEN pc' = "status" /\ want' = wishes[seen] /\ queued' = FALSE
       ELSE pc' = pc /\ want' = want /\ queued' = (seen > 0 /\ wishes[seen] = Garbage)
    /\ UNCHANGED <<input, call, command, argo, saved, count, callVars>>

\* Read the ConfigMap, parse it, and go on only with a feature that is managed.
StartReconcile ==
    /\ pc = "idle"
    /\ \/ /\ HasWork
          /\ pc' = "status" /\ want' = wishes[seen] /\ queued' = FALSE
          /\ UNCHANGED count
       \/ /\ NoWork
          /\ Dismiss
          /\ UNCHANGED <<pc, want, count>>
       \/ /\ queued /\ Fault                  \* in a Get, or in GetValues
          /\ UNCHANGED <<queued, pc, want>>
    /\ UNCHANGED <<input, call, command, argo, saved, callVars>>

CommandStep == {"status", "host", "install", "uninstall"}

Free == {c \in Call : stage[c] \notin Awaited /\ ~running[c]}

\* A pass that does not wait for the command it has started.
MakeCallAtOnce ==
    /\ pc \in CommandStep
    /\ \E c \in Free :
          /\ call' = c
          /\ command' = [command EXCEPT ![c] = [run |-> pc, version |-> VersionOf(want)]]
          /\ Make(c)
    /\ UNCHANGED <<input, queued, pc, want, argo, saved, count>>

\* HelmCommand, RunHostCommand: which of the free names is taken does not matter.
MakeCall ==
    /\ pc \in CommandStep /\ call = NoCall
    /\ Free # {}
    /\ LET c == CHOOSE free \in Free : TRUE
       IN  /\ call' = c
           /\ command' = [command EXCEPT ![c] = [run |-> pc, version |-> VersionOf(want)]]
           /\ Make(c)
    /\ UNCHANGED <<input, queued, pc, want, argo, saved, count>>

\* Passes that always install, that never uninstall, that leave the namespace, and
\* that never install.
AfterOkUpgrading ==
    IF pc = "status" /\ Enabled(want) THEN GoTo("install")
    ELSE IF pc = "status" THEN GoTo("uninstall")
    ELSE GoTo(IF pc = "host" THEN "install" ELSE IF pc = "install" THEN "save" ELSE "namespace")

AfterOkKeeping ==
    IF pc = "status" THEN GoTo(IF Enabled(want) THEN "save" ELSE "namespace")
    ELSE GoTo(IF pc = "host" THEN "install" ELSE "save")

AfterOkLeaving ==
    CASE pc = "status"    -> GoTo(IF Enabled(want) THEN "save" ELSE "uninstall")
      [] pc = "host"      -> GoTo("install")
      [] OTHER            -> GoTo("save")

AfterErrorSaving == IF pc = "status" THEN GoTo("save") ELSE Retry

\* The next step of a pass when its command returned without an error, or with one.
AfterOk ==
    CASE pc = "status"    -> GoTo(IF Enabled(want) THEN "save" ELSE "uninstall")
      [] pc = "host"      -> GoTo("install")
      [] pc = "install"   -> GoTo("save")
      [] pc = "uninstall" -> GoTo("namespace")

AfterError ==
    IF pc = "status" THEN GoTo(IF Enabled(want) THEN "host" ELSE "save") ELSE Retry

\* helm reports failure on stderr, and only there: when the log of the pod is lost
\* the call returns without an error.  Of a host command stderr is ignored.
CallOk ==
    /\ call # NoCall
    /\ ReturnOk(call)
    /\ IF good[call] \/ pc = "host" THEN UNCHANGED count ELSE Fault
    /\ AfterOk
    /\ UNCHANGED <<input, command, argo, saved>>

CallError ==
    /\ call # NoCall
    /\ ReturnError(call)
    /\ IF running[call] \/ acted[call] = 0 \/ good[call] \/ pc = "host" \/ running'[call]
       THEN Fault
       ELSE UNCHANGED count
    /\ AfterError
    /\ UNCHANGED <<input, command, argo, saved>>

DeleteNamespace ==
    /\ pc = "namespace"
    /\ \/ /\ namespace # "absent"
          /\ namespace' = "terminating"
          /\ GoTo("save")
          /\ UNCHANGED count
       \/ /\ namespace = "absent"          \* not found is an error, too
          /\ Retry
          /\ UNCHANGED <<namespace, count>>
       \/ /\ Fault                          \* in the call, or its reply is lost
          /\ Retry
          /\ \/ UNCHANGED namespace
             \/ namespace # "absent" /\ namespace' = "terminating"
    /\ UNCHANGED <<input, command, release, saved, callVars>>

\* A pass that creates argocd-values and does not update it.
SaveValuesOnce ==
    /\ pc = "save"
    /\ values' = IF values = NoValues
                 THEN [enabled |-> Enabled(want), version |-> VersionOf(want)] ELSE values
    /\ valuesLate' = (values' # values)
    /\ Finish
    /\ UNCHANGED <<input, command, argo, count, callVars>>

\* SaveValues: create or update.  What the cache does not show yet is a conflict.
SaveValues ==
    /\ pc = "save"
    /\ \/ /\ ~valuesLate
          /\ values' = [enabled |-> Enabled(want), version |-> VersionOf(want)]
          /\ valuesLate' = (values' # values)
          /\ \/ Finish /\ UNCHANGED count
             \/ Fault /\ Retry                \* the reply is lost
       \/ /\ valuesLate
          /\ Retry
          /\ UNCHANGED <<saved, count>>
       \/ /\ Fault
          /\ Retry
          /\ UNCHANGED saved
    /\ UNCHANGED <<input, command, argo, callVars>>

(***************************************************************************)
(* The commands of all calls, awaited or not, and what they do.            *)
(***************************************************************************)
Set(r, ns) == release' = r /\ namespace' = ns

\* The effect of a command that succeeds, if it can.
Succeeds(c) ==
    LET done == [status |-> "deployed", version |-> command[c].version]
    IN  CASE command[c].run = "status" -> release.status # "none" /\ UNCHANGED argo
          [] command[c].run = "host" -> UNCHANGED argo
          [] command[c].run = "install" ->
                 /\ namespace # "terminating" /\ release.status # "pending"
                 /\ Set(done, "live")
          [] command[c].run = "uninstall" ->
                 release.status # "none" /\ Set(NoRelease, namespace)

\* It is refused, and changes nothing.
Refused(c) ==
    /\ \/ command[c].run \in {"status", "uninstall"} /\ release.status = "none"
       \/ /\ command[c].run = "install"
          /\ (namespace = "terminating" \/ release.status = "pending")
    /\ UNCHANGED argo

\* It is cut off, or gives up waiting for the pods of Argo CD.
Breaks(c) ==
    /\ Fault
    /\ \/ /\ command[c].run \in {"status", "host", "uninstall"}
          /\ UNCHANGED argo
       \/ /\ command[c].run = "install"
          /\ namespace # "terminating" /\ release.status # "pending"
          /\ \E s \in {"pending", "failed"} :
                Set([status |-> s, version |-> command[c].version], "live")

\* Only a pod that was killed is followed by another one.
CommandActs(c) ==
    /\ Act(c)
    /\ acted[c] = 0
    /\ \/ Succeeds(c) /\ good'[c] /\ UNCHANGED count
       \/ Refused(c) /\ ~good'[c] /\ UNCHANGED count
       \/ Breaks(c) /\ ~good'[c]
    /\ UNCHANGED <<input, work, command, saved>>

CommandActsAgain(c) ==
    /\ Act(c)
    /\ acted[c] > 0
    /\ Fault
    /\ (Succeeds(c) /\ good'[c]) \/ (Refused(c) /\ ~good'[c])
    /\ UNCHANGED <<input, work, command, saved>>

JobStarts(c) ==
    /\ Begin(c)
    /\ UNCHANGED <<input, work, command, argo, saved, count>>

JobEnds(c) ==
    /\ Stop(c)
    /\ acted[c] > 0 \/ stage[c] # "waiting"
    /\ UNCHANGED <<input, work, command, argo, saved, count>>

\* The namespace is gone, and the records of helm in it.
NamespaceGone ==
    /\ namespace = "terminating"
    /\ Set(NoRelease, "absent")
    /\ UNCHANGED <<input, work, command, saved, count, callVars>>

Crash ==
    /\ Counted("crash", MaxCrashes)
    /\ pc' = "idle" /\ want' = NoWish /\ call' = NoCall
    /\ IF call = NoCall THEN UNCHANGED callVars ELSE Abandon(call)
    /\ WishListed
    /\ valuesLate' = FALSE
    /\ UNCHANGED <<command, argo, values>>

WorkerStep ==
    StartReconcile \/ MakeCall \/ CallOk \/ CallError \/ DeleteNamespace \/ SaveValues

JobStep(c) == JobStarts(c) \/ CommandActs(c) \/ JobEnds(c)

Next ==
    \/ ConfigMapChanges \/ DeliverConfigMap \/ Resync \/ DeliverValues
    \/ WorkerStep \/ NamespaceGone \/ Crash
    \/ \E c \in Call : JobStep(c) \/ CommandActsAgain(c)

(***************************************************************************)
(* The informers deliver, and resync for ever; the worker goes on; jobs    *)
(* run and end; a namespace that is being deleted goes away.               *)
(***************************************************************************)
Fairness ==
    /\ WF_vars(DeliverConfigMap) /\ WF_vars(Resync) /\ WF_vars(DeliverValues)
    /\ WF_vars(WorkerStep) /\ WF_vars(NamespaceGone)
    /\ \A c \in Call : WF_vars(JobStep(c))

Spec == Init /\ [][Next]_vars /\ Fairness

--------------------------------------------------------------------------------
Undisturbed == \A e \in {"fault", "crash"} : count[e] = 0

\* What gets installed, or gets another version, was asked for: some version of the
\* ConfigMap that the cache has shown had the feature managed, enabled and with this
\* version, whichever late command of a pass that nobody waits for acts.
Wished(version) ==
    \E i \in 1..seen : Wanted(wishes[i]) /\ VersionOf(wishes[i]) = version

ReleaseWasWished ==
    [][release'.status # "none" /\ (release.status = "none" \/ release'.version # release.version)
         => Wished(release'.version)]_<<release, wishes, seen>>

\* The namespace is deleted only after the release: without a fault or a restart
\* no other order of the commands' effects and of the worker's steps is possible.
NamespaceOutlivesRelease ==
    Undisturbed /\ namespace = "terminating" => release = NoRelease

\* A release is never changed under a running Argo CD unless something failed:
\* a pass installs only after helm said that there is no release, and no other
\* command is at work in between.  (So a new version in the ConfigMap is not
\* installed either.)
NoUpgradeInPlace ==
    [][Undisturbed' /\ release.status = "deployed" /\ release'.status # "none"
         => release' = release]_<<release, count>>

\* In the end the release is there if and only if the ConfigMap enables it, after
\* faults, lost answers, restarts and late commands: the resync repairs them.
ReleaseFollowsWish ==
    <>[](Managed(Newest) => (Enabled(Newest) <=> release.status # "none"))

\* In the end argocd-values says what the ConfigMap says.
ValuesFollowWish ==
    <>[](Managed(Newest) =>
            values = [enabled |-> Enabled(Newest), version |-> VersionOf(Newest)])

\* What the code takes the answer of "helm status" for (argocd_controller.go:237,
\* "Check if ArgoCD is installed"): in the end Argo CD is deployed if it is enabled.
EnabledIsDeployed ==
    <>[](Wanted(Newest) => release.status = "deployed")

\* Unless something fails, the namespace is gone in the end, too, if Argo CD is
\* disabled, whether the wish turned before, during or after an installation.  (After
\* a fault it may stay: only the pass whose own uninstall succeeded deletes it.)
NamespaceGoes ==
    <>[](Undisturbed /\ Unwanted(Newest) => namespace # "live")

================================================================================
