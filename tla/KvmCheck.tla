-------------------------------- MODULE KvmCheck --------------------------------
(***************************************************************************)
(* CheckEmulationNeeded in the setting "auto": whether any node has KVM.   *)
(*                                                                         *)
(* A DaemonSet puts a pod on every node, which labels its node with what   *)
(* it finds.  The worker waits for the pods, then for the labels, deletes  *)
(* the DaemonSet, decides by the labels that it sees, and sets the         *)
(* emulation of KubeVirt.  It reads nodes and DaemonSet from caches.       *)
(*                                                                         *)
(* Meanwhile nodes join, stop, and start with another hardware or other    *)
(* settings; the labels that earlier checks left on them stay.             *)
(*                                                                         *)
(* The container of a pod labels, sleeps for a minute, exits and is        *)
(* restarted, after longer and longer pauses in which the pod is not       *)
(* ready.  Here a pod stays ready between its runs: that the pauses of     *)
(* the nodes leave no moment of two minutes with every pod ready is one of *)
(* the faults, of which there are finitely many.                           *)
(***************************************************************************)
EXTENDS Naturals, Sequences, SequencesExt

CONSTANTS
    Node,
    MaxFaults,       \* bound: failed calls, lost replies, waits that expire
    MaxStops,        \* bound: nodes that stop
    MaxCrashes,      \* bound: restarts of the operator
    MaxEvents        \* bound: faults, stops and restarts together

ASSUME KvmAssumption == {MaxFaults, MaxStops, MaxCrashes, MaxEvents} \subseteq Nat

VARIABLES
    capable,     \* the nodes with /dev/kvm
    down,        \* the nodes that are stopped
    nodes,       \* API server: the versions of the list of nodes, with their labels
    seen,        \* the position of the node cache in it
    ds,          \* the DaemonSet kvm-capability-check, with what its status says
    dsSeen,      \* the cached copy of it
    pod,         \* what the pod of the DaemonSet on each node does
    stray,       \* nodes with a pod of a deleted DaemonSet that has not labelled yet
    pc,          \* where the worker is
    asked,       \* history: the nodes in the cache when the check began
    answer,      \* of CheckEmulationNeeded, until it is put to use
    emulates,    \* useEmulation in the resource of KubeVirt
    count

daemonSet == <<ds, dsSeen>>
pods      == <<pod, stray>>
hardware  == <<capable, down>>
worker    == <<pc, asked, answer, emulates>>
vars      == <<hardware, nodes, seen, daemonSet, pods, worker, count>>

\* The label feature.node.kubernetes.io/kvm of a node; "gone" is no node (yet).
Label == {"gone", "none", "true", "false"}

Present(list) == {n \in Node : list[n] # "gone"}
Now    == Last(nodes)
Joined == Present(Now)
Cached == nodes[seen]

TypeOK ==
    /\ capable \subseteq Node
    /\ down \subseteq Joined
    /\ nodes \in Seq([Node -> Label]) /\ seen \in 1..Len(nodes)
    /\ ds \in {"absent", "rolling", "ready"} /\ dsSeen \in {"absent", "rolling", "ready"}
    /\ pod \in [Node -> {"none", "running", "done"}]
    /\ \A n \in Node : pod[n] # "none" => ds # "absent" /\ n \in Joined \ down
    /\ stray \subseteq Joined \ down
    /\ pc \in {"idle", "deploy", "rollout", "labels", "delete", "expired", "decide",
              "set"}
    /\ asked \subseteq Joined
    /\ answer \in {"none", "native", "emulate"}
    /\ pc = "set" <=> answer # "none"
    /\ pc = "idle" => asked = {}
    /\ emulates \in BOOLEAN
    /\ count \in [{"fault", "stop", "crash"} -> Nat]

\* What the script on a node finds.
Found(n) == IF n \in capable THEN "true" ELSE "false"

\* Some nodes are there, without labels.
Init ==
    /\ capable \in SUBSET Node
    /\ down = {}
    /\ \E there \in SUBSET Node \ {{}} :
          nodes = << [n \in Node |-> IF n \in there THEN "none" ELSE "gone"] >>
    /\ seen = 1
    /\ ds = "absent" /\ dsSeen = "absent"
    /\ pod = [n \in Node |-> "none"] /\ stray = {}
    /\ pc = "idle" /\ asked = {} /\ answer = "none" /\ emulates = FALSE
    /\ count = [e \in {"fault", "stop", "crash"} |-> 0]

Counted(what, max) ==
    /\ count[what] < max
    /\ count["fault"] + count["stop"] + count["crash"] < MaxEvents
    /\ count' = [count EXCEPT ![what] = @ + 1]

Fault == Counted("fault", MaxFaults)

(***************************************************************************)
(* The worker.  An error ends the pass, whose caller takes no notice of    *)
(* the "default to true" that comes with it; the pass is repeated.         *)
(***************************************************************************)
GoTo(where) == pc' = where /\ UNCHANGED <<asked, answer, emulates>>

Return == pc' = "idle" /\ asked' = {} /\ answer' = "none"

Again == Return /\ UNCHANGED emulates

FaultAgain == Fault /\ Again

Write(status) == ds' = status /\ UNCHANGED dsSeen

Ask ==
    /\ pc = "idle"
    /\ pc' = "deploy" /\ asked' = Present(Cached)
    /\ UNCHANGED <<hardware, nodes, seen, daemonSet, pods, answer, emulates, count>>

\* A check that can only create the DaemonSet.
DeployNew ==
    /\ pc = "deploy"
    /\ \/ /\ dsSeen = "absent" /\ ds = "absent"
          /\ Write("rolling")
          /\ GoTo("rollout") /\ UNCHANGED count
       \/ /\ dsSeen # "absent" \/ ds # "absent"
          /\ Again
          /\ UNCHANGED <<daemonSet, count>>
    /\ UNCHANGED <<hardware, nodes, seen, pods>>

\* Create, or update to the same specification, as the cache says: a copy that is
\* too old is refused (already exists, not found, conflict).  One that was changed
\* and changed back counts as new here; that it is refused, too, is a fault.
Deploy ==
    /\ pc = "deploy"
    /\ \/ /\ dsSeen = "absent" /\ ds = "absent"
          /\ Write("rolling")
          /\ (GoTo("rollout") /\ UNCHANGED count) \/ FaultAgain
       \/ /\ dsSeen # "absent" /\ dsSeen = ds
          /\ GoTo("rollout")
          /\ UNCHANGED <<daemonSet, count>>
       \/ /\ dsSeen # ds
          /\ Again
          /\ UNCHANGED <<daemonSet, count>>
       \/ /\ FaultAgain
          /\ UNCHANGED daemonSet
    /\ UNCHANGED <<hardware, nodes, seen, pods>>

\* Two minutes for all pods to be ready, then five seconds for their labels.  The two
\* minutes expire if a node is down, or by a fault (a slow start, or containers that
\* pause after they exited); the DaemonSet then stays.
AwaitRollout ==
    /\ pc = "rollout"
    /\ \/ /\ dsSeen = "ready"
          /\ IF \E n \in Node : pod[n] = "running" THEN Fault ELSE UNCHANGED count
          /\ GoTo("labels")
       \/ /\ dsSeen # "ready" /\ down # {}
          /\ Again
          /\ UNCHANGED count
       \/ FaultAgain
    /\ UNCHANGED <<hardware, nodes, seen, daemonSet, pods>>

\* A check that trusts the five seconds.
AwaitNoLabels ==
    /\ pc = "labels"
    /\ GoTo("delete")
    /\ UNCHANGED <<hardware, nodes, seen, daemonSet, pods, count>>

Unlabelled == {n \in Node : Cached[n] = "none"}

\* One minute for a label, old or new, on every node.  That it expires, or that the
\* nodes cannot be listed, is not an error.
AwaitLabels ==
    /\ pc = "labels"
    /\ \/ Unlabelled = {} /\ GoTo("delete") /\ UNCHANGED count
       \/ Unlabelled \cap down # {} /\ GoTo("expired") /\ UNCHANGED count
       \/ Fault /\ GoTo("expired")
    /\ UNCHANGED <<hardware, nodes, seen, daemonSet, pods>>

\* A deletion that leaves the pods to themselves.
DeleteDaemonSetOrphaning ==
    /\ pc \in {"delete", "expired"}
    /\ GoTo("decide")
    /\ Write("absent")
    /\ UNCHANGED <<hardware, nodes, seen, pods, count>>

\* The pods end some time after the DaemonSet; only one that would change a label
\* is followed further (stray).  A failed deletion ends the pass only if the wait
\* for the labels expired.
DeleteDaemonSet ==
    /\ pc \in {"delete", "expired"}
    /\ \/ /\ GoTo("decide") \/ (pc = "expired" /\ Again /\ Fault)   \* the reply is lost
          /\ Write("absent")
          /\ pod' = [n \in Node |-> "none"]
          /\ stray' = stray \cup {n \in Node : pod[n] = "running" /\ Now[n] # Found(n)}
          /\ UNCHANGED count \/ Fault
       \/ /\ Fault
          /\ GoTo("decide") \/ (pc = "expired" /\ Again)
          /\ UNCHANGED <<daemonSet, pods>>
    /\ UNCHANGED <<hardware, nodes, seen>>

\* Any label at all, and only the label "true".
AnswerByPresence ==
    IF \E n \in Node : Cached[n] \in {"true", "false"} THEN "native" ELSE "emulate"

Answer == IF \E n \in Node : Cached[n] = "true" THEN "native" ELSE "emulate"

CheckEmulationNeeded ==
    /\ pc = "decide"
    /\ \/ /\ pc' = "set" /\ answer' = Answer
          /\ UNCHANGED <<asked, emulates, count>>
       \/ FaultAgain
    /\ UNCHANGED <<hardware, nodes, seen, daemonSet, pods>>

UpdateEmulationSetting ==
    /\ pc = "set"
    /\ \/ /\ emulates' = (answer = "emulate")
          /\ Return
          /\ UNCHANGED count \/ Fault
       \/ FaultAgain
    /\ UNCHANGED <<hardware, nodes, seen, daemonSet, pods>>

(***************************************************************************)
(* The pods, and the controller of the DaemonSet.                          *)
(***************************************************************************)
StartPod(n) ==
    /\ ds # "absent" /\ n \in Joined \ down
    /\ pod[n] = "none"
    /\ pod' = [pod EXCEPT ![n] = "running"]
    /\ UNCHANGED <<hardware, nodes, seen, daemonSet, stray, worker, count>>

Labelled(n, label) ==
    nodes' = IF Now[n] = label THEN nodes ELSE Append(nodes, [Now EXCEPT ![n] = label])

\* A command without --overwrite.
LabelNodeOnce(n) ==
    /\ pod[n] = "running" \/ n \in stray
    /\ \/ Labelled(n, IF Now[n] = "none" THEN Found(n) ELSE Now[n]) /\ UNCHANGED count
       \/ Fault /\ UNCHANGED nodes
    /\ pod' = [pod EXCEPT ![n] = IF @ = "running" THEN "done" ELSE @]
    /\ stray' = stray \ {n}
    /\ UNCHANGED <<hardware, seen, daemonSet, worker>>

\* kubectl label --overwrite.  If it fails the container sleeps all the same.
LabelNode(n) ==
    /\ pod[n] = "running" \/ n \in stray
    /\ \/ Labelled(n, Found(n)) /\ UNCHANGED count
       \/ Fault /\ UNCHANGED nodes
    /\ pod' = [pod EXCEPT ![n] = IF @ = "running" THEN "done" ELSE @]
    /\ stray' = stray \ {n}
    /\ UNCHANGED <<hardware, seen, daemonSet, worker>>

\* The container has slept and exited, and is restarted, sooner or later.  With the
\* right label it changes nothing.
RunAgain(n) ==
    /\ pod[n] = "done" /\ Now[n] # Found(n)
    /\ pod' = [pod EXCEPT ![n] = "running"]
    /\ UNCHANGED <<hardware, nodes, seen, daemonSet, stray, worker, count>>

\* The grace period of a pod without a DaemonSet ends.
StrayEnds(n) ==
    /\ n \in stray
    /\ stray' = stray \ {n}
    /\ UNCHANGED <<hardware, nodes, seen, daemonSet, pod, worker, count>>

Status == IF \A n \in Joined : pod[n] # "none" THEN "ready" ELSE "rolling"

ReportStatus ==
    /\ ds # "absent" /\ ds # Status
    /\ Write(Status)
    /\ UNCHANGED <<hardware, nodes, seen, pods, worker, count>>

(***************************************************************************)
(* Informers, nodes, and the restart of the operator.                      *)
(***************************************************************************)
DeliverNodes ==
    /\ seen < Len(nodes)
    /\ seen' = seen + 1
    /\ UNCHANGED <<hardware, nodes, daemonSet, pods, worker, count>>

DeliverDaemonSet ==
    /\ dsSeen # ds
    /\ dsSeen' = ds
    /\ UNCHANGED <<hardware, nodes, seen, ds, pods, worker, count>>

Join(n) ==
    /\ n \notin Joined
    /\ nodes' = Append(nodes, [Now EXCEPT ![n] = "none"])
    /\ UNCHANGED <<hardware, seen, daemonSet, pods, worker, count>>

\* The node of the operator goes on, or the operator moves, which is a restart.
NodeStops(n) ==
    /\ Counted("stop", MaxStops)
    /\ n \in Joined \ down /\ Joined \ down # {n}
    /\ down' = down \cup {n}
    /\ pod' = [pod EXCEPT ![n] = "none"] /\ stray' = stray \ {n}
    /\ UNCHANGED <<capable, nodes, seen, daemonSet, worker>>

NodeStarts(n) ==
    /\ n \in down
    /\ down' = down \ {n}
    /\ capable' \in {capable \cup {n}, capable \ {n}}
    /\ UNCHANGED <<nodes, seen, daemonSet, pods, worker, count>>

Crash ==
    /\ Counted("crash", MaxCrashes)
    /\ Again
    /\ seen' = Len(nodes)
    /\ dsSeen' = ds
    /\ UNCHANGED <<hardware, nodes, ds, pods>>

runKVMCheckAndLabelNodes == Deploy \/ AwaitRollout \/ AwaitLabels \/ DeleteDaemonSet

WorkerStep ==
    Ask \/ runKVMCheckAndLabelNodes \/ CheckEmulationNeeded \/ UpdateEmulationSetting

Next ==
    \/ WorkerStep
    \/ \E n \in Node :
          \/ StartPod(n) \/ LabelNode(n) \/ RunAgain(n) \/ StrayEnds(n)
          \/ Join(n) \/ NodeStops(n) \/ NodeStarts(n)
    \/ ReportStatus \/ DeliverNodes \/ DeliverDaemonSet \/ Crash

(***************************************************************************)
(* The worker goes on, and asks again after an error and at every resync   *)
(* of the ConfigMap; pods run; the controller reports; informers deliver.  *)
(***************************************************************************)
Fairness ==
    /\ WF_vars(WorkerStep) /\ WF_vars(ReportStatus)
    /\ WF_vars(DeliverNodes) /\ WF_vars(DeliverDaemonSet)
    /\ \A n \in Node : WF_vars(StartPod(n)) /\ WF_vars(LabelNode(n)) /\ WF_vars(RunAgain(n))

Spec == Init /\ [][Next]_vars /\ Fairness

--------------------------------------------------------------------------------
\* Unless a node was stopped, and may have lost its device, guests are run on KVM
\* only if some node has it, whatever failed, expired or arrived late.
NativeOnlyWithKvm ==
    answer = "native" /\ count["stop"] = 0 => Joined \cap capable # {}

\* A check that nothing disturbs reaches every node: the answer is emulation only
\* if none of the nodes that were known when the check began has KVM.
EmulationOnlyWithout ==
    answer = "emulate" /\ count["fault"] = 0 /\ count["stop"] = 0
        => asked \cap capable = {}

\* In the end KubeVirt emulates if and only if no node has KVM, after nodes that
\* joined during a check or came back with a label that is wrong, unless a node
\* stays down: then every check fails.
EmulationFits == <>[](down = {} => (emulates <=> Joined \cap capable = {}))

\* A DaemonSet that a failed check has left behind, with its privileged pods, is
\* deleted by a later check, unless a node stays down.
DaemonSetGoes == []<>(ds = "absent" \/ down # {})

================================================================================
