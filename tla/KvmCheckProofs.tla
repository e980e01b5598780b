----------------------------- MODULE KvmCheckProofs -----------------------------
(***************************************************************************)
(* What the answer of CheckEmulationNeeded says about the nodes, for any   *)
(* number of nodes, joins, faults, stops and restarts.                     *)
(***************************************************************************)
EXTENDS KvmCheck, TLAPS

(***************************************************************************)
(* The inductive invariant.                                                *)
(***************************************************************************)
Versions == 1..Len(nodes)

Known == {"true", "false"}

\* From one list of nodes to a later one no node goes, and no label.
Keeps(list, later) ==
    \A n \in Node :
        /\ list[n] # "gone" => later[n] # "gone"
        /\ list[n] \in Known => later[n] \in Known

ListsOK == \A i, j \in Versions : i <= j => Keeps(nodes[i], nodes[j])

\* Every label says what is true of its node.
Honest(list) ==
    \A n \in Node :
        /\ list[n] = "true" => n \in capable
        /\ list[n] = "false" => n \notin capable

\* Before the first stop no node is down, and no label of any version is wrong.
LabelsOK ==
    count["stop"] = 0 => down = {} /\ \A i \in Versions : Honest(nodes[i])

\* The cache has the nodes that the check is about, and once a check that nothing
\* disturbs has stopped waiting, their labels.
WorkerOK ==
    /\ asked \subseteq Present(Cached)
    /\ count["fault"] = 0 /\ count["stop"] = 0 =>
          /\ pc # "expired"
          /\ pc \in {"delete", "decide"} => \A n \in asked : Cached[n] \in Known

IInv == TypeOK /\ ListsOK /\ LabelsOK /\ WorkerOK /\ NativeOnlyWithKvm /\ EmulationOnlyWithout

(***************************************************************************)
(* Lists, events and the steps of the worker.                              *)
(***************************************************************************)

\* The newest and the cached list are lists of nodes.
LEMMA ListFacts ==
    ASSUME TypeOK
    PROVE  /\ Len(nodes) \in Nat /\ Len(nodes) \in Versions /\ seen \in Versions
           /\ Now = nodes[Len(nodes)]
           /\ Now \in [Node -> Label] /\ Cached \in [Node -> Label]
           /\ \A i \in Versions : nodes[i] \in [Node -> Label]
BY DEF TypeOK, Versions, Now, Last, Cached

\* What is found on a node is a label.
LEMMA FoundKnown == \A n \in Node : Found(n) \in Known /\ Found(n) \in Label
BY DEF Found, Known, Label

\* Events are only added.
LEMMA Counting ==
    ASSUME TypeOK, NEW what \in {"fault", "stop", "crash"}, NEW max, Counted(what, max)
    PROVE  /\ count' \in [{"fault", "stop", "crash"} -> Nat]
           /\ count'[what] = count[what] + 1
           /\ \A e \in {"fault", "stop", "crash"} \ {what} : count'[e] = count[e]
BY DEF TypeOK, Counted

\* A fault is counted, and is no stop of a node.
LEMMA Faults ==
    ASSUME TypeOK, Fault
    PROVE  /\ count' \in [{"fault", "stop", "crash"} -> Nat]
           /\ count'["fault"] # 0
           /\ count'["stop"] = count["stop"]
<1>1. /\ count' \in [{"fault", "stop", "crash"} -> Nat]
      /\ count'["fault"] = count["fault"] + 1
      /\ \A e \in {"fault", "stop", "crash"} \ {"fault"} : count'[e] = count[e]
  BY Counting DEF Fault
<1>2. count["fault"] \in Nat
  BY DEF TypeOK
<1> QED
  BY <1>1, <1>2

\* A list of nodes grows by one version, in which a node has another label.
Grows(n, label) == nodes' = Append(nodes, [Now EXCEPT ![n] = label])

\* Where the list of nodes changes.
LEMMA ListWrites ==
    ASSUME IInv, Next
    PROVE  \/ UNCHANGED nodes
           \/ \E n \in Joined \ down : Grows(n, Found(n)) /\ UNCHANGED <<hardware, seen, worker>>
           \/ \E n \in Node \ Joined : Grows(n, "none") /\ UNCHANGED <<hardware, seen, worker>>
<1>1. CASE \E n \in Node : LabelNode(n)
  <2>1. PICK n \in Node : LabelNode(n)
    BY <1>1
  <2>2. n \in Joined \ down
    BY <2>1 DEF LabelNode, IInv, TypeOK
  <2> QED
    BY <2>1, <2>2 DEF LabelNode, Labelled, Grows
<1>2. CASE \E n \in Node : Join(n)
  BY <1>2 DEF Join, Grows
<1>3. CASE WorkerStep
  BY <1>3 DEF WorkerStep, runKVMCheckAndLabelNodes, Ask, Deploy, AwaitRollout, AwaitLabels,
              DeleteDaemonSet, CheckEmulationNeeded, UpdateEmulationSetting
<1>4. CASE \E n \in Node : \/ StartPod(n) \/ RunAgain(n) \/ StrayEnds(n)
                           \/ NodeStops(n) \/ NodeStarts(n)
  BY <1>4 DEF StartPod, RunAgain, StrayEnds, NodeStops, NodeStarts
<1>5. CASE ReportStatus \/ DeliverNodes \/ DeliverDaemonSet \/ Crash
  BY <1>5 DEF ReportStatus, DeliverNodes, DeliverDaemonSet, Crash
<1> QED
  BY <1>1, <1>2, <1>3, <1>4, <1>5 DEF Next

\* What a version more makes of the list of versions.
LEMMA Growing ==
    ASSUME IInv, NEW n \in Node, NEW label \in Label, Grows(n, label),
           label # "gone",
           label \in Known \/ n \notin Joined
    PROVE  /\ nodes' \in Seq([Node -> Label])
           /\ Len(nodes') = Len(nodes) + 1
           /\ \A i \in Versions : nodes'[i] = nodes[i]
           /\ nodes'[Len(nodes')] = [Now EXCEPT ![n] = label]
           /\ Keeps(Now, [Now EXCEPT ![n] = label])
           /\ Joined' = Joined \cup {n}
<1>1. /\ nodes \in Seq([Node -> Label]) /\ Now \in [Node -> Label]
      /\ [Now EXCEPT ![n] = label] \in [Node -> Label]
  BY ListFacts DEF IInv, TypeOK
<1>2. /\ nodes' \in Seq([Node -> Label])
      /\ Len(nodes') = Len(nodes) + 1
      /\ \A i \in 1..Len(nodes) : nodes'[i] = nodes[i]
      /\ nodes'[Len(nodes')] = [Now EXCEPT ![n] = label]
  BY <1>1 DEF Grows
<1>3. Now' = [Now EXCEPT ![n] = label]
  BY <1>2 DEF Now, Last
<1>4. Joined' = Joined \cup {n}
  BY <1>1, <1>3 DEF Joined, Present
<1>5. Keeps(Now, [Now EXCEPT ![n] = label])
  <2>1. SUFFICES ASSUME NEW m \in Node
                 PROVE  /\ Now[m] # "gone" => [Now EXCEPT ![n] = label][m] # "gone"
                        /\ Now[m] \in Known => [Now EXCEPT ![n] = label][m] \in Known
    BY DEF Keeps
  <2>2. n \notin Joined => Now[n] \notin Known
    BY DEF Joined, Present, Known
  <2> QED
    BY <1>1, <2>2
<1> QED
  BY <1>2, <1>4, <1>5 DEF Versions

\* What every step leaves of the list of nodes.
LEMMA ListStep ==
    ASSUME IInv, Next
    PROVE  /\ nodes' \in Seq([Node -> Label])
           /\ Len(nodes) <= Len(nodes')
           /\ \A i \in Versions : nodes'[i] = nodes[i]
           /\ Joined \subseteq Joined'
           /\ seen \in 1..Len(nodes') /\ Len(nodes') \in 1..Len(nodes')
<1>0. TypeOK /\ Len(nodes) \in Nat /\ seen \in Versions /\ nodes \in Seq([Node -> Label])
  BY ListFacts DEF IInv, TypeOK
<1>1. CASE UNCHANGED nodes
  BY <1>0, <1>1 DEF Joined, Present, Now, Last, Versions
<1>2. CASE \E n \in Joined \ down : Grows(n, Found(n))
  <2>1. PICK n \in Joined \ down : Grows(n, Found(n))
    BY <1>2
  <2>2. n \in Node /\ Found(n) \in Label /\ Found(n) \in Known /\ Found(n) # "gone"
    BY FoundKnown DEF Joined, Present, Known
  <2>3. /\ nodes' \in Seq([Node -> Label]) /\ Len(nodes') = Len(nodes) + 1
        /\ \A i \in Versions : nodes'[i] = nodes[i]
        /\ Joined' = Joined \cup {n}
    BY <2>1, <2>2, Growing
  <2> QED
    BY <1>0, <2>3 DEF Versions
<1>3. CASE \E n \in Node \ Joined : Grows(n, "none")
  <2>1. PICK n \in Node \ Joined : Grows(n, "none")
    BY <1>3
  <2>2. /\ nodes' \in Seq([Node -> Label]) /\ Len(nodes') = Len(nodes) + 1
        /\ \A i \in Versions : nodes'[i] = nodes[i]
        /\ Joined' = Joined \cup {n}
    BY <2>1, Growing DEF Label
  <2> QED
    BY <1>0, <2>2 DEF Versions
<1> QED
  BY <1>1, <1>2, <1>3, ListWrites

\* The worker's steps change only the DaemonSet, its pods and what the worker holds.
LEMMA WorkerFrame ==
    WorkerStep => UNCHANGED <<hardware, nodes, seen, dsSeen>>
BY DEF WorkerStep, runKVMCheckAndLabelNodes, Ask, Deploy, AwaitRollout, AwaitLabels,
       DeleteDaemonSet, CheckEmulationNeeded, UpdateEmulationSetting, Write, daemonSet

\* Where an event is counted.
LEMMA CountStep ==
    ASSUME TypeOK, Next
    PROVE  /\ count' \in [{"fault", "stop", "crash"} -> Nat]
           /\ count'["stop"] = 0 => count["stop"] = 0
           /\ count'["fault"] = 0 => count["fault"] = 0
<1>0. count \in [{"fault", "stop", "crash"} -> Nat]
  BY DEF TypeOK
<1>1. CASE UNCHANGED count
  BY <1>0, <1>1
<1>2. CASE Fault
  BY <1>0, <1>2, Counting DEF Fault
<1>3. CASE Counted("stop", MaxStops)
  BY <1>0, <1>3, Counting
<1>4. CASE Counted("crash", MaxCrashes)
  BY <1>0, <1>4, Counting
<1>5. UNCHANGED count \/ Fault \/ Counted("stop", MaxStops) \/ Counted("crash", MaxCrashes)
  <2>1. CASE WorkerStep
    BY <2>1 DEF WorkerStep, runKVMCheckAndLabelNodes, Ask, Deploy, AwaitRollout, AwaitLabels,
                DeleteDaemonSet, CheckEmulationNeeded, UpdateEmulationSetting, FaultAgain
  <2>2. CASE \E n \in Node : \/ StartPod(n) \/ LabelNode(n) \/ RunAgain(n) \/ StrayEnds(n)
                             \/ Join(n) \/ NodeStops(n) \/ NodeStarts(n)
    BY <2>2 DEF StartPod, LabelNode, RunAgain, StrayEnds, Join, NodeStops, NodeStarts
  <2>3. CASE ReportStatus \/ DeliverNodes \/ DeliverDaemonSet \/ Crash
    BY <2>3 DEF ReportStatus, DeliverNodes, DeliverDaemonSet, Crash
  <2> QED
    BY <2>1, <2>2, <2>3 DEF Next
<1> QED
  BY <1>1, <1>2, <1>3, <1>4, <1>5

(***************************************************************************)
(* Types.                                                                  *)
(***************************************************************************)
HardwareType ==
    capable \subseteq Node /\ down \subseteq Joined

DaemonSetType ==
    /\ ds \in {"absent", "rolling", "ready"} /\ dsSeen \in {"absent", "rolling", "ready"}
    /\ pod \in [Node -> {"none", "running", "done"}]
    /\ \A n \in Node : pod[n] # "none" => ds # "absent" /\ n \in Joined \ down
    /\ stray \subseteq Joined \ down

Places == {"idle", "deploy", "rollout", "labels", "delete", "expired", "decide", "set"}

WorkerType ==
    /\ pc \in Places
    /\ asked \subseteq Joined
    /\ answer \in {"none", "native", "emulate"}
    /\ pc = "set" <=> answer # "none"
    /\ pc = "idle" => asked = {}
    /\ emulates \in BOOLEAN

\* TypeOK in the groups of variables that the steps are examined for.
LEMMA TypeParts ==
    TypeOK <=> /\ nodes \in Seq([Node -> Label]) /\ seen \in 1..Len(nodes)
               /\ HardwareType /\ DaemonSetType /\ WorkerType
               /\ count \in [{"fault", "stop", "crash"} -> Nat]
BY DEF TypeOK, HardwareType, DaemonSetType, WorkerType, Places

\* The initial list is the only version.
LEMMA InitType == Init => TypeOK /\ Len(nodes) = 1
<1> SUFFICES ASSUME Init PROVE TypeOK /\ Len(nodes) = 1
  OBVIOUS
<1>1. PICK there \in SUBSET Node \ {{}} :
        nodes = << [n \in Node |-> IF n \in there THEN "none" ELSE "gone"] >>
  BY DEF Init
<1>2. [n \in Node |-> IF n \in there THEN "none" ELSE "gone"] \in [Node -> Label]
  BY DEF Label
<1>3. nodes \in Seq([Node -> Label]) /\ Len(nodes) = 1
  BY <1>1, <1>2
<1>4. count \in [{"fault", "stop", "crash"} -> Nat]
  BY DEF Init
<1>5. HardwareType /\ DaemonSetType /\ WorkerType
  BY DEF Init, HardwareType, DaemonSetType, WorkerType, Places
<1> QED
  BY <1>3, <1>4, <1>5, TypeParts DEF Init

\* Nodes that are down or have KVM are nodes.
LEMMA HardwareStep ==
    ASSUME IInv, Next
    PROVE  HardwareType'
<1>0. capable \subseteq Node /\ down \subseteq Joined /\ Joined \subseteq Joined'
  BY ListStep DEF IInv, TypeOK
<1>1. CASE UNCHANGED hardware
  BY <1>0, <1>1 DEF HardwareType, hardware
<1>2. CASE \E n \in Node : NodeStops(n) \/ NodeStarts(n)
  BY <1>0, <1>2 DEF HardwareType, NodeStops, NodeStarts
<1>3. CASE WorkerStep
  BY <1>1, <1>3, WorkerFrame
<1>4. CASE \E n \in Node : \/ StartPod(n) \/ LabelNode(n) \/ RunAgain(n) \/ StrayEnds(n)
                           \/ Join(n)
  BY <1>1, <1>4 DEF StartPod, LabelNode, RunAgain, StrayEnds, Join
<1>5. CASE ReportStatus \/ DeliverNodes \/ DeliverDaemonSet \/ Crash
  BY <1>1, <1>5 DEF ReportStatus, DeliverNodes, DeliverDaemonSet, Crash
<1> QED
  BY <1>2, <1>3, <1>4, <1>5 DEF Next

\* Pods run only on nodes that are up, and those of the DaemonSet only as long as it is there.
LEMMA DaemonSetStep ==
    ASSUME IInv, Next
    PROVE  DaemonSetType'
<1>0. Joined \subseteq Joined' /\ Joined \subseteq Node
  BY ListStep DEF Joined, Present
<1>1. /\ ds \in {"absent", "rolling", "ready"} /\ dsSeen \in {"absent", "rolling", "ready"}
      /\ pod \in [Node -> {"none", "running", "done"}]
      /\ \A n \in Node : pod[n] # "none" => ds # "absent" /\ n \in Joined \ down
      /\ stray \subseteq Joined \ down
  BY DEF IInv, TypeOK
<1>2. CASE UNCHANGED <<pods, down>> /\ (ds' = ds \/ ds' \in {"rolling", "ready"})
           /\ dsSeen' \in {ds, dsSeen}
  BY <1>0, <1>1, <1>2 DEF DaemonSetType, pods
<1>3. CASE Deploy
  BY <1>2, <1>3, <1>1 DEF Deploy, Write, daemonSet, hardware
<1>4. CASE DeleteDaemonSet
  <2>1. CASE /\ Write("absent") /\ pod' = [n \in Node |-> "none"]
             /\ stray' = stray \cup {n \in Node : pod[n] = "running" /\ Now[n] # Found(n)}
    <3>1. \A n \in Node : pod[n] = "running" => n \in Joined \ down
      BY <1>1
    <3>2. stray' \subseteq Joined' \ down'
      BY <1>0, <1>1, <1>4, <2>1, <3>1 DEF DeleteDaemonSet, hardware
    <3> QED
      BY <1>1, <2>1, <3>2 DEF DaemonSetType, Write
  <2>2. CASE UNCHANGED <<daemonSet, pods>>
    BY <1>2, <1>4, <2>2 DEF DeleteDaemonSet, daemonSet, hardware
  <2> QED
    BY <1>4, <2>1, <2>2 DEF DeleteDaemonSet
<1>5. CASE Ask \/ AwaitRollout \/ AwaitLabels \/ CheckEmulationNeeded \/ UpdateEmulationSetting
  BY <1>2, <1>5 DEF Ask, AwaitRollout, AwaitLabels, CheckEmulationNeeded,
                    UpdateEmulationSetting, daemonSet, hardware
<1>6. CASE \E n \in Node : StartPod(n) \/ LabelNode(n) \/ RunAgain(n) \/ StrayEnds(n)
  <2>1. PICK n \in Node : StartPod(n) \/ LabelNode(n) \/ RunAgain(n) \/ StrayEnds(n)
    BY <1>6
  <2>2. UNCHANGED <<ds, dsSeen, down>> /\ stray' \subseteq stray
    BY <2>1 DEF StartPod, LabelNode, RunAgain, StrayEnds, daemonSet, hardware
  <2>3. /\ pod' \in [Node -> {"none", "running", "done"}]
        /\ \A m \in Node \ {n} : pod'[m] = pod[m]
        /\ pod'[n] # "none" => ds # "absent" /\ n \in Joined \ down
    BY <1>1, <2>1 DEF StartPod, LabelNode, RunAgain, StrayEnds
  <2> QED
    BY <1>0, <1>1, <2>2, <2>3 DEF DaemonSetType
<1>7. CASE \E n \in Node : Join(n)
  BY <1>2, <1>7 DEF Join, daemonSet, hardware
<1>8. CASE \E n \in Node : NodeStops(n) \/ NodeStarts(n)
  <2>1. PICK n \in Node : NodeStops(n) \/ NodeStarts(n)
    BY <1>8
  <2>2. CASE NodeStops(n)
    BY <1>0, <1>1, <2>2 DEF NodeStops, DaemonSetType, daemonSet
  <2>3. CASE NodeStarts(n)
    BY <1>0, <1>1, <2>3 DEF NodeStarts, DaemonSetType, daemonSet, pods
  <2> QED
    BY <2>1, <2>2, <2>3
<1>9. CASE ReportStatus
  BY <1>2, <1>9 DEF ReportStatus, Status, Write, hardware
<1>10. CASE DeliverNodes \/ DeliverDaemonSet \/ Crash
  BY <1>2, <1>10 DEF DeliverNodes, DeliverDaemonSet, Crash, daemonSet, hardware
<1> QED
  BY <1>3, <1>4, <1>5, <1>6, <1>7, <1>8, <1>9, <1>10
     DEF Next, WorkerStep, runKVMCheckAndLabelNodes

\* The worker is at one of its places, and asks only for nodes that have joined.
LEMMA WorkerTypeStep ==
    ASSUME IInv, Next
    PROVE  WorkerType'
<1>0. Joined \subseteq Joined' /\ Present(Cached) \subseteq Joined
  <2>1. Cached = nodes[seen] /\ Now = nodes[Len(nodes)]
    BY ListFacts DEF IInv, Cached
  <2>2. seen <= Len(nodes) /\ seen \in Versions /\ Len(nodes) \in Versions
    BY ListFacts DEF IInv, Versions
  <2>3. Keeps(Cached, Now)
    BY <2>1, <2>2 DEF IInv, ListsOK
  <2> QED
    BY <2>3, ListStep DEF Keeps, Joined, Present
<1>1. WorkerType
  BY TypeParts DEF IInv
<1>2. CASE UNCHANGED worker
  BY <1>0, <1>1, <1>2 DEF WorkerType, worker
<1>3. CASE Again
  BY <1>1, <1>3 DEF Again, Return, WorkerType, Places
<1>4. CASE \E where \in {"rollout", "labels", "delete", "expired", "decide"} :
             pc \notin {"idle", "set"} /\ GoTo(where)
  BY <1>0, <1>1, <1>4 DEF GoTo, WorkerType, Places
<1>5. CASE Ask
  BY <1>0, <1>1, <1>5 DEF Ask, WorkerType, Places
<1>6. CASE Deploy \/ AwaitRollout \/ AwaitLabels \/ DeleteDaemonSet
  BY <1>3, <1>4, <1>6 DEF Deploy, AwaitRollout, AwaitLabels, DeleteDaemonSet, FaultAgain
<1>7. CASE CheckEmulationNeeded
  BY <1>0, <1>1, <1>3, <1>7 DEF CheckEmulationNeeded, FaultAgain, Answer, WorkerType, Places
<1>8. CASE UpdateEmulationSetting
  BY <1>1, <1>3, <1>8 DEF UpdateEmulationSetting, FaultAgain, Return, WorkerType, Places
<1>9. CASE \E n \in Node : \/ StartPod(n) \/ LabelNode(n) \/ RunAgain(n) \/ StrayEnds(n)
                           \/ Join(n) \/ NodeStops(n) \/ NodeStarts(n)
  BY <1>2, <1>9 DEF StartPod, LabelNode, RunAgain, StrayEnds, Join, NodeStops, NodeStarts
<1>10. CASE ReportStatus \/ DeliverNodes \/ DeliverDaemonSet
  BY <1>2, <1>10 DEF ReportStatus, DeliverNodes, DeliverDaemonSet
<1>11. CASE Crash
  BY <1>3, <1>11 DEF Crash
<1> QED
  BY <1>5, <1>6, <1>7, <1>8, <1>9, <1>10, <1>11 DEF Next, WorkerStep, runKVMCheckAndLabelNodes

\* The cache moves forward.
LEMMA SeenStep ==
    ASSUME IInv, Next
    PROVE  seen' \in 1..Len(nodes') /\ seen <= seen'
<1>0. /\ Len(nodes) \in Nat /\ Len(nodes) \in Versions /\ seen \in Versions
      /\ nodes' \in Seq([Node -> Label]) /\ Len(nodes) <= Len(nodes')
  BY ListFacts, ListStep DEF IInv
<1>1. Len(nodes') \in Nat
  BY <1>0
<1>2. CASE UNCHANGED seen
  BY <1>0, <1>1, <1>2 DEF Versions
<1>3. CASE DeliverNodes
  BY <1>0, <1>1, <1>3 DEF DeliverNodes, Versions
<1>4. CASE Crash
  BY <1>0, <1>1, <1>4 DEF Crash, Versions
<1>5. CASE \E n \in Node : \/ StartPod(n) \/ LabelNode(n) \/ RunAgain(n) \/ StrayEnds(n)
                           \/ Join(n) \/ NodeStops(n) \/ NodeStarts(n)
  BY <1>2, <1>5 DEF StartPod, LabelNode, RunAgain, StrayEnds, Join, NodeStops, NodeStarts
<1>6. CASE ReportStatus \/ DeliverDaemonSet
  BY <1>2, <1>6 DEF ReportStatus, DeliverDaemonSet
<1>7. CASE WorkerStep
  BY <1>2, <1>7, WorkerFrame
<1> QED
  BY <1>3, <1>4, <1>5, <1>6, <1>7 DEF Next

\* Every step keeps the types.
LEMMA TypeStep ==
    ASSUME IInv, Next
    PROVE  TypeOK'
<1>1. (/\ nodes \in Seq([Node -> Label]) /\ seen \in 1..Len(nodes)
       /\ HardwareType /\ DaemonSetType /\ WorkerType
       /\ count \in [{"fault", "stop", "crash"} -> Nat])'
  BY ListStep, SeenStep, HardwareStep, DaemonSetStep, WorkerTypeStep, CountStep DEF IInv
<1> QED
  BY <1>1 DEF TypeOK, HardwareType, DaemonSetType, WorkerType, Places

(***************************************************************************)
(* The lists, and the labels in them.                                      *)
(***************************************************************************)
LEMMA ListsStep ==
    ASSUME IInv, Next
    PROVE  ListsOK'
<1>0. Len(nodes) \in Nat /\ Len(nodes) \in Versions /\ Now = nodes[Len(nodes)]
  BY ListFacts DEF IInv
<1>1. \A i, j \in Versions : i <= j => Keeps(nodes[i], nodes[j])
  BY DEF IInv, ListsOK
<1>2. CASE UNCHANGED nodes
  BY <1>1, <1>2 DEF ListsOK, Versions, Keeps
<1>3. ASSUME NEW n \in Node, NEW label \in Label, Grows(n, label),
             label # "gone",
             label \in Known \/ n \notin Joined
      PROVE  ListsOK'
  <2> DEFINE new == [Now EXCEPT ![n] = label]
  <2>1. /\ Len(nodes') = Len(nodes) + 1
        /\ \A i \in Versions : nodes'[i] = nodes[i]
        /\ nodes'[Len(nodes) + 1] = new
        /\ Keeps(Now, new)
    BY <1>3, Growing
  <2>2. \A i \in Versions : Keeps(nodes[i], new)
    <3>1. \A i \in Versions : Keeps(nodes[i], Now)
      BY <1>0, <1>1 DEF Versions
    <3> QED
      BY <2>1, <3>1 DEF Keeps
  <2>3. Keeps(new, new)
    BY DEF Keeps
  <2>4. ASSUME NEW i \in 1..Len(nodes'), NEW j \in 1..Len(nodes'), i <= j
        PROVE  Keeps(nodes'[i], nodes'[j])
    <3>1. CASE j \in Versions
      BY <1>0, <1>1, <2>1, <2>4, <3>1 DEF Versions
    <3>2. CASE i \in Versions /\ j = Len(nodes) + 1
      BY <2>1, <2>2, <3>2
    <3>3. CASE i = Len(nodes) + 1 /\ j = Len(nodes) + 1
      BY <2>1, <2>3, <3>3
    <3> QED
      BY <1>0, <2>1, <2>4, <3>1, <3>2, <3>3 DEF Versions
  <2> QED
    BY <2>4 DEF ListsOK, Versions, Keeps, Known
<1>4. CASE \E n \in Joined \ down : Grows(n, Found(n))
  BY <1>3, <1>4, FoundKnown DEF Joined, Present, Known
<1>5. CASE \E n \in Node \ Joined : Grows(n, "none")
  BY <1>3, <1>5 DEF Label
<1> QED
  BY <1>2, <1>4, <1>5, ListWrites

\* The cache loses no node and no label.
LEMMA CacheKeeps ==
    ASSUME IInv, Next
    PROVE  Keeps(Cached, Cached')
<1>1. /\ seen \in Versions /\ seen \in 1..Len(nodes')
      /\ seen' \in 1..Len(nodes') /\ seen <= seen'
      /\ nodes'[seen] = nodes[seen]
  BY ListFacts, ListStep, SeenStep DEF IInv
<1>2. \A i, j \in 1..Len(nodes') : i <= j => Keeps(nodes'[i], nodes'[j])
  BY ListsStep DEF ListsOK, Versions, Keeps, Known
<1> QED
  BY <1>1, <1>2 DEF Cached

\* As long as no node was stopped, none starts with another hardware.
LEMMA HardwareStays ==
    ASSUME IInv, Next, count'["stop"] = 0
    PROVE  UNCHANGED hardware
<1>0. TypeOK /\ count["stop"] = 0 /\ down = {}
  BY CountStep DEF IInv, LabelsOK
<1>1. ASSUME NEW n \in Node PROVE ~NodeStops(n) /\ ~NodeStarts(n)
  <2>1. Counted("stop", MaxStops) => count'["stop"] = 1
    BY <1>0, Counting
  <2> QED
    BY <1>0, <2>1 DEF NodeStops, NodeStarts
<1>2. CASE WorkerStep
  BY <1>2, WorkerFrame
<1>3. CASE \E n \in Node : \/ StartPod(n) \/ LabelNode(n) \/ RunAgain(n) \/ StrayEnds(n)
                           \/ Join(n)
  BY <1>3 DEF StartPod, LabelNode, RunAgain, StrayEnds, Join
<1>4. CASE ReportStatus \/ DeliverNodes \/ DeliverDaemonSet \/ Crash
  BY <1>4 DEF ReportStatus, DeliverNodes, DeliverDaemonSet, Crash
<1> QED
  BY <1>1, <1>2, <1>3, <1>4 DEF Next

\* Without a stop a pod writes the truth, and the hardware of a node does not change.
LEMMA LabelsStep ==
    ASSUME IInv, Next
    PROVE  LabelsOK'
<1> SUFFICES ASSUME count'["stop"] = 0
             PROVE  (down = {} /\ \A i \in Versions : Honest(nodes[i]))'
  BY DEF LabelsOK
<1>0. /\ TypeOK /\ count["stop"] = 0 /\ down = {}
      /\ \A i \in Versions : Honest(nodes[i])
  BY CountStep DEF IInv, LabelsOK
<1>1. capable' = capable /\ down' = {}
  BY <1>0, HardwareStays DEF hardware
<1>2. CASE UNCHANGED nodes
  BY <1>0, <1>1, <1>2 DEF Versions, Honest
<1>3. ASSUME NEW n \in Node, NEW label \in Label, Grows(n, label),
             label # "gone",
             label \in Known \/ n \notin Joined,
             label \in {Found(n), "none"}
      PROVE  \A i \in 1..Len(nodes') : Honest(nodes'[i])
  <2>1. /\ Len(nodes') = Len(nodes) + 1
        /\ \A i \in Versions : nodes'[i] = nodes[i]
        /\ nodes'[Len(nodes) + 1] = [Now EXCEPT ![n] = label]
    BY <1>3, Growing
  <2>2. Len(nodes) \in Nat /\ Honest(Now) /\ Now \in [Node -> Label]
    BY <1>0, ListFacts
  <2>3. Honest([Now EXCEPT ![n] = label])
    BY <1>3, <2>2 DEF Honest, Found
  <2> QED
    BY <1>0, <2>1, <2>2, <2>3 DEF Versions
<1>4. CASE \E n \in Joined \ down : Grows(n, Found(n))
  <2>1. \A i \in 1..Len(nodes') : Honest(nodes'[i])
    BY <1>3, <1>4, FoundKnown DEF Joined, Present, Known
  <2> QED
    BY <1>1, <2>1 DEF Versions, Honest
<1>5. CASE \E n \in Node \ Joined : Grows(n, "none")
  <2>1. \A i \in 1..Len(nodes') : Honest(nodes'[i])
    BY <1>3, <1>5 DEF Label
  <2> QED
    BY <1>1, <2>1 DEF Versions, Honest
<1> QED
  BY <1>2, <1>4, <1>5, ListWrites

(***************************************************************************)
(* The worker, and its answer.                                             *)
(***************************************************************************)

\* The steps that bring the worker to the places that WorkerOK is about.
LEMMA StopsWaiting ==
    ASSUME Next
    PROVE  \/ UNCHANGED worker
           \/ pc' \notin {"delete", "expired", "decide"} /\ asked' \in {asked, {}}
           \/ Ask
           \/ AwaitLabels
           \/ DeleteDaemonSet
<1>1. CASE Deploy \/ AwaitRollout \/ CheckEmulationNeeded \/ UpdateEmulationSetting
  BY <1>1 DEF Deploy, AwaitRollout, CheckEmulationNeeded, UpdateEmulationSetting,
              FaultAgain, Again, Return, GoTo
<1>2. CASE \E n \in Node : \/ StartPod(n) \/ LabelNode(n) \/ RunAgain(n) \/ StrayEnds(n)
                           \/ Join(n) \/ NodeStops(n) \/ NodeStarts(n)
  BY <1>2 DEF StartPod, LabelNode, RunAgain, StrayEnds, Join, NodeStops, NodeStarts
<1>3. CASE ReportStatus \/ DeliverNodes \/ DeliverDaemonSet \/ Crash
  BY <1>3 DEF ReportStatus, DeliverNodes, DeliverDaemonSet, Crash, Again, Return
<1> QED
  BY <1>1, <1>2, <1>3 DEF Next, WorkerStep, runKVMCheckAndLabelNodes

\* The cache only moves to later lists, which keep the nodes and labels that it had; without
\* a fault the worker stops waiting only when all labels are there.
LEMMA WorkerStepOK ==
    ASSUME IInv, Next
    PROVE  WorkerOK'
<1>0. /\ TypeOK /\ WorkerOK /\ LabelsOK
      /\ asked \subseteq Present(Cached)
      /\ Keeps(Cached, Cached')
  BY CacheKeeps DEF IInv, WorkerOK
<1>1. Present(Cached) \subseteq Present(Cached')
  BY <1>0 DEF Keeps, Present
<1>2. asked' \subseteq Present(Cached')
  <2>1. CASE Ask
    BY <1>1, <2>1 DEF Ask
  <2>2. CASE asked' \in {asked, {}}
    BY <1>0, <1>1, <2>2
  <2>3. CASE UNCHANGED worker \/ AwaitLabels \/ DeleteDaemonSet
    BY <2>2, <2>3 DEF worker, AwaitLabels, DeleteDaemonSet, FaultAgain, Again, Return, GoTo
  <2> QED
    BY <2>1, <2>2, <2>3, StopsWaiting
<1>3. ASSUME count'["fault"] = 0, count'["stop"] = 0
      PROVE  /\ pc' # "expired"
             /\ pc' \in {"delete", "decide"} => \A n \in asked' : Cached'[n] \in Known
  <2>1. /\ count["fault"] = 0 /\ count["stop"] = 0 /\ down = {} /\ ~Fault
        /\ pc # "expired"
        /\ pc \in {"delete", "decide"} => \A n \in asked : Cached[n] \in Known
    BY <1>0, <1>3, CountStep, Faults DEF WorkerOK, LabelsOK
  <2>2. (\A n \in asked : Cached[n] \in Known) => (\A n \in asked : Cached'[n] \in Known)
    BY <1>0 DEF Keeps, Present
  <2>3. CASE UNCHANGED worker
    BY <2>1, <2>2, <2>3 DEF worker
  <2>4. CASE AwaitLabels
    <3>1. Unlabelled = {} /\ pc' = "delete" /\ asked' = asked
      BY <2>1, <2>4 DEF AwaitLabels, GoTo
    <3>2. \A n \in asked : Cached[n] \in Known
      BY <1>0, <3>1, ListFacts DEF Unlabelled, Present, Label, Known
    <3> QED
      BY <2>2, <3>1, <3>2
  <2>5. CASE DeleteDaemonSet
    BY <2>1, <2>2, <2>5 DEF DeleteDaemonSet, GoTo, Again, Return
  <2>6. CASE Ask
    BY <2>6 DEF Ask
  <2> QED
    BY <2>3, <2>4, <2>5, <2>6, StopsWaiting
<1> QED
  BY <1>2, <1>3 DEF WorkerOK

\* An answer comes from CheckEmulationNeeded.
LEMMA AnswerWrites ==
    ASSUME Next, answer' # "none"
    PROVE  \/ UNCHANGED <<answer, asked>>
           \/ pc = "decide" /\ answer' = Answer /\ UNCHANGED <<asked, nodes, hardware, count>>
           \/ Ask
<1>1. CASE Deploy \/ AwaitRollout \/ AwaitLabels \/ DeleteDaemonSet
  BY <1>1 DEF Deploy, AwaitRollout, AwaitLabels, DeleteDaemonSet, FaultAgain, Again, Return,
              GoTo
<1>2. CASE CheckEmulationNeeded \/ UpdateEmulationSetting
  BY <1>2 DEF CheckEmulationNeeded, UpdateEmulationSetting, FaultAgain, Again, Return
<1>3. CASE \E n \in Node : \/ StartPod(n) \/ LabelNode(n) \/ RunAgain(n) \/ StrayEnds(n)
                           \/ Join(n) \/ NodeStops(n) \/ NodeStarts(n)
  BY <1>3 DEF StartPod, LabelNode, RunAgain, StrayEnds, Join, NodeStops, NodeStarts, worker
<1>4. CASE ReportStatus \/ DeliverNodes \/ DeliverDaemonSet \/ Crash
  BY <1>4 DEF ReportStatus, DeliverNodes, DeliverDaemonSet, Crash, Again, Return, worker
<1> QED
  BY <1>1, <1>2, <1>3, <1>4 DEF Next, WorkerStep, runKVMCheckAndLabelNodes

\* The label that decided is right, and its node has not lost its device since.
LEMMA NativeStep ==
    ASSUME IInv, Next
    PROVE  NativeOnlyWithKvm'
<1> SUFFICES ASSUME answer' = "native", count'["stop"] = 0
             PROVE  Joined' \cap capable' # {}
  BY DEF NativeOnlyWithKvm
<1>0. /\ TypeOK /\ count["stop"] = 0
      /\ capable' = capable /\ Joined \subseteq Joined'
      /\ \A i \in Versions : Honest(nodes[i])
  BY CountStep, HardwareStays, ListStep DEF IInv, LabelsOK, hardware
<1>1. CASE answer = "native"
  BY <1>0, <1>1 DEF IInv, NativeOnlyWithKvm
<1>2. CASE answer' = Answer
  <2>1. PICK n \in Node : Cached[n] = "true"
    BY <1>2 DEF Answer
  <2>2. seen \in Versions /\ Len(nodes) \in Versions /\ seen <= Len(nodes)
        /\ Now = nodes[Len(nodes)]
    BY <1>0, ListFacts DEF Versions
  <2>3. n \in capable
    BY <1>0, <2>1, <2>2 DEF Honest, Cached
  <2>4. Keeps(Cached, Now)
    BY <2>2 DEF IInv, ListsOK, Cached
  <2>5. n \in Joined
    BY <2>1, <2>4 DEF Keeps, Joined, Present
  <2> QED
    BY <1>0, <2>3, <2>5
<1>3. ~Ask
  BY <1>0 DEF Ask, TypeOK
<1> QED
  BY <1>1, <1>2, <1>3, AnswerWrites

\* A check that nothing disturbed decides by a label of every node it is about.
LEMMA EmulationStep ==
    ASSUME IInv, Next
    PROVE  EmulationOnlyWithout'
<1> SUFFICES ASSUME answer' = "emulate", count'["fault"] = 0, count'["stop"] = 0
             PROVE  asked' \cap capable' = {}
  BY DEF EmulationOnlyWithout
<1>0. /\ TypeOK /\ WorkerOK /\ count["fault"] = 0 /\ count["stop"] = 0
      /\ capable' = capable
      /\ \A i \in Versions : Honest(nodes[i])
  BY CountStep, HardwareStays DEF IInv, LabelsOK, hardware
<1>1. CASE UNCHANGED <<answer, asked>>
  BY <1>0, <1>1 DEF IInv, EmulationOnlyWithout
<1>2. CASE pc = "decide" /\ answer' = Answer /\ asked' = asked
  <2>1. \A n \in asked : Cached[n] \in Known /\ n \in Node
    BY <1>0, <1>2 DEF WorkerOK, Present
  <2>2. \A n \in asked : Cached[n] = "false"
    BY <1>2, <2>1 DEF Answer, Known
  <2>3. Honest(Cached)
    BY <1>0, ListFacts DEF Cached
  <2> QED
    BY <1>0, <1>2, <2>1, <2>2, <2>3 DEF Honest
<1>3. ~Ask
  BY <1>0 DEF Ask, TypeOK
<1> QED
  BY <1>1, <1>2, <1>3, AnswerWrites

(***************************************************************************)
(* The invariant and what follows from it.                                 *)
(***************************************************************************)
LEMMA InitOK == Init => IInv
<1> SUFFICES ASSUME Init PROVE IInv
  OBVIOUS
<1>1. TypeOK /\ Len(nodes) = 1 /\ asked = {} /\ pc = "idle" /\ answer = "none" /\ down = {}
  BY InitType DEF Init
<1>2. PICK there \in SUBSET Node \ {{}} :
        nodes = << [n \in Node |-> IF n \in there THEN "none" ELSE "gone"] >>
  BY DEF Init
<1>3. nodes[1] = [n \in Node |-> IF n \in there THEN "none" ELSE "gone"]
  BY <1>2
<1>4. ListsOK
  BY <1>1 DEF ListsOK, Versions, Keeps
<1>5. LabelsOK
  BY <1>1, <1>3 DEF LabelsOK, Versions, Honest
<1>6. WorkerOK /\ NativeOnlyWithKvm /\ EmulationOnlyWithout
  BY <1>1 DEF WorkerOK, NativeOnlyWithKvm, EmulationOnlyWithout
<1> QED
  BY <1>1, <1>4, <1>5, <1>6 DEF IInv

\* Every step of the worker, of the pods, of the nodes and of the informers keeps
\* the inductive invariant.
THEOREM Invariant == Spec => []IInv
<1>1. IInv /\ [Next]_vars => IInv'
  <2> SUFFICES ASSUME IInv, [Next]_vars PROVE IInv'
    OBVIOUS
  <2>1. CASE Next
    <3>1. TypeOK'
      BY <2>1, TypeStep
    <3>2. ListsOK'
      BY <2>1, ListsStep
    <3>3. LabelsOK'
      BY <2>1, LabelsStep
    <3>4. WorkerOK'
      BY <2>1, WorkerStepOK
    <3>5. NativeOnlyWithKvm'
      BY <2>1, NativeStep
    <3>6. EmulationOnlyWithout'
      BY <2>1, EmulationStep
    <3> QED
      BY <3>1, <3>2, <3>3, <3>4, <3>5, <3>6 DEF IInv
  <2>2. CASE UNCHANGED vars
    <3>1. UNCHANGED <<capable, down, nodes, seen, ds, dsSeen, pod, stray, pc, asked, answer,
                      emulates, count>>
      BY <2>2 DEF vars, hardware, daemonSet, pods, worker
    <3>2. TypeOK' /\ NativeOnlyWithKvm' /\ EmulationOnlyWithout'
      BY <3>1 DEF IInv, TypeOK, NativeOnlyWithKvm, EmulationOnlyWithout, Joined, Present, Now,
                  Last
    <3>3. ListsOK' /\ LabelsOK' /\ WorkerOK'
      BY <3>1 DEF IInv, ListsOK, LabelsOK, WorkerOK, Versions, Keeps, Honest, Cached, Present
    <3> QED
      BY <3>2, <3>3 DEF IInv
  <2> QED
    BY <2>1, <2>2
<1> QED
  BY <1>1, InitOK, PTL DEF Spec

\* The variables of the KVM check keep their types.
THEOREM TypeCorrect == Spec => []TypeOK
<1>1. IInv => TypeOK
  BY DEF IInv
<1> QED
  BY <1>1, Invariant, PTL

\* CheckEmulationNeeded lets guests run on KVM only if some node has it, as long as
\* no node was stopped: faults, expired waits, restarts and late pods do not matter.
THEOREM NativeIsSafe == Spec => []NativeOnlyWithKvm
<1>1. IInv => NativeOnlyWithKvm
  BY DEF IInv
<1> QED
  BY <1>1, Invariant, PTL

\* A check that nothing disturbs answers "emulate" only if none of the nodes known
\* when it began has KVM, whatever joined or restarted meanwhile.
THEOREM EmulationIsNeeded == Spec => []EmulationOnlyWithout
<1>1. IInv => EmulationOnlyWithout
  BY DEF IInv
<1> QED
  BY <1>1, Invariant, PTL

================================================================================
