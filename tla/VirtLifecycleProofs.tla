-------------------------- MODULE VirtLifecycleProofs --------------------------
(***************************************************************************)
(* The safety properties of VirtLifecycle hold for any number of versions  *)
(* of the ConfigMap, faults and restarts: a pass takes many minutes, and   *)
(* what it does was wished once, and does not harm what is ready.          *)
(***************************************************************************)
EXTENDS VirtLifecycle, FeatureWishProofs

(***************************************************************************)
(* The inductive invariant.                                                *)
(***************************************************************************)
BeforeCdi  == {"operator", "resource", "wait", "emulateNew", "clean", "cleanOperator"}
InstallCdi == {"cdiOperator", "cdiCrd", "cdiResource", "cdiWait"}
Installing == BeforeCdi \cup InstallCdi \cup {"manager", "managerWait"}
Removing   == {"removeCDI", "remove", "gone", "removeOperator"}

\* A pass works on a Config that the cache has shown, and installs or removes as that
\* Config says.
PassOK ==
    /\ want # NoWish => Managed(want) /\ Shown(want)
    /\ pc \in Installing => Enabled(want)
    /\ pc \in {"saveOff", "removeManager"} => ~Enabled(want)

\* KubeVirt Manager comes last and goes first: it is there only with the other two,
\* and not while they are installed or removed.
Settled ==
    /\ manager # "none" => \A k \in Kind : cr[k] = "ready"
    /\ manager = "starting" => pc = "managerWait"
    /\ pc \in BeforeCdi \cup InstallCdi \cup {"manager", "namespace"} \cup Removing
          => manager = "none"
    /\ pc \in {"emulateNew", "clean", "cleanOperator", "manager"} \cup InstallCdi
          => cr["KubeVirt"] = "ready"
    /\ pc = "manager" => cr["CDI"] = "ready"
    /\ pc # "endless"

SettledOK == Undisturbed => Settled

IInv == TypeOK /\ PassOK /\ SettledOK

(***************************************************************************)
(* What single steps do.                                                   *)
(***************************************************************************)

\* A fault or a restart ends the time in which nothing failed.
LEMMA Disturbing ==
    ASSUME TypeOK, NEW e \in {"fault", "crash"}, NEW max, Counted(e, max)
    PROVE  count' \in [{"fault", "crash"} -> Nat] /\ ~Undisturbed'
<1>1. count \in [{"fault", "crash"} -> Nat] /\ count' = [count EXCEPT ![e] = @ + 1]
  BY DEF TypeOK, Counted
<1>2. count'[e] = count[e] + 1 /\ count[e] \in Nat
  BY <1>1
<1> QED
  BY <1>1, <1>2 DEF Undisturbed

\* A fault counts, so that the execution is disturbed from then on.
LEMMA FaultDisturbs ==
    ASSUME TypeOK, Fault
    PROVE  count' \in [{"fault", "crash"} -> Nat] /\ ~Undisturbed'
BY Disturbing DEF Fault

\* Every step but a fault and a restart leaves the count alone.
LEMMA CountStep ==
    ASSUME TypeOK, Next
    PROVE  /\ count' \in [{"fault", "crash"} -> Nat]
           /\ Undisturbed' => Undisturbed /\ ~Fault /\ ~Crash
<1>1. UNCHANGED count \/ Fault \/ Counted("crash", MaxCrashes)
  <2>1. CASE ConfigMapChanges \/ DeliverConfigMap \/ Resync \/ ManagerReady \/ Wobble \/ Crash
    BY <2>1 DEF ConfigMapChanges, DeliverConfigMap, Resync, ManagerReady, Wobble, Crash
  <2>2. CASE \E k \in Kind : Serve(k) \/ GetsReady(k) \/ Gone(k) \/ NamespaceStops(k)
                             \/ NamespaceGone(k)
    BY <2>2 DEF Serve, GetsReady, Gone, NamespaceStops, NamespaceGone
  <2>3. CASE StartReconcile \/ Check \/ Emulate \/ SaveValues \/ DeleteNamespace
    BY <2>3 DEF StartReconcile, Check, Emulate, SetEmulation, SetEmulationFault, SaveValues,
                DeleteNamespace, FaultAgain
  <2>4. CASE UninstallStep
    BY <2>4 DEF UninstallStep, RemoveManager, RemoveCDI, Remove, AwaitGone, RemoveOperator,
                DeletesForEver, FaultAgain
  <2>5. CASE InstallStep
    BY <2>5 DEF InstallStep, ApplyOperator, ApplyResource, WaitReady, EmulateNew, SetEmulation,
                SetEmulationFault, Clean, CleanOperator, DeletesForEver, WaitCrd, ApplyManager, WaitManager,
                FaultAgain
  <2> QED
    BY <2>1, <2>2, <2>3, <2>4, <2>5 DEF Next, WorkerStep
<1>2. Fault => count' \in [{"fault", "crash"} -> Nat] /\ ~Undisturbed'
  BY FaultDisturbs
<1>3. Counted("crash", MaxCrashes) => count' \in [{"fault", "crash"} -> Nat] /\ ~Undisturbed'
  BY Disturbing
<1>4. UNCHANGED count => count' \in [{"fault", "crash"} -> Nat] /\ (Undisturbed' => Undisturbed)
  BY DEF TypeOK, Undisturbed
<1> QED
  BY <1>1, <1>2, <1>3, <1>4 DEF Crash

\* How a step of a pass moves the worker: on to a place of the same kind, or to the end.
Moves ==
    \/ pc' = "idle" /\ want' = NoWish /\ (queued' = queued \/ queued' = TRUE)
    \/ /\ pc # "idle" /\ pc' \in Step \ {"idle"}
       /\ UNCHANGED <<queued, want>>
       /\ pc' \in Installing => pc \in Installing \/ Enabled(want)
       /\ pc' \in {"saveOff", "removeManager"} => pc = "saveOff" \/ ~Enabled(want)

\* The steps of an installation go on only to steps of an installation, or to the end.
LEMMA InstallMoves == InstallStep => Moves /\ UNCHANGED <<wishes, seen>>
<1> USE DEF Moves, Again, GoTo, FaultAgain, Around, Step, Installing, BeforeCdi, InstallCdi
<1>1. CASE ApplyOperator("KubeVirt", "operator", "resource")
           \/ ApplyOperator("CDI", "cdiOperator", "cdiCrd")
  BY <1>1 DEF ApplyOperator
<1>2. CASE ApplyResource("KubeVirt", "resource", "wait")
           \/ ApplyResource("CDI", "cdiResource", "cdiWait")
  BY <1>2 DEF ApplyResource
<1>3. CASE WaitReady("KubeVirt", "wait", "emulateNew") \/ WaitReady("CDI", "cdiWait", "manager")
  BY <1>3 DEF WaitReady
<1>4. CASE EmulateNew
  BY <1>4 DEF EmulateNew, SetEmulation, SetEmulationFault
<1>5. CASE Clean \/ CleanOperator \/ WaitCrd \/ ApplyManager \/ WaitManager
  BY <1>5 DEF Clean, CleanOperator, DeletesForEver, WaitCrd, ApplyManager, WaitManager
<1> QED
  BY <1>1, <1>2, <1>3, <1>4, <1>5 DEF InstallStep

\* The other steps begin an installation or a removal only as the flag says.
LEMMA OtherMoves ==
    Check \/ Emulate \/ SaveValues \/ UninstallStep \/ DeleteNamespace
        => Moves /\ UNCHANGED <<wishes, seen>>
<1> USE DEF Moves, Again, GoTo, FaultAgain, Around, Step, Installing, BeforeCdi, InstallCdi
<1>1. CASE Check
  BY <1>1 DEF Check
<1>2. CASE Emulate
  BY <1>2 DEF Emulate, SetEmulation, SetEmulationFault
<1>3. CASE SaveValues
  BY <1>3 DEF SaveValues, Finish
<1>4. CASE UninstallStep
  BY <1>4 DEF UninstallStep, RemoveManager, RemoveCDI, Remove, AwaitGone, RemoveOperator,
              DeletesForEver
<1>5. CASE DeleteNamespace
  BY <1>5 DEF DeleteNamespace, Finish
<1> QED
  BY <1>1, <1>2, <1>3, <1>4, <1>5

\* Where the worker moves.
LEMMA Movement ==
    ASSUME Next
    PROVE  \/ UNCHANGED <<pc, want>>
           \/ /\ StartReconcile /\ HasWork
              /\ pc' = "check" /\ want' = wishes[seen]
           \/ Moves /\ UNCHANGED <<wishes, seen>>
           \/ Crash
<1>1. CASE ConfigMapChanges \/ DeliverConfigMap \/ Resync \/ ManagerReady \/ Wobble
  BY <1>1 DEF ConfigMapChanges, DeliverConfigMap, Resync, ManagerReady, Wobble
<1>2. CASE \E k \in Kind : Serve(k) \/ GetsReady(k) \/ Gone(k) \/ NamespaceStops(k)
                           \/ NamespaceGone(k)
  BY <1>2 DEF Serve, GetsReady, Gone, NamespaceStops, NamespaceGone
<1>3. CASE StartReconcile
  BY <1>3 DEF StartReconcile
<1> QED
  BY <1>1, <1>2, <1>3, InstallMoves, OtherMoves DEF Next, WorkerStep

\* Every step is one of those that FeatureWish knows.
LEMMA WishFrame ==
    ASSUME TypeOK, Next
    PROVE  WishNext
<1>0. queued \in BOOLEAN
  BY DEF TypeOK, WishTypeOK
<1>1. CASE ConfigMapChanges \/ DeliverConfigMap \/ Resync \/ Crash
  BY <1>1 DEF ConfigMapChanges, DeliverConfigMap, Resync, Crash, WishNext
<1>2. CASE ManagerReady \/ Wobble
  BY <1>0, <1>2 DEF ManagerReady, Wobble, WishNext, wishVars
<1>3. CASE \E k \in Kind : Serve(k) \/ GetsReady(k) \/ Gone(k) \/ NamespaceStops(k)
                           \/ NamespaceGone(k)
  BY <1>0, <1>3 DEF Serve, GetsReady, Gone, NamespaceStops, NamespaceGone, WishNext, wishVars
<1>4. CASE StartReconcile
  BY <1>0, <1>4 DEF StartReconcile, Around, Dismiss, WishNext
<1>5. CASE Moves /\ UNCHANGED <<wishes, seen>>
  BY <1>0, <1>5 DEF Moves, WishNext
<1> QED
  BY <1>1, <1>2, <1>3, <1>4, <1>5, InstallMoves, OtherMoves DEF Next, WorkerStep

(***************************************************************************)
(* Passes.                                                                 *)
(***************************************************************************)
PlaceType ==
    /\ pc \in Step
    /\ want \in Config \cup {NoWish}
    /\ pc = "idle" <=> want = NoWish

\* Where the worker is, its wish and its queue keep their types.
LEMMA PlaceStep ==
    ASSUME TypeOK, Next
    PROVE  PlaceType'
<1>0. PlaceType
  BY DEF TypeOK, PlaceType
<1>1. CASE StartReconcile /\ HasWork /\ pc' = "check" /\ want' = wishes[seen]
  <2>1. wishes[seen] \in Config
    BY <1>1, WorkIsShown DEF TypeOK
  <2> QED
    BY <1>1, <2>1, VirtAssumption DEF PlaceType, Step
<1>2. CASE UNCHANGED <<pc, want>>
  BY <1>0, <1>2 DEF PlaceType
<1>3. CASE Moves
  BY <1>0, <1>3 DEF Moves, PlaceType, Step
<1>4. CASE Crash
  BY <1>4 DEF Crash, PlaceType, Step
<1> QED
  BY <1>1, <1>2, <1>3, <1>4, Movement

\* A pass goes on for the version that it began with, and only to the steps of its flag.
LEMMA PassStep ==
    ASSUME TypeOK, PassOK, Next
    PROVE  PassOK'
<1>0. /\ want # NoWish => Managed(want) /\ Shown(want)
      /\ pc \in Installing => Enabled(want)
      /\ pc \in {"saveOff", "removeManager"} => ~Enabled(want)
  BY DEF PassOK
<1>1. Shown(want) => \E i \in 1..seen' : wishes'[i] = want
  BY WishFrame, ShownStays DEF TypeOK, Shown
<1>2. CASE StartReconcile /\ HasWork /\ pc' = "check" /\ want' = wishes[seen]
  <2>1. Managed(wishes[seen]) /\ Shown(wishes[seen]) /\ UNCHANGED <<wishes, seen>>
    BY <1>2, WorkIsShown DEF TypeOK, StartReconcile, Around
  <2> QED
    BY <1>2, <2>1 DEF PassOK, Shown, Managed, Installing, BeforeCdi, InstallCdi
<1>3. CASE UNCHANGED <<pc, want>>
  BY <1>0, <1>1, <1>3 DEF PassOK, Shown, Managed, Enabled
<1>4. CASE pc' = "idle" /\ want' = NoWish
  BY <1>4 DEF PassOK, Installing, BeforeCdi, InstallCdi
<1>5. CASE Moves
  BY <1>0, <1>1, <1>4, <1>5 DEF Moves, PassOK, Shown, Managed, Enabled
<1>6. CASE Crash
  BY <1>4, <1>6 DEF Crash
<1> QED
  BY <1>2, <1>3, <1>5, <1>6, Movement

(***************************************************************************)
(* Types of the cluster.                                                   *)
(***************************************************************************)
KindsOK ==
    /\ crd \in [Kind -> {"absent", "pending", "served", "removing"}]
    /\ operator \in [Kind -> BOOLEAN]
    /\ cr \in [Kind -> {"none", "starting", "ready", "deleting"}]
    /\ ns \in [Kind -> {"absent", "live", "terminating"}]
    /\ \A k \in Kind :
          /\ cr[k] # "none" => crd[k] \in {"served", "removing"}
          /\ crd[k] = "removing" => cr[k] = "deleting"

RestOK ==
    /\ mapped \subseteq Kind
    /\ manager \in {"none", "starting", "ready"}
    /\ emulation \in {"unset", "on", "off"}
    /\ values \in [enabled : BOOLEAN, emulation : Text] \cup {NoValues}

\* TypeOK in the groups of variables that the steps are examined for.
LEMMA TypeParts ==
    TypeOK <=> /\ WishTypeOK /\ PlaceType /\ KindsOK /\ RestOK
               /\ count \in [{"fault", "crash"} -> Nat]
BY DEF TypeOK, PlaceType, KindsOK, RestOK

\* The manifest of an operator adds to what there is.
LEMMA AppliedKinds ==
    ASSUME KindsOK, NEW k \in Kind,
           crd' \in {crd, Registered(k)}, ns' \in {ns, Opened(k)},
           operator' \in {operator, [operator EXCEPT ![k] = TRUE]}, cr' = cr
    PROVE  KindsOK'
BY DEF KindsOK, Registered, Opened

\* A deletion of a resource, and of its namespace.
LEMMA DeletedKinds ==
    ASSUME KindsOK, NEW k \in Kind,
           cr' \in {cr, MarkDeleted(k)}, ns' \in {ns, CloseNamespace(k)},
           UNCHANGED <<crd, operator>>
    PROVE  KindsOK'
BY DEF KindsOK, MarkDeleted, CloseNamespace

\* The operator goes, and its CRD with all resources.
LEMMA WithdrawnKinds ==
    ASSUME KindsOK, NEW k \in Kind, WithdrawOperator(k), ns' \in {ns, CloseNamespace(k)}
    PROVE  KindsOK'
BY DEF KindsOK, WithdrawOperator, MarkDeleted, CloseNamespace

\* A resource is created or replaced.
LEMMA CreatedKinds ==
    ASSUME KindsOK, NEW k \in Kind, CreateOrUpdate(k), UNCHANGED <<crd, operator, ns>>
    PROVE  KindsOK'
BY DEF KindsOK, CreateOrUpdate

\* An installation keeps the types of both kinds: it creates a resource only of a kind that
\* is served.
LEMMA InstallKinds ==
    ASSUME KindsOK, InstallStep
    PROVE  KindsOK'
<1>1. ASSUME NEW k \in Kind, NEW at, NEW next, ApplyOperator(k, at, next)
      PROVE  KindsOK'
  BY <1>1, AppliedKinds DEF ApplyOperator
<1>2. ASSUME NEW k \in Kind, NEW at, NEW next, ApplyResource(k, at, next)
      PROVE  KindsOK'
  <2>1. CASE CreateOrUpdate(k)
    BY <1>2, <2>1, CreatedKinds DEF ApplyResource
  <2>2. CASE UNCHANGED cr
    BY <1>2, <2>2 DEF ApplyResource, KindsOK
  <2> QED
    BY <1>2, <2>1, <2>2 DEF ApplyResource
<1>3. CASE Clean
  BY <1>3, DeletedKinds DEF Clean, Kind
<1>4. CASE CleanOperator
  <2>1. "CDI" \in Kind /\ ns' \in {ns, CloseNamespace("CDI")}
    BY <1>4 DEF CleanOperator, DeletesForEver, Kind
  <2>2. CASE WithdrawOperator("CDI")
    BY <2>1, <2>2, WithdrawnKinds
  <2>3. CASE UNCHANGED <<crd, operator>> /\ cr' \in {cr, MarkDeleted("CDI")}
    BY <2>1, <2>3, DeletedKinds
  <2> QED
    BY <1>4, <2>2, <2>3 DEF CleanOperator, DeletesForEver
<1>5. CASE UNCHANGED kinds
  BY <1>5 DEF kinds, KindsOK
<1>6. \/ \E k \in Kind, at \in Step, next \in Step :
            ApplyOperator(k, at, next) \/ ApplyResource(k, at, next)
      \/ Clean \/ CleanOperator \/ UNCHANGED kinds
  BY DEF InstallStep, WaitReady, EmulateNew, WaitCrd, ApplyManager, WaitManager, cluster, Kind,
         Step
<1> QED
  BY <1>1, <1>2, <1>3, <1>4, <1>5, <1>6

\* So does a removal: a kind that still has a resource goes only after it.
LEMMA UninstallKinds ==
    ASSUME KindsOK, UninstallStep \/ DeleteNamespace
    PROVE  KindsOK'
<1>0. "CDI" \in Kind /\ "KubeVirt" \in Kind
  BY DEF Kind
<1>1. ASSUME NEW k \in Kind, ns' \in {ns, CloseNamespace(k)},
             \/ WithdrawOperator(k)
             \/ cr' \in {cr, MarkDeleted(k)} /\ UNCHANGED <<crd, operator>>
      PROVE  KindsOK'
  BY <1>1, WithdrawnKinds, DeletedKinds
<1>2. CASE RemoveCDI
  BY <1>0, <1>1, <1>2 DEF RemoveCDI, DeletesForEver
<1>3. CASE Remove
  BY <1>0, <1>1, <1>3 DEF Remove
<1>4. CASE RemoveOperator
  BY <1>0, <1>1, <1>4 DEF RemoveOperator, DeletesForEver
<1>5. CASE DeleteNamespace
  BY <1>0, <1>1, <1>5 DEF DeleteNamespace
<1>6. CASE RemoveManager \/ AwaitGone
  BY <1>6 DEF RemoveManager, AwaitGone, cluster, kinds, KindsOK
<1> QED
  BY <1>2, <1>3, <1>4, <1>5, <1>6 DEF UninstallStep

\* So do the API server, the operators of the kinds and the namespace controller.
LEMMA ClusterKinds ==
    ASSUME KindsOK,
           NEW k \in Kind,
           Serve(k) \/ GetsReady(k) \/ Gone(k) \/ NamespaceStops(k) \/ NamespaceGone(k)
    PROVE  KindsOK'
<1>1. CASE Serve(k)
  BY <1>1 DEF Serve, KindsOK
<1>2. CASE GetsReady(k)
  BY <1>2 DEF GetsReady, KindsOK
<1>3. CASE Gone(k)
  BY <1>3 DEF Gone, KindsOK
<1>4. CASE NamespaceStops(k)
  BY <1>4 DEF NamespaceStops, KindsOK
<1>5. CASE NamespaceGone(k)
  BY <1>5 DEF NamespaceGone, KindsOK
<1> QED
  BY <1>1, <1>2, <1>3, <1>4, <1>5

\* Every step keeps the types of both kinds.
LEMMA KindsStep ==
    ASSUME KindsOK, Next
    PROVE  KindsOK'
<1>1. CASE UNCHANGED kinds
  BY <1>1 DEF kinds, KindsOK
<1>2. CASE ConfigMapChanges \/ DeliverConfigMap \/ Resync \/ ManagerReady \/ Crash
  BY <1>1, <1>2 DEF ConfigMapChanges, DeliverConfigMap, Resync, ManagerReady, Crash, cluster
<1>3. CASE StartReconcile \/ Check \/ Emulate \/ SaveValues
  BY <1>1, <1>3 DEF StartReconcile, Check, Emulate, SaveValues, cluster
<1>4. CASE Wobble
  BY <1>4 DEF Wobble, KindsOK
<1> QED
  BY <1>2, <1>3, <1>4, InstallKinds, UninstallKinds, ClusterKinds DEF Next, WorkerStep

\* The client, KubeVirt Manager, the emulation setting and virt-values keep their types.
LEMMA RestStep ==
    ASSUME TypeOK, Next
    PROVE  RestOK'
<1>0. RestOK
  BY TypeParts
<1>1. mapped' \subseteq Kind
  <2>1. ASSUME NEW ks, Finds(ks), ks \subseteq Kind PROVE mapped' \subseteq Kind
    BY <1>0, <2>1 DEF Finds, RestOK
  <2>2. CASE UNCHANGED mapped
    BY <1>0, <2>2 DEF RestOK
  <2>3. CASE Crash
    BY <2>3 DEF Crash
  <2>4. \/ UNCHANGED mapped \/ Crash
        \/ \E ks \in SUBSET Kind : Finds(ks)
    <3>1. CASE ConfigMapChanges \/ DeliverConfigMap \/ Resync \/ ManagerReady \/ Wobble
      BY <3>1 DEF ConfigMapChanges, DeliverConfigMap, Resync, ManagerReady, Wobble
    <3>2. CASE \E k \in Kind : Serve(k) \/ GetsReady(k) \/ Gone(k) \/ NamespaceStops(k)
                               \/ NamespaceGone(k)
      BY <3>2 DEF Serve, GetsReady, Gone, NamespaceStops, NamespaceGone
    <3>3. CASE StartReconcile \/ Check \/ Emulate \/ SaveValues \/ DeleteNamespace
      BY <3>3 DEF StartReconcile, Check, Emulate, SaveValues, DeleteNamespace, Kind
    <3>4. CASE UninstallStep
      BY <3>4 DEF UninstallStep, RemoveManager, RemoveCDI, Remove, AwaitGone, RemoveOperator,
                  Kind
    <3>5. CASE InstallStep
      BY <3>5 DEF InstallStep, ApplyOperator, ApplyResource, WaitReady, EmulateNew, Clean,
                  CleanOperator, WaitCrd, ApplyManager, WaitManager, Kind
    <3> QED
      BY <3>1, <3>2, <3>3, <3>4, <3>5 DEF Next, WorkerStep
  <2> QED
    BY <2>1, <2>2, <2>3, <2>4
<1>2. manager' \in {"none", "starting", "ready"}
  <2>1. \/ UNCHANGED manager
        \/ manager' \in {"none", "starting", "ready"}
    <3>1. CASE ConfigMapChanges \/ DeliverConfigMap \/ Resync \/ ManagerReady \/ Wobble \/ Crash
      BY <3>1 DEF ConfigMapChanges, DeliverConfigMap, Resync, ManagerReady, Wobble, Crash,
                  cluster
    <3>2. CASE \E k \in Kind : Serve(k) \/ GetsReady(k) \/ Gone(k) \/ NamespaceStops(k)
                               \/ NamespaceGone(k)
      BY <3>2 DEF Serve, GetsReady, Gone, NamespaceStops, NamespaceGone
    <3>3. CASE StartReconcile \/ Check \/ Emulate \/ SaveValues \/ DeleteNamespace
      BY <3>3 DEF StartReconcile, Check, Emulate, SaveValues, DeleteNamespace, cluster
    <3>4. CASE UninstallStep
      BY <3>4 DEF UninstallStep, RemoveManager, RemoveCDI, Remove, AwaitGone, RemoveOperator,
                  cluster
    <3>5. CASE InstallStep
      BY <3>5 DEF InstallStep, ApplyOperator, ApplyResource, WaitReady, EmulateNew, Clean,
                  CleanOperator, WaitCrd, ApplyManager, WaitManager, cluster
    <3> QED
      BY <3>1, <3>2, <3>3, <3>4, <3>5 DEF Next, WorkerStep
  <2> QED
    BY <1>0, <2>1 DEF RestOK
<1>3. emulation' \in {"unset", "on", "off"}
  <2>1. emulation' \in {emulation, "unset", "on", "off"}
    <3>1. CASE ConfigMapChanges \/ DeliverConfigMap \/ Resync \/ ManagerReady \/ Wobble \/ Crash
      BY <3>1 DEF ConfigMapChanges, DeliverConfigMap, Resync, ManagerReady, Wobble, Crash,
                  cluster
    <3>2. CASE \E k \in Kind : Serve(k) \/ GetsReady(k) \/ Gone(k) \/ NamespaceStops(k)
                               \/ NamespaceGone(k)
      BY <3>2 DEF Serve, GetsReady, Gone, NamespaceStops, NamespaceGone
    <3>3. CASE StartReconcile \/ Check \/ SaveValues \/ DeleteNamespace
      BY <3>3 DEF StartReconcile, Check, SaveValues, DeleteNamespace, cluster
    <3>4. CASE UninstallStep
      BY <3>4 DEF UninstallStep, RemoveManager, RemoveCDI, Remove, AwaitGone, RemoveOperator,
                  cluster
    <3>5. CASE Emulate \/ EmulateNew
      BY <3>5 DEF Emulate, EmulateNew, SetEmulation, SetEmulationFault, UpdateEmulation
    <3>6. ASSUME NEW k \in Kind, NEW at, NEW next, ApplyResource(k, at, next)
          PROVE  emulation' \in {emulation, "unset"}
      BY <3>6 DEF ApplyResource, CreateOrUpdate
    <3>7. CASE InstallStep
      <4>1. "CDI" \in Kind /\ "KubeVirt" \in Kind
        BY DEF Kind
      <4> QED
        BY <3>5, <3>6, <3>7, <4>1
           DEF InstallStep, ApplyOperator, WaitReady, Clean, CleanOperator, WaitCrd,
               ApplyManager, WaitManager, cluster
    <3> QED
      BY <3>1, <3>2, <3>3, <3>4, <3>5, <3>7 DEF Next, WorkerStep
  <2> QED
    BY <1>0, <2>1 DEF RestOK
<1>4. values' \in [enabled : BOOLEAN, emulation : Text] \cup {NoValues}
  <2>1. CASE SaveValues
    <3>1. want \in Config
      BY <2>1 DEF SaveValues, TypeOK
    <3>2. Saving \in [enabled : BOOLEAN, emulation : Text]
      BY <3>1 DEF Saving, Enabled, IsEnabled, Config
    <3> QED
      BY <1>0, <2>1, <3>2 DEF SaveValues, RestOK
  <2>2. CASE UNCHANGED values
    BY <1>0, <2>2 DEF RestOK
  <2>3. SaveValues \/ UNCHANGED values
    <3>1. CASE ConfigMapChanges \/ DeliverConfigMap \/ Resync \/ ManagerReady \/ Wobble \/ Crash
      BY <3>1 DEF ConfigMapChanges, DeliverConfigMap, Resync, ManagerReady, Wobble, Crash
    <3>2. CASE \E k \in Kind : Serve(k) \/ GetsReady(k) \/ Gone(k) \/ NamespaceStops(k)
                               \/ NamespaceGone(k)
      BY <3>2 DEF Serve, GetsReady, Gone, NamespaceStops, NamespaceGone
    <3>3. CASE StartReconcile \/ Check \/ Emulate \/ DeleteNamespace
      BY <3>3 DEF StartReconcile, Check, Emulate, DeleteNamespace
    <3>4. CASE UninstallStep
      BY <3>4 DEF UninstallStep, RemoveManager, RemoveCDI, Remove, AwaitGone, RemoveOperator
    <3>5. CASE InstallStep
      BY <3>5 DEF InstallStep, ApplyOperator, ApplyResource, WaitReady, EmulateNew, Clean,
                  CleanOperator, WaitCrd, ApplyManager, WaitManager
    <3> QED
      BY <3>1, <3>2, <3>3, <3>4, <3>5 DEF Next, WorkerStep
  <2> QED
    BY <2>1, <2>2, <2>3
<1> QED
  BY <1>1, <1>2, <1>3, <1>4 DEF RestOK

\* Every step keeps the types.
LEMMA TypeStep ==
    ASSUME TypeOK, Next
    PROVE  TypeOK'
<1>1. WishTypeOK' /\ PlaceType' /\ count' \in [{"fault", "crash"} -> Nat]
  BY WishFrame, WishStep, PlaceStep, CountStep DEF TypeOK
<1>2. KindsOK' /\ RestOK'
  BY TypeParts, KindsStep, RestStep
<1> QED
  BY <1>1, <1>2 DEF TypeOK, PlaceType, KindsOK, RestOK

(***************************************************************************)
(* Executions in which nothing failed.                                     *)
(***************************************************************************)

\* The facts of Settled about the manager and the two resources, at each place.
LEMMA SettledFacts ==
    ASSUME TypeOK, Settled
    PROVE  /\ manager \in {"none", "starting", "ready"}
           /\ cr \in [Kind -> {"none", "starting", "ready", "deleting"}]
           /\ Kind = {"KubeVirt", "CDI"}
           /\ manager # "none" => cr["KubeVirt"] = "ready" /\ cr["CDI"] = "ready"
BY DEF TypeOK, Settled, Kind

\* Places that Settled says nothing about.
Elsewhere == {"idle", "check", "emulate", "save", "saveOff", "removeManager"}

\* A step to one of them keeps Settled if it changes no resource and starts no manager.
LEMMA SettledElsewhere ==
    ASSUME Settled, pc' \in Elsewhere, UNCHANGED cr,
           manager' = "none" \/ (manager' = manager /\ manager # "starting")
    PROVE  Settled'
BY DEF Settled, Elsewhere, BeforeCdi, InstallCdi, Removing

\* Places at which KubeVirt Manager is not there.
LEMMA SettledWithoutManager ==
    ASSUME pc' \in Step \ {"endless", "manager", "managerWait"},
           manager' = "none",
           pc' \in {"emulateNew", "clean", "cleanOperator"} \cup InstallCdi
               => cr'["KubeVirt"] = "ready"
    PROVE  Settled'
BY DEF Settled

\* An installation starts the manager when both resources are ready, and goes on only then.
LEMMA InstallSettled ==
    ASSUME TypeOK, Settled, InstallStep, ~Fault
    PROVE  Settled'
<1> USE DEF Step, BeforeCdi, InstallCdi, Removing, GoTo, Again, FaultAgain
<1>0. /\ manager \in {"none", "starting", "ready"}
      /\ cr \in [Kind -> {"none", "starting", "ready", "deleting"}]
      /\ Kind = {"KubeVirt", "CDI"}
      /\ manager # "none" => cr["KubeVirt"] = "ready" /\ cr["CDI"] = "ready"
  BY SettledFacts
<1>1. /\ pc \in BeforeCdi \cup InstallCdi \cup {"manager"} => manager = "none"
      /\ pc \in {"emulateNew", "clean", "cleanOperator", "manager"} \cup InstallCdi
            => cr["KubeVirt"] = "ready"
      /\ pc = "manager" => cr["CDI"] = "ready"
  BY DEF Settled
<1>2. CASE ApplyOperator("KubeVirt", "operator", "resource")
           \/ ApplyOperator("CDI", "cdiOperator", "cdiCrd")
  BY <1>1, <1>2, SettledWithoutManager DEF ApplyOperator
<1>3. CASE ApplyResource("KubeVirt", "resource", "wait")
  BY <1>1, <1>3, SettledWithoutManager DEF ApplyResource
<1>4. CASE ApplyResource("CDI", "cdiResource", "cdiWait")
  <2>1. cr'["KubeVirt"] = cr["KubeVirt"]
    BY <1>0, <1>4 DEF ApplyResource, CreateOrUpdate
  <2> QED
    BY <1>1, <1>4, <2>1, SettledWithoutManager DEF ApplyResource
<1>5. CASE WaitReady("KubeVirt", "wait", "emulateNew")
  BY <1>1, <1>5, SettledWithoutManager DEF WaitReady, cluster, kinds
<1>6. CASE WaitReady("CDI", "cdiWait", "manager")
  <2>1. manager' = "none" /\ cr' = cr /\ cr["KubeVirt"] = "ready"
    BY <1>1, <1>6 DEF WaitReady, cluster, kinds
  <2>2. pc' = "idle" \/ (pc' = "manager" /\ cr["CDI"] = "ready")
    BY <1>6 DEF WaitReady
  <2> QED
    BY <2>1, <2>2 DEF Settled
<1>7. CASE EmulateNew
  BY <1>1, <1>7, SettledWithoutManager DEF EmulateNew, SetEmulation, SetEmulationFault, kinds
<1>8. CASE Clean
  <2>1. cr'["KubeVirt"] = cr["KubeVirt"]
    BY <1>0, <1>8 DEF Clean, MarkDeleted
  <2> QED
    BY <1>1, <1>8, <2>1, SettledWithoutManager DEF Clean
<1>9. CASE CleanOperator
  <2>1. cr'["KubeVirt"] = cr["KubeVirt"]
    BY <1>0, <1>9 DEF CleanOperator, WithdrawOperator, DeletesForEver, MarkDeleted
  <2> QED
    BY <1>1, <1>9, <2>1, SettledWithoutManager DEF CleanOperator, DeletesForEver
<1>10. CASE WaitCrd
  BY <1>1, <1>10, SettledWithoutManager DEF WaitCrd, cluster, kinds
<1>11. CASE ApplyManager
  <2>1. manager' = "starting" /\ pc' = "managerWait" /\ cr' = cr
    BY <1>11 DEF ApplyManager, kinds
  <2>2. cr["KubeVirt"] = "ready" /\ cr["CDI"] = "ready"
    BY <1>1, <1>11 DEF ApplyManager
  <2> QED
    BY <1>0, <2>1, <2>2 DEF Settled
<1>12. CASE WaitManager
  <2>1. manager = "ready" /\ manager' = manager /\ cr' = cr /\ pc' = "idle"
    BY <1>12 DEF WaitManager, cluster, kinds
  <2> QED
    BY <2>1, SettledElsewhere DEF Elsewhere
<1> QED
  BY <1>2, <1>3, <1>4, <1>5, <1>6, <1>7, <1>8, <1>9, <1>10, <1>11, <1>12 DEF InstallStep

\* A removal takes the manager first, and touches the resources only afterwards.
LEMMA UninstallSettled ==
    ASSUME TypeOK, Settled, UninstallStep \/ DeleteNamespace, ~Fault
    PROVE  Settled'
<1> USE DEF Step, BeforeCdi, InstallCdi, Removing, GoTo, Again, FaultAgain
<1>1. pc \in {"namespace"} \cup Removing => manager = "none"
  BY DEF Settled
<1>2. CASE RemoveManager
  BY <1>2, SettledWithoutManager DEF RemoveManager
<1>3. CASE RemoveCDI
  BY <1>1, <1>3, SettledWithoutManager DEF RemoveCDI, DeletesForEver
<1>4. CASE Remove
  BY <1>1, <1>4, SettledWithoutManager DEF Remove
<1>5. CASE AwaitGone
  BY <1>1, <1>5, SettledWithoutManager DEF AwaitGone, cluster
<1>6. CASE RemoveOperator
  BY <1>1, <1>6, SettledWithoutManager DEF RemoveOperator, DeletesForEver
<1>7. CASE DeleteNamespace
  BY <1>1, <1>7, SettledWithoutManager DEF DeleteNamespace, Finish
<1> QED
  BY <1>2, <1>3, <1>4, <1>5, <1>6, <1>7 DEF UninstallStep

\* Every step of the worker keeps Settled, unless it fails.
LEMMA WorkerSettled ==
    ASSUME TypeOK, Settled, WorkerStep, ~Fault
    PROVE  Settled'
<1>0. manager \in {"none", "starting", "ready"} /\ (manager = "starting" => pc = "managerWait")
  BY SettledFacts DEF Settled
<1>1. CASE StartReconcile
  <2>1. pc' \in {"idle", "check"} /\ UNCHANGED <<cr, manager>> /\ manager # "starting"
    BY <1>0, <1>1 DEF StartReconcile, cluster, kinds
  <2> QED
    BY <2>1, SettledElsewhere DEF Elsewhere
<1>2. CASE Check
  <2>1. UNCHANGED <<cr, manager>> /\ manager # "starting"
    BY <1>0, <1>2 DEF Check, cluster, kinds
  <2>2. CASE pc' \in {"emulate", "saveOff", "idle"}
    BY <2>1, <2>2, SettledElsewhere DEF Elsewhere
  <2>3. CASE ~AllReady /\ pc' \in {"operator", "namespace"}
    <3>1. manager = "none"
      BY <1>0, <2>1, <2>3, SettledFacts DEF AllReady
    <3> QED
      BY <2>1, <2>3, <3>1, SettledWithoutManager DEF Step, InstallCdi
  <2> QED
    BY <1>2, <2>2, <2>3 DEF Check, GoTo, Again, FaultAgain
<1>3. CASE Emulate \/ SaveValues
  <2>1. /\ pc' \in {"idle", "save", "removeManager"} /\ UNCHANGED <<cr, manager>>
        /\ manager # "starting"
    BY <1>0, <1>3 DEF Emulate, SetEmulation, SetEmulationFault, SaveValues, Finish, GoTo,
                      Again, FaultAgain, cluster, kinds
  <2> QED
    BY <2>1, SettledElsewhere DEF Elsewhere
<1> QED
  BY <1>1, <1>2, <1>3, InstallSettled, UninstallSettled DEF WorkerStep

\* The cluster makes things ready, and completes only deletions that the worker began.
LEMMA ClusterSettled ==
    ASSUME TypeOK, Settled, UNCHANGED pc,
           \/ UNCHANGED <<cr, manager>>
           \/ \E k \in Kind : GetsReady(k) \/ Gone(k)
           \/ ManagerReady
    PROVE  Settled'
<1>0. /\ cr \in [Kind -> {"none", "starting", "ready", "deleting"}]
      /\ Kind = {"KubeVirt", "CDI"}
  BY SettledFacts
<1>1. CASE UNCHANGED <<cr, manager>>
  BY <1>1 DEF Settled
<1>2. CASE \E k \in Kind : GetsReady(k) \/ Gone(k)
  <2>1. PICK k \in Kind : GetsReady(k) \/ Gone(k)
    BY <1>2
  <2>2. /\ manager' = manager
        /\ \A d \in Kind : cr[d] = "ready" => cr'[d] = "ready"
    BY <1>0, <2>1 DEF GetsReady, Gone
  <2> QED
    BY <1>0, <2>2 DEF Settled
<1>3. CASE ManagerReady
  BY <1>3 DEF ManagerReady, Settled, kinds, BeforeCdi, InstallCdi, Removing
<1> QED
  BY <1>1, <1>2, <1>3

\* As long as nothing failed every step keeps Settled.
LEMMA SettledStep ==
    ASSUME IInv, Next
    PROVE  SettledOK'
<1> SUFFICES ASSUME Undisturbed' PROVE Settled'
  BY DEF SettledOK
<1>0. TypeOK /\ Settled /\ ~Fault /\ ~Crash
  BY CountStep DEF IInv, SettledOK
<1>1. CASE ConfigMapChanges \/ DeliverConfigMap \/ Resync
  BY <1>0, <1>1, ClusterSettled
     DEF ConfigMapChanges, DeliverConfigMap, Resync, cluster, kinds
<1>2. CASE \E k \in Kind : Serve(k) \/ GetsReady(k) \/ Gone(k) \/ NamespaceStops(k)
                           \/ NamespaceGone(k)
  BY <1>0, <1>2, ClusterSettled DEF Serve, GetsReady, Gone, NamespaceStops, NamespaceGone
<1>3. CASE ManagerReady
  BY <1>0, <1>3, ClusterSettled DEF ManagerReady
<1>4. ~Wobble
  BY <1>0 DEF Wobble
<1> QED
  BY <1>0, <1>1, <1>2, <1>3, <1>4, WorkerSettled DEF Next

(***************************************************************************)
(* The invariant and what follows from it.                                 *)
(***************************************************************************)
LEMMA InitOK == Init => IInv
<1> SUFFICES ASSUME Init PROVE IInv
  OBVIOUS
<1>1. pc = "idle" /\ want = NoWish /\ mapped = {} /\ WishInit /\ values = NoValues
      /\ emulation = "unset" /\ count = [e \in {"fault", "crash"} |-> 0]
  BY DEF Init
<1>2. PICK there \in BOOLEAN :
         /\ crd = [k \in Kind |-> IF there THEN "served" ELSE "absent"]
         /\ operator = [k \in Kind |-> there]
         /\ cr = [k \in Kind |-> IF there THEN "ready" ELSE "none"]
         /\ ns = [k \in Kind |-> IF there THEN "live" ELSE "absent"]
         /\ manager = IF there THEN "ready" ELSE "none"
  BY DEF Init
<1>3. KindsOK
  BY <1>2 DEF KindsOK
<1>4. RestOK
  BY <1>1, <1>2 DEF RestOK
<1>5. TypeOK
  BY <1>1, <1>3, <1>4, WishInitType, TypeParts DEF PlaceType, Step
<1>6. PassOK
  BY <1>1 DEF PassOK, Installing, BeforeCdi, InstallCdi
<1>7. SettledOK
  BY <1>1, <1>2 DEF SettledOK, Settled, BeforeCdi, InstallCdi, Removing
<1> QED
  BY <1>5, <1>6, <1>7 DEF IInv

\* A step that changes no variable keeps it.
LEMMA StutterInvariant == IInv /\ UNCHANGED vars => IInv'
<1> SUFFICES ASSUME IInv, UNCHANGED vars PROVE IInv'
  OBVIOUS
<1>1. UNCHANGED <<wishes, seen, queued, pc, want, mapped, crd, operator, cr, ns, manager,
                  emulation, values, count>>
  BY DEF vars, wishVars, cluster, kinds
<1>2. TypeOK'
  BY <1>1 DEF IInv, TypeOK, WishTypeOK
<1>3. PassOK' /\ SettledOK'
  BY <1>1 DEF IInv, PassOK, Managed, Shown, Enabled, SettledOK, Settled, Undisturbed
<1> QED
  BY <1>2, <1>3 DEF IInv

\* Every step of the worker, of people, of the informers and of the cluster keeps the
\* inductive invariant.
THEOREM Invariant == Spec => []IInv
<1>1. IInv /\ [Next]_vars => IInv'
  <2>1. CASE UNCHANGED vars
    BY <2>1, StutterInvariant
  <2>2. CASE Next
    BY <2>2, TypeStep, PassStep, SettledStep DEF IInv
  <2> QED
    BY <2>1, <2>2
<1> QED
  BY <1>1, InitOK, PTL DEF Spec

\* The variables keep their types; in particular no custom resource outlives its kind,
\* and a kind that is being removed has a resource that keeps it.
THEOREM TypeCorrect == Spec => []TypeOK
BY Invariant, PTL DEF IInv

\* An operator comes only with a manifest that a pass applied.
LEMMA OperatorWrites ==
    ASSUME TypeOK, Next, NEW k \in Kind, ~operator[k], operator'[k]
    PROVE  pc \in Installing
<1>0. operator \in [Kind -> BOOLEAN]
  BY DEF TypeOK
<1>1. ~UNCHANGED operator
  OBVIOUS
<1>2. \A d \in Kind : ~WithdrawOperator(d)
  BY <1>0 DEF WithdrawOperator
<1>3. CASE ConfigMapChanges \/ DeliverConfigMap \/ Resync \/ ManagerReady \/ Wobble \/ Crash
  BY <1>1, <1>3 DEF ConfigMapChanges, DeliverConfigMap, Resync, ManagerReady, Wobble, Crash,
                    cluster, kinds
<1>4. CASE \E d \in Kind : Serve(d) \/ GetsReady(d) \/ Gone(d) \/ NamespaceStops(d)
                           \/ NamespaceGone(d)
  BY <1>0, <1>4 DEF Serve, GetsReady, Gone, NamespaceStops, NamespaceGone
<1>5. CASE StartReconcile \/ Check \/ Emulate \/ SaveValues \/ DeleteNamespace
  BY <1>1, <1>5 DEF StartReconcile, Check, Emulate, SaveValues, DeleteNamespace, cluster, kinds
<1>6. CASE UninstallStep
  BY <1>1, <1>2, <1>6 DEF UninstallStep, RemoveManager, RemoveCDI, Remove, AwaitGone,
                          RemoveOperator, DeletesForEver, cluster, kinds, Kind
<1>7. CASE InstallStep
  BY <1>7 DEF InstallStep, ApplyOperator, ApplyResource, WaitReady, EmulateNew, Clean,
              CleanOperator, WaitCrd, ApplyManager, WaitManager, Installing, BeforeCdi,
              InstallCdi
<1> QED
  BY <1>3, <1>4, <1>5, <1>6, <1>7 DEF Next, WorkerStep

\* InstallVirtComponents installs an operator only for a wish that the cache has shown.
THEOREM OnlyWished == Spec => InstallsOnlyWhatWasWished
<1>1. ASSUME IInv, [Next]_vars
      PROVE  [\A k \in Kind : ~operator[k] /\ operator'[k] =>
                 \E i \in 1..seen : Wanted(wishes[i])]_<<operator, wishes, seen>>
  <2>1. CASE UNCHANGED vars
    BY <2>1 DEF vars, wishVars, cluster, kinds
  <2>2. ASSUME Next, NEW k \in Kind, ~operator[k], operator'[k]
        PROVE  \E i \in 1..seen : Wanted(wishes[i])
    <3>1. TypeOK /\ PassOK /\ pc \in Installing
      BY <1>1, <2>2, OperatorWrites DEF IInv
    <3>2. want # NoWish /\ Managed(want) /\ Shown(want) /\ Enabled(want)
      BY <3>1 DEF TypeOK, PassOK, Installing, BeforeCdi, InstallCdi
    <3> QED
      BY <3>2 DEF Shown, Wanted
  <2> QED
    BY <1>1, <2>1, <2>2
<1> QED
  BY <1>1, Invariant, PTL DEF Spec, InstallsOnlyWhatWasWished

\* Unless something fails, a set that is ready stays so in every step but that of a
\* pass that removes it.
THEOREM HealthyIsSafe == Spec => HealthyLeftAlone
<1>1. ASSUME IInv, [Next]_vars
      PROVE  [Undisturbed' /\ AllReady /\ ~Unwanted(want) => AllReady']_<<cluster, count>>
  <2>1. CASE UNCHANGED vars
    BY <2>1 DEF vars
  <2>2. ASSUME Next, Undisturbed', AllReady, ~Unwanted(want)
        PROVE  AllReady'
    <3>1. TypeOK /\ PassOK /\ Settled /\ Settled' /\ ~Fault
      BY <1>1, <2>2, CountStep, SettledStep DEF IInv, SettledOK
    <3>2. pc # "removeManager" /\ manager = "ready"
      BY <2>2, <3>1 DEF PassOK, Unwanted, TypeOK, AllReady
    <3>3. pc # "manager"
      BY <3>1, <3>2 DEF Settled
    <3>4. manager' = manager
      <4>1. CASE ConfigMapChanges \/ DeliverConfigMap \/ Resync \/ ManagerReady \/ Wobble \/ Crash
        BY <3>1, <3>2, <4>1 DEF ConfigMapChanges, DeliverConfigMap, Resync, ManagerReady, Wobble,
                                Crash, cluster
      <4>2. CASE \E k \in Kind : Serve(k) \/ GetsReady(k) \/ Gone(k) \/ NamespaceStops(k)
                                 \/ NamespaceGone(k)
        BY <4>2 DEF Serve, GetsReady, Gone, NamespaceStops, NamespaceGone
      <4>3. CASE StartReconcile \/ Check \/ Emulate \/ SaveValues \/ DeleteNamespace
        BY <4>3 DEF StartReconcile, Check, Emulate, SaveValues, DeleteNamespace, cluster
      <4>4. CASE UninstallStep
        BY <3>2, <4>4 DEF UninstallStep, RemoveManager, RemoveCDI, Remove, AwaitGone,
                          RemoveOperator, cluster
      <4>5. CASE InstallStep
        BY <3>3, <4>5 DEF InstallStep, ApplyOperator, ApplyResource, WaitReady, EmulateNew, Clean,
                          CleanOperator, WaitCrd, ApplyManager, WaitManager, cluster
      <4> QED
        BY <2>2, <4>1, <4>2, <4>3, <4>4, <4>5 DEF Next, WorkerStep
    <3> QED
      BY <3>1, <3>2, <3>4 DEF Settled, AllReady, Kind
  <2> QED
    BY <1>1, <2>1, <2>2
<1> QED
  BY <1>1, Invariant, PTL DEF Spec, HealthyLeftAlone

================================================================================
