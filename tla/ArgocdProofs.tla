------------------------------ MODULE ArgocdProofs ------------------------------
(***************************************************************************)
(* The safety properties of Argocd hold for any number of calls, versions  *)
(* of the ConfigMap, faults and restarts: although a command may act long  *)
(* after the pass that started it, it can only do what was wished once.    *)
(***************************************************************************)
EXTENDS Argocd, FeatureWishProofs

(***************************************************************************)
(* The inductive invariant.                                                *)
(***************************************************************************)

\* A pass works on a Config that the cache has shown, and installs only what that
\* Config enables; the command that it waits for is the one of its step.
PassOK ==
    /\ pc = "idle" <=> want = NoWish
    /\ want # NoWish => Managed(want) /\ Shown(want)
    /\ pc \in {"host", "install"} => Enabled(want)
    /\ call # NoCall => pc \in CommandStep /\ command[call].run = pc

\* Every command that runs, awaited or not, is one of a pass; every installation was
\* wished.
CommandsOK ==
    \A c \in Call :
        /\ running[c] => command[c].run # "none"
        /\ command[c].run = "install" => Wished(command[c].version)

\* The command at hand has acted.
HasActed == call # NoCall /\ acted[call] > 0

\* As long as nothing failed, no command runs but the one that the worker waits for,
\* and what helm answered is still true.
Alone ==
    /\ \A c \in Call : running[c] => call = c
    /\ pc = "host" => release.status = "none"
    /\ pc = "install" /\ ~HasActed => release.status = "none"
    /\ pc = "namespace" => release = NoRelease
    /\ pc = "status" /\ HasActed /\ ~good[call] => release.status = "none"
    /\ pc = "uninstall" /\ HasActed /\ good[call] => release = NoRelease

AloneOK == Undisturbed => Alone

IInv == TypeOK /\ PassOK /\ CommandsOK /\ AloneOK /\ NamespaceOutlivesRelease

(***************************************************************************)
(* What single steps do.                                                   *)
(***************************************************************************)

\* The version that a Config asks for.
LEMMA VersionType == \A w \in Config : VersionOf(w) \in Text
BY ArgocdAssumption, WishAssumption DEF VersionOf, Config

\* The call at hand.
LEMMA CallAtHand ==
    ASSUME TypeOK, PassOK, call # NoCall
    PROVE  /\ call \in Call /\ stage[call] \in Awaited
           /\ pc \in CommandStep /\ command[call].run = pc
           /\ want \in Config
           /\ \A c \in Call : stage[c] \in Awaited => c = call
<1>1. call \in Call /\ \A c \in Call : stage[c] \in Awaited <=> call = c
  BY DEF TypeOK
<1>2. pc \in CommandStep /\ command[call].run = pc
  BY DEF PassOK
<1>3. pc # "idle" /\ want \in Config
  BY <1>2 DEF CommandStep, PassOK, TypeOK
<1> QED
  BY <1>1, <1>2, <1>3

\* Where a pass goes after a command.
LEMMA AfterOkIs ==
    ASSUME pc \in CommandStep, AfterOk
    PROVE  /\ call' = NoCall /\ UNCHANGED <<queued, want>>
           /\ \/ pc = "status" /\ pc' \in {"save", "uninstall"}
              \/ pc = "host" /\ pc' = "install"
              \/ pc = "install" /\ pc' = "save"
              \/ pc = "uninstall" /\ pc' = "namespace"
<1>1. CASE pc = "status"
  BY <1>1 DEF AfterOk, GoTo
<1>2. CASE pc = "host"
  BY <1>2 DEF AfterOk, GoTo
<1>3. CASE pc = "install"
  BY <1>3 DEF AfterOk, GoTo
<1>4. CASE pc = "uninstall"
  BY <1>4 DEF AfterOk, GoTo
<1> QED
  BY <1>1, <1>2, <1>3, <1>4 DEF CommandStep

\* What a pass does after an error: after "helm status" it goes on, otherwise it ends.
LEMMA AfterErrorIs ==
    ASSUME AfterError
    PROVE  /\ call' = NoCall
           /\ \/ /\ pc = "status" /\ UNCHANGED <<queued, want>>
                 /\ pc' = "save" \/ (pc' = "host" /\ Enabled(want))
              \/ pc # "status" /\ Retry
BY DEF AfterError, Retry, GoTo

\* A fault or a restart ends the time in which nothing failed.
LEMMA Disturbing ==
    ASSUME TypeOK, NEW e \in {"fault", "crash"}, NEW max, Counted(e, max)
    PROVE  count' \in [{"fault", "crash"} -> Nat] /\ ~Undisturbed'
<1>1. count \in [{"fault", "crash"} -> Nat] /\ count' = [count EXCEPT ![e] = @ + 1]
  BY DEF TypeOK, Counted
<1>2. count'[e] = count[e] + 1 /\ count[e] \in Nat
  BY <1>1
<1> QED
  BY <1>1, <1>2 DEF Undisturbed

\* A fault counts, so that the execution is disturbed from then on.
LEMMA FaultDisturbs ==
    ASSUME TypeOK, Fault
    PROVE  count' \in [{"fault", "crash"} -> Nat] /\ ~Undisturbed'
BY Disturbing DEF Fault

\* Every step but a fault and a restart leaves the count alone.
LEMMA CountStep ==
    ASSUME TypeOK, Next
    PROVE  /\ count' \in [{"fault", "crash"} -> Nat]
           /\ Undisturbed' => Undisturbed /\ ~Fault /\ ~Crash /\ UNCHANGED count
<1>1. UNCHANGED count \/ Fault \/ Counted("crash", MaxCrashes)
  <2>1. CASE ConfigMapChanges \/ DeliverConfigMap \/ Resync \/ DeliverValues \/ NamespaceGone
    BY <2>1 DEF ConfigMapChanges, DeliverConfigMap, Resync, DeliverValues, NamespaceGone
  <2>2. CASE StartReconcile \/ MakeCall
    BY <2>2 DEF StartReconcile, MakeCall
  <2>3. CASE CallOk \/ CallError
    BY <2>3 DEF CallOk, CallError
  <2>4. CASE DeleteNamespace \/ SaveValues
    BY <2>4 DEF DeleteNamespace, SaveValues
  <2>5. CASE Crash
    BY <2>5 DEF Crash
  <2>6. CASE \E c \in Call : JobStarts(c) \/ CommandActs(c) \/ JobEnds(c) \/ CommandActsAgain(c)
    BY <2>6 DEF JobStarts, CommandActs, JobEnds, CommandActsAgain, Breaks
  <2> QED
    BY <2>1, <2>2, <2>3, <2>4, <2>5, <2>6 DEF Next, WorkerStep, JobStep
<1>2. Fault => count' \in [{"fault", "crash"} -> Nat] /\ ~Undisturbed'
  BY FaultDisturbs
<1>3. Counted("crash", MaxCrashes) => count' \in [{"fault", "crash"} -> Nat] /\ ~Undisturbed'
  BY Disturbing
<1>4. UNCHANGED count => count' \in [{"fault", "crash"} -> Nat] /\ (Undisturbed' => Undisturbed)
  BY DEF TypeOK, Undisturbed
<1> QED
  BY <1>1, <1>2, <1>3, <1>4 DEF Crash

\* Every step is one of those that FeatureWish knows.
LEMMA WishFrame ==
    ASSUME TypeOK, PassOK, Next
    PROVE  WishNext
<1>0. queued \in BOOLEAN
  BY DEF TypeOK, WishTypeOK
<1>1. CASE ConfigMapChanges \/ DeliverConfigMap \/ Resync \/ Crash
  BY <1>1 DEF ConfigMapChanges, DeliverConfigMap, Resync, Crash, WishNext
<1>2. CASE DeliverValues \/ NamespaceGone
  BY <1>0, <1>2 DEF DeliverValues, NamespaceGone, WishNext, input, work
<1>3. CASE StartReconcile \/ MakeCall \/ DeleteNamespace \/ SaveValues
  <2>1. UNCHANGED <<wishes, seen>>
    BY <1>3 DEF StartReconcile, MakeCall, DeleteNamespace, SaveValues, input
  <2>2. queued' \in BOOLEAN
    BY <1>0, <1>3 DEF StartReconcile, MakeCall, DeleteNamespace, SaveValues, Dismiss, Finish,
                      Retry, GoTo
  <2> QED
    BY <2>1, <2>2 DEF WishNext
<1>4. CASE CallOk \/ CallError
  <2>1. UNCHANGED <<wishes, seen>>
    BY <1>4 DEF CallOk, CallError, input
  <2>2. queued' = queued \/ queued' = TRUE
    <3>1. CASE CallOk
      BY <3>1, CallAtHand, AfterOkIs DEF CallOk
    <3>2. CASE CallError
      BY <3>2, AfterErrorIs DEF CallError, Retry
    <3> QED
      BY <1>4, <3>1, <3>2
  <2> QED
    BY <1>0, <2>1, <2>2 DEF WishNext
<1>5. CASE \E c \in Call : JobStarts(c) \/ CommandActs(c) \/ JobEnds(c) \/ CommandActsAgain(c)
  BY <1>0, <1>5 DEF JobStarts, CommandActs, JobEnds, CommandActsAgain, WishNext, input, work
<1> QED
  BY <1>1, <1>2, <1>3, <1>4, <1>5 DEF Next, WorkerStep, JobStep

\* The steps of calls keep their types.
LEMMA CallTypeStep ==
    ASSUME CallTypeOK,
           NEW c \in Call, Make(c) \/ Begin(c) \/ Act(c) \/ Stop(c) \/ Return(c)
    PROVE  CallTypeOK'
<1>1. CASE Make(c)
  BY <1>1, CallAssumption DEF Make, CallTypeOK, Awaited
<1>2. CASE Begin(c) \/ Stop(c)
  BY <1>2 DEF Begin, Stop, CallTypeOK, Awaited
<1>3. CASE Act(c)
  <2>1. acted' = [acted EXCEPT ![c] = @ + 1] /\ acted[c] \in 0..MaxRuns /\ acted[c] < MaxRuns
    BY <1>3 DEF Act, CallTypeOK
  <2>2. acted[c] + 1 \in 0..MaxRuns
    BY <2>1, CallAssumption
  <2>3. acted' \in [Call -> 0..MaxRuns]
    BY <2>1, <2>2 DEF CallTypeOK
  <2>4. good' \in [Call -> BOOLEAN] /\ UNCHANGED <<stage, running>>
    BY <1>3 DEF Act, CallTypeOK
  <2> QED
    BY <2>3, <2>4 DEF CallTypeOK
<1>4. CASE Return(c)
  <2>1. stage' \in [Call -> {"unmade", "ok", "error", "abandoned"} \cup Awaited]
    BY <1>4 DEF Return, ReturnOk, ReturnError, Abandon, CallTypeOK
  <2>2. running' \in [Call -> BOOLEAN]
    BY <1>4 DEF Return, ReturnOk, ReturnError, Abandon, CallTypeOK
  <2>3. UNCHANGED <<acted, good>>
    BY <1>4 DEF Return, ReturnOk, ReturnError, Abandon
  <2> QED
    BY <2>1, <2>2, <2>3 DEF CallTypeOK
<1> QED
  BY <1>1, <1>2, <1>3, <1>4

(***************************************************************************)
(* Types.                                                                  *)
(***************************************************************************)
PlaceType ==
    /\ pc \in {"idle", "status", "host", "install", "uninstall", "namespace", "save"}
    /\ want \in Config \cup {NoWish}
    /\ call \in Call \cup {NoCall}

ClusterType ==
    /\ release \in Release
    /\ namespace \in {"absent", "live", "terminating"}
    /\ values \in [enabled : BOOLEAN, version : Text] \cup {NoValues}
    /\ valuesLate \in BOOLEAN

AwaitedType ==
    /\ CallTypeOK
    /\ \A c \in Call : stage[c] \in Awaited <=> call = c

\* TypeOK in the groups of variables that the steps are examined for.
LEMMA TypeParts ==
    TypeOK <=> /\ WishTypeOK /\ PlaceType /\ ClusterType /\ AwaitedType
               /\ command \in [Call -> Command]
               /\ count \in [{"fault", "crash"} -> Nat]
BY DEF TypeOK, PlaceType, ClusterType, AwaitedType

\* The steps that leave the worker where it is, with all it holds.
LEMMA PlaceFrame ==
    Next => \/ UNCHANGED <<pc, want, call, command>>
            \/ StartReconcile \/ MakeCall \/ CallOk \/ CallError
            \/ DeleteNamespace \/ SaveValues \/ Crash
<1>1. CASE ConfigMapChanges \/ DeliverConfigMap \/ Resync \/ DeliverValues \/ NamespaceGone
  BY <1>1 DEF ConfigMapChanges, DeliverConfigMap, Resync, DeliverValues, NamespaceGone, work
<1>2. CASE \E c \in Call : JobStarts(c) \/ CommandActs(c) \/ JobEnds(c) \/ CommandActsAgain(c)
  BY <1>2 DEF JobStarts, CommandActs, JobEnds, CommandActsAgain, work
<1> QED
  BY <1>1, <1>2 DEF Next, WorkerStep, JobStep

\* The free name that a command gets.
LEMMA MadeCall ==
    ASSUME TypeOK, PassOK, MakeCall
    PROVE  /\ call = NoCall /\ call' \in Call /\ ~running[call'] /\ Make(call')
           /\ pc \in CommandStep /\ want \in Config
           /\ command' = [command EXCEPT ![call'] = [run |-> pc, version |-> VersionOf(want)]]
           /\ UNCHANGED <<wishes, seen, queued, pc, want, release, namespace, count>>
<1>1. (CHOOSE free \in Free : TRUE) \in Free
  BY DEF MakeCall
<1>2. call' \in Free
  BY <1>1 DEF MakeCall
<1>3. want \in Config
  BY DEF MakeCall, CommandStep, PassOK, TypeOK
<1> QED
  BY <1>2, <1>3 DEF MakeCall, Free, input, argo

\* Where the worker is, its wish and its queue keep their types.
LEMMA PlaceStep ==
    ASSUME TypeOK, PassOK, Next
    PROVE  PlaceType'
<1>0. PlaceType
  BY TypeParts
<1>1. CASE UNCHANGED <<pc, want, call, command>>
  BY <1>0, <1>1 DEF PlaceType
<1>2. CASE StartReconcile
  <2>1. HasWork => wishes[seen] \in Config
    BY WorkIsShown DEF TypeOK
  <2> QED
    BY <1>0, <1>2, <2>1 DEF StartReconcile, PlaceType
<1>3. CASE MakeCall
  BY <1>0, <1>3, MadeCall DEF PlaceType
<1>4. CASE CallOk
  BY <1>0, <1>4, CallAtHand, AfterOkIs DEF CallOk, PlaceType
<1>5. CASE CallError
  BY <1>0, <1>5, AfterErrorIs DEF CallError, Retry, PlaceType
<1>6. CASE DeleteNamespace \/ SaveValues
  BY <1>0, <1>6 DEF DeleteNamespace, SaveValues, GoTo, Retry, Finish, PlaceType
<1>7. CASE Crash
  BY <1>7 DEF Crash, PlaceType
<1> QED
  BY <1>1, <1>2, <1>3, <1>4, <1>5, <1>6, <1>7, PlaceFrame

\* A command is recorded with a step of Reconcile and a version that is a text.
LEMMA CommandStepType ==
    ASSUME TypeOK, PassOK, Next
    PROVE  command' \in [Call -> Command]
<1>0. command \in [Call -> Command]
  BY DEF TypeOK
<1>1. CASE MakeCall
  <2>1. [run |-> pc, version |-> VersionOf(want)] \in Command
    BY <1>1, MadeCall, VersionType DEF Command, CommandStep
  <2> QED
    BY <1>0, <1>1, <2>1, MadeCall
<1>2. CASE StartReconcile \/ CallOk \/ CallError \/ DeleteNamespace \/ SaveValues \/ Crash
  BY <1>0, <1>2 DEF StartReconcile, CallOk, CallError, DeleteNamespace, SaveValues, Crash
<1> QED
  BY <1>0, <1>1, <1>2, PlaceFrame

\* Where the release and the namespace change.
\* The effect of a command by what it runs.
LEMMA SucceedsIs ==
    ASSUME TypeOK, CommandsOK, NEW c \in Call, running[c], Succeeds(c)
    PROVE  \/ command[c].run = "status" /\ release.status # "none" /\ UNCHANGED argo
           \/ command[c].run = "host" /\ UNCHANGED argo
           \/ /\ command[c].run = "install"
              /\ namespace # "terminating" /\ release.status # "pending"
              /\ Set([status |-> "deployed", version |-> command[c].version], "live")
           \/ command[c].run = "uninstall" /\ Set(NoRelease, namespace)
<1>1. command[c].run \in {"status", "host", "install", "uninstall"}
  BY DEF TypeOK, Command, CommandsOK
<1>2. CASE command[c].run = "status"
  BY <1>2 DEF Succeeds
<1>3. CASE command[c].run = "host"
  BY <1>3 DEF Succeeds
<1>4. CASE command[c].run = "install"
  BY <1>4 DEF Succeeds
<1>5. CASE command[c].run = "uninstall"
  BY <1>5 DEF Succeeds
<1> QED
  BY <1>1, <1>2, <1>3, <1>4, <1>5

\* The release and its namespace are only changed by an install command that runs, by an
\* uninstallation, by the deletion of the namespace, and by its end.
LEMMA ArgoWrites ==
    ASSUME TypeOK, CommandsOK, Next
    PROVE  \/ UNCHANGED argo
           \/ \E c \in Call : /\ running[c] /\ command[c].run = "install"
                              /\ acted[c] = 0 \/ Fault
                              /\ namespace # "terminating" /\ release.status # "pending"
                              /\ \E s \in {"deployed", "pending", "failed"} :
                                    Set([status |-> s, version |-> command[c].version], "live")
           \/ Set(NoRelease, namespace)
           \/ DeleteNamespace
           \/ NamespaceGone
<1>1. CASE ConfigMapChanges \/ DeliverConfigMap \/ Resync \/ DeliverValues \/ Crash
  BY <1>1 DEF ConfigMapChanges, DeliverConfigMap, Resync, DeliverValues, Crash
<1>2. CASE StartReconcile \/ MakeCall \/ CallOk \/ CallError \/ SaveValues
  BY <1>2 DEF StartReconcile, MakeCall, CallOk, CallError, SaveValues
<1>3. CASE \E c \in Call : JobStarts(c) \/ JobEnds(c)
  BY <1>3 DEF JobStarts, JobEnds
<1>4. ASSUME NEW c \in Call, CommandActs(c) \/ CommandActsAgain(c)
      PROVE  \/ UNCHANGED argo
             \/ /\ running[c] /\ command[c].run = "install"
                /\ acted[c] = 0 \/ Fault
                /\ namespace # "terminating" /\ release.status # "pending"
                /\ \E s \in {"deployed", "pending", "failed"} :
                      Set([status |-> s, version |-> command[c].version], "live")
             \/ Set(NoRelease, namespace)
  <2>1. /\ running[c] /\ (acted[c] = 0 \/ Fault)
        /\ Succeeds(c) \/ Refused(c) \/ Breaks(c)
    BY <1>4 DEF CommandActs, CommandActsAgain, Act
  <2>2. CASE Refused(c)
    BY <2>2 DEF Refused
  <2>3. CASE Breaks(c)
    BY <2>1, <2>3 DEF Breaks
  <2>4. CASE Succeeds(c)
    BY <2>1, <2>4, SucceedsIs
  <2> QED
    BY <2>1, <2>2, <2>3, <2>4
<1> QED
  BY <1>1, <1>2, <1>3, <1>4 DEF Next, WorkerStep, JobStep

\* Where argocd-values changes.
LEMMA ValuesWrites ==
    ASSUME Next
    PROVE  UNCHANGED saved \/ SaveValues \/ (values' = values /\ valuesLate' = FALSE)
<1>1. CASE ConfigMapChanges \/ DeliverConfigMap \/ Resync \/ DeliverValues \/ Crash \/ NamespaceGone
  BY <1>1 DEF ConfigMapChanges, DeliverConfigMap, Resync, DeliverValues, Crash, NamespaceGone
<1>2. CASE StartReconcile \/ MakeCall \/ CallOk \/ CallError \/ DeleteNamespace
  BY <1>2 DEF StartReconcile, MakeCall, CallOk, CallError, DeleteNamespace
<1>3. CASE \E c \in Call : JobStarts(c) \/ CommandActs(c) \/ JobEnds(c) \/ CommandActsAgain(c)
  BY <1>3 DEF JobStarts, CommandActs, JobEnds, CommandActsAgain
<1> QED
  BY <1>1, <1>2, <1>3 DEF Next, WorkerStep, JobStep

\* The release, its namespace and argocd-values keep their types.
LEMMA ClusterStep ==
    ASSUME TypeOK, PassOK, CommandsOK, Next
    PROVE  ClusterType'
<1>0. ClusterType /\ command \in [Call -> Command]
  BY TypeParts
<1>1. release' \in Release /\ namespace' \in {"absent", "live", "terminating"}
  <2>1. NoRelease \in Release
    BY ArgocdAssumption, TextAssumption DEF NoRelease, Release
  <2>2. \A c \in Call : \A s \in {"deployed", "pending", "failed"} :
            [status |-> s, version |-> command[c].version] \in Release
    BY <1>0 DEF Command, Release
  <2>3. CASE UNCHANGED argo
    BY <1>0, <2>3 DEF ClusterType, argo
  <2>4. CASE DeleteNamespace
    BY <1>0, <2>4 DEF ClusterType, DeleteNamespace
  <2>5. CASE NamespaceGone \/ Set(NoRelease, namespace)
    BY <1>0, <2>1, <2>5 DEF ClusterType, NamespaceGone, Set
  <2>6. CASE \E c \in Call : \E s \in {"deployed", "pending", "failed"} :
               Set([status |-> s, version |-> command[c].version], "live")
    BY <2>2, <2>6 DEF Set
  <2> QED
    BY <2>3, <2>4, <2>5, <2>6, ArgoWrites
<1>2. /\ values' \in [enabled : BOOLEAN, version : Text] \cup {NoValues}
      /\ valuesLate' \in BOOLEAN
  <2>1. CASE SaveValues
    <3>1. want \in Config
      BY <2>1 DEF SaveValues, TypeOK, PassOK
    <3>2. [enabled |-> Enabled(want), version |-> VersionOf(want)]
              \in [enabled : BOOLEAN, version : Text]
      BY <3>1, VersionType DEF Enabled, IsEnabled
    <3>3. values' = values \/ values' = [enabled |-> Enabled(want), version |-> VersionOf(want)]
      BY <2>1 DEF SaveValues, saved
    <3>4. valuesLate' = valuesLate \/ valuesLate' = (values' # values)
      BY <2>1 DEF SaveValues, saved
    <3>5. values' \in [enabled : BOOLEAN, version : Text] \cup {NoValues}
      BY <1>0, <3>2, <3>3 DEF ClusterType
    <3>6. valuesLate' \in BOOLEAN
      BY <1>0, <3>4 DEF ClusterType
    <3> QED
      BY <3>5, <3>6
  <2>2. CASE UNCHANGED saved \/ (values' = values /\ valuesLate' = FALSE)
    BY <1>0, <2>2 DEF ClusterType, saved
  <2> QED
    BY <2>1, <2>2, ValuesWrites
<1> QED
  BY <1>1, <1>2 DEF ClusterType

\* What a step does to the calls.
LEMMA CallStep ==
    ASSUME TypeOK, PassOK, Next
    PROVE  \/ UNCHANGED callVars /\ call' = call
           \/ \E c \in Call : (Begin(c) \/ Act(c) \/ Stop(c)) /\ call' = call
           \/ \E c \in Call : Make(c) /\ call = NoCall /\ call' = c
           \/ call \in Call /\ Return(call) /\ call' = NoCall
<1>1. CASE ConfigMapChanges \/ DeliverConfigMap \/ Resync \/ DeliverValues \/ NamespaceGone
  BY <1>1 DEF ConfigMapChanges, DeliverConfigMap, Resync, DeliverValues, NamespaceGone, work
<1>2. CASE StartReconcile
  <2>1. call = NoCall
    BY <1>2 DEF StartReconcile, PassOK, CommandStep
  <2> QED
    BY <1>2, <2>1 DEF StartReconcile
<1>3. CASE MakeCall
  BY <1>3, MadeCall
<1>4. CASE CallOk
  BY <1>4, CallAtHand, AfterOkIs DEF CallOk, Return
<1>5. CASE CallError
  BY <1>5, CallAtHand, AfterErrorIs DEF CallError, Return
<1>6. CASE DeleteNamespace \/ SaveValues
  <2>1. call = NoCall
    BY <1>6 DEF DeleteNamespace, SaveValues, PassOK, CommandStep
  <2> QED
    BY <1>6, <2>1 DEF DeleteNamespace, SaveValues, GoTo, Retry, Finish
<1>7. CASE Crash
  BY <1>7, CallAtHand DEF Crash, Return
<1>8. CASE \E c \in Call : JobStarts(c) \/ CommandActs(c) \/ JobEnds(c) \/ CommandActsAgain(c)
  BY <1>8 DEF JobStarts, CommandActs, JobEnds, CommandActsAgain, work
<1> QED
  BY <1>1, <1>2, <1>3, <1>4, <1>5, <1>6, <1>7, <1>8 DEF Next, WorkerStep, JobStep

\* The worker waits for exactly the calls that are awaited, which is at most one.
LEMMA AwaitedStep ==
    ASSUME TypeOK, PassOK, Next
    PROVE  AwaitedType'
<1>0. CallTypeOK /\ \A c \in Call : stage[c] \in Awaited <=> call = c
  BY DEF TypeOK
<1>1. CASE UNCHANGED callVars /\ call' = call
  BY <1>0, <1>1 DEF AwaitedType, callVars, CallTypeOK
<1>2. CASE \E c \in Call : (Begin(c) \/ Act(c) \/ Stop(c)) /\ call' = call
  <2>1. stage' = stage
    BY <1>2 DEF Begin, Act, Stop
  <2> QED
    BY <1>0, <1>2, <2>1, CallTypeStep DEF AwaitedType
<1>3. CASE \E c \in Call : Make(c) /\ call = NoCall /\ call' = c
  <2>1. PICK c \in Call : Make(c) /\ call = NoCall /\ call' = c
    BY <1>3
  <2>2. /\ stage' = [stage EXCEPT ![c] = "waiting"]
        /\ stage \in [Call -> {"unmade", "ok", "error", "abandoned"} \cup Awaited]
    BY <1>0, <2>1 DEF Make, CallTypeOK
  <2>3. \A d \in Call : stage'[d] \in Awaited <=> call' = d
    BY <1>0, <2>1, <2>2, ArgocdAssumption DEF Awaited
  <2> QED
    BY <1>0, <2>1, <2>3, CallTypeStep DEF AwaitedType
<1>4. CASE call \in Call /\ Return(call) /\ call' = NoCall
  <2>1. \E s \in {"ok", "error", "abandoned"} : stage' = [stage EXCEPT ![call] = s]
    BY <1>4 DEF Return, ReturnOk, ReturnError, Abandon
  <2>2. stage \in [Call -> {"unmade", "ok", "error", "abandoned"} \cup Awaited]
    BY <1>0 DEF CallTypeOK
  <2>3. \A d \in Call : stage'[d] \in Awaited <=> call' = d
    BY <1>0, <1>4, <2>1, <2>2, ArgocdAssumption DEF Awaited
  <2> QED
    BY <1>0, <1>4, <2>3, CallTypeStep DEF AwaitedType
<1> QED
  BY <1>1, <1>2, <1>3, <1>4, CallStep

\* Every step keeps the types.
LEMMA TypeStep ==
    ASSUME TypeOK, PassOK, CommandsOK, Next
    PROVE  TypeOK'
<1>1. WishTypeOK'
  BY WishFrame, WishStep DEF TypeOK
<1>2. (PlaceType /\ ClusterType /\ AwaitedType)'
  BY PlaceStep, ClusterStep, AwaitedStep
<1>3. command' \in [Call -> Command] /\ count' \in [{"fault", "crash"} -> Nat]
  BY CommandStepType, CountStep
<1> QED
  BY <1>1, <1>2, <1>3 DEF TypeOK, PlaceType, ClusterType, AwaitedType

(***************************************************************************)
(* The pass and its commands.                                              *)
(***************************************************************************)

\* What was wished once was wished for good.
LEMMA WishedStays ==
    ASSUME TypeOK, PassOK, Next, NEW v, Wished(v)
    PROVE  \E i \in 1..seen' : Wanted(wishes'[i]) /\ VersionOf(wishes'[i]) = v
<1>1. PICK i \in 1..seen : Wanted(wishes[i]) /\ VersionOf(wishes[i]) = v
  BY DEF Wished
<1>2. /\ seen <= seen' /\ seen \in Nat /\ seen' \in Nat
      /\ wishes'[i] = wishes[i]
  BY WishFrame, WishStep, WishFacts DEF TypeOK
<1> QED
  BY <1>1, <1>2

\* A pass goes on for the version that it began with, and only to the steps of its flag.
LEMMA PassStep ==
    ASSUME TypeOK, PassOK, Next
    PROVE  PassOK'
<1>0. /\ pc = "idle" <=> want = NoWish
      /\ want # NoWish => Managed(want) /\ Shown(want)
      /\ pc \in {"host", "install"} => Enabled(want)
      /\ call # NoCall => pc \in CommandStep /\ command[call].run = pc
      /\ want \in Config \cup {NoWish}
  BY DEF PassOK, TypeOK
<1>1. Shown(want) => \E i \in 1..seen' : wishes'[i] = want
  BY WishFrame, ShownStays DEF TypeOK, Shown
<1>2. CASE UNCHANGED <<pc, want, call, command>>
  BY <1>0, <1>1, <1>2 DEF PassOK, Shown, Managed, Enabled
<1>3. CASE call' = NoCall /\ pc' = "idle" /\ want' = NoWish
  BY <1>3 DEF PassOK, CommandStep
<1>4. CASE call' = NoCall /\ want' = want /\ pc # "idle" /\ pc' # "idle"
           /\ (pc' \in {"host", "install"} => Enabled(want))
  BY <1>0, <1>1, <1>4 DEF PassOK, Shown, Managed, Enabled
<1>5. CASE StartReconcile
  <2>1. call = NoCall
    BY <1>0, <1>5 DEF StartReconcile, CommandStep
  <2>2. CASE HasWork /\ pc' = "status" /\ want' = wishes[seen]
    <3>1. wishes[seen] \in Config /\ Managed(wishes[seen]) /\ Shown(wishes[seen])
      BY <2>2, WorkIsShown DEF TypeOK
    <3>2. wishes' = wishes /\ seen' = seen /\ call' = NoCall
      BY <1>5, <2>1 DEF StartReconcile, input
    <3> QED
      BY <2>2, <3>1, <3>2, ArgocdAssumption DEF PassOK, Shown, Managed
  <2>3. CASE UNCHANGED <<pc, want>>
    BY <1>2, <1>5, <2>3 DEF StartReconcile
  <2> QED
    BY <1>5, <2>2, <2>3 DEF StartReconcile
<1>6. CASE MakeCall
  <2>1. command'[call'].run = pc
    BY <1>6, MadeCall DEF TypeOK
  <2>2. /\ call' \in Call /\ pc \in CommandStep
        /\ UNCHANGED <<wishes, seen, pc, want>>
    BY <1>6, MadeCall
  <2> QED
    BY <1>0, <2>1, <2>2 DEF PassOK, Shown, Managed, Enabled
<1>7. CASE CallOk
  <2>1. /\ call' = NoCall /\ want' = want /\ pc \in CommandStep
        /\ \/ pc = "status" /\ pc' \in {"save", "uninstall"}
           \/ pc = "host" /\ pc' = "install"
           \/ pc = "install" /\ pc' = "save"
           \/ pc = "uninstall" /\ pc' = "namespace"
    BY <1>7, CallAtHand, AfterOkIs DEF CallOk
  <2> QED
    BY <1>0, <1>4, <2>1
<1>8. CASE CallError
  BY <1>0, <1>3, <1>4, <1>8, AfterErrorIs DEF CallError, Retry
<1>9. CASE DeleteNamespace
  BY <1>0, <1>3, <1>4, <1>9 DEF DeleteNamespace, GoTo, Retry
<1>10. CASE SaveValues
  BY <1>3, <1>10 DEF SaveValues, Finish, Retry
<1>11. CASE Crash
  BY <1>3, <1>11 DEF Crash
<1> QED
  BY <1>2, <1>5, <1>6, <1>7, <1>8, <1>9, <1>10, <1>11, PlaceFrame

\* Every command that is started carries a version that was wished, and wishes stay wished.
LEMMA CommandsStep ==
    ASSUME TypeOK, PassOK, CommandsOK, Next
    PROVE  CommandsOK'
<1>0. \A c \in Call : /\ running[c] => command[c].run # "none"
                      /\ command[c].run = "install" => Wished(command[c].version)
  BY DEF CommandsOK
<1>1. CASE MakeCall
  <2>1. /\ call' \in Call /\ ~running[call'] /\ Make(call') /\ pc \in CommandStep
        /\ command \in [Call -> Command]
        /\ command' = [command EXCEPT ![call'] = [run |-> pc, version |-> VersionOf(want)]]
        /\ want \in Config
    BY <1>1, MadeCall DEF TypeOK
  <2>2. \A c \in Call \ {call'} : command'[c] = command[c]
    BY <2>1
  <2>3. command'[call'] = [run |-> pc, version |-> VersionOf(want)]
    BY <2>1
  <2>4. pc = "install" => Wished(VersionOf(want))
    BY <2>1, ArgocdAssumption DEF PassOK, Shown, Wished, Wanted
  <2>5. ASSUME NEW c \in Call
        PROVE  /\ running'[c] => command'[c].run # "none"
               /\ command'[c].run = "install" => Wished(command'[c].version)
    <3>1. running' = running
      BY <2>1 DEF Make
    <3>2. CASE c = call'
      BY <2>1, <2>3, <2>4, <3>2 DEF CommandStep
    <3>3. CASE c # call'
      BY <1>0, <2>2, <3>1, <3>3
    <3> QED
      BY <3>2, <3>3
  <2> QED
    BY <2>5, WishedStays DEF CommandsOK, Wished, Wanted, Managed, Enabled, VersionOf
<1>2. CASE UNCHANGED command
  <2>1. ASSUME NEW c \in Call, running'[c]
        PROVE  command[c].run # "none"
    <3>1. CASE running[c]
      BY <1>0, <3>1
    <3>2. CASE ~running[c]
      <4>1. call = c
        <5>1. CASE \E d \in Call : Begin(d)
          BY <2>1, <3>2, <5>1 DEF Begin, TypeOK, CallTypeOK, Awaited
        <5>2. CASE \E d \in Call : Act(d) \/ Stop(d) \/ Make(d)
          BY <2>1, <3>2, <5>2 DEF Act, Stop, Make, TypeOK, CallTypeOK
        <5>3. CASE call \in Call /\ Return(call)
          BY <2>1, <3>2, <5>3 DEF Return, ReturnOk, ReturnError, Abandon, TypeOK, CallTypeOK
        <5>4. CASE UNCHANGED callVars
          BY <2>1, <3>2, <5>4 DEF callVars
        <5> QED
          BY <5>1, <5>2, <5>3, <5>4, CallStep
      <4> QED
        BY <4>1, CallAtHand, ArgocdAssumption DEF CommandStep
    <3> QED
      BY <3>1, <3>2
  <2> QED
    BY <1>0, <1>2, <2>1, WishedStays DEF CommandsOK, Wished, Wanted, Managed, Enabled, VersionOf
<1>3. MakeCall \/ UNCHANGED command
  <2>1. StartReconcile \/ CallOk \/ CallError \/ DeleteNamespace \/ SaveValues \/ Crash
            => UNCHANGED command
    BY DEF StartReconcile, CallOk, CallError, DeleteNamespace, SaveValues, Crash
  <2> QED
    BY <2>1, PlaceFrame
<1> QED
  BY <1>1, <1>2, <1>3

(***************************************************************************)
(* Executions in which nothing failed.                                     *)
(***************************************************************************)
LEMMA AloneStep ==
    ASSUME IInv, Next
    PROVE  AloneOK'
<1> SUFFICES ASSUME Undisturbed' PROVE Alone'
  BY DEF AloneOK
<1>0. TypeOK /\ PassOK /\ CommandsOK /\ Alone /\ ~Fault /\ ~Crash
  BY CountStep DEF IInv, AloneOK
<1>1. /\ \A c \in Call : running[c] => call = c
      /\ pc = "host" => release.status = "none"
      /\ pc = "install" /\ ~HasActed => release.status = "none"
      /\ pc = "namespace" => release = NoRelease
      /\ pc = "status" /\ HasActed /\ ~good[call] => release.status = "none"
      /\ pc = "uninstall" /\ HasActed /\ good[call] => release = NoRelease
  BY <1>0 DEF Alone
<1>2. CASE UNCHANGED <<pc, call, release, callVars>>
  BY <1>1, <1>2 DEF Alone, HasActed, callVars
<1>3. CASE ConfigMapChanges \/ DeliverConfigMap \/ Resync \/ DeliverValues
  BY <1>2, <1>3 DEF ConfigMapChanges, DeliverConfigMap, Resync, DeliverValues, work, argo
<1>4. CASE call' = NoCall /\ pc' \in {"idle", "status", "save"} /\ (\A c \in Call : ~running'[c])
  BY <1>4 DEF Alone, HasActed
<1>5. CASE StartReconcile
  <2>1. call = NoCall
    BY <1>0, <1>5 DEF StartReconcile, PassOK, CommandStep
  <2>2. \A c \in Call : ~running'[c]
    BY <1>1, <1>5, <2>1, ArgocdAssumption DEF StartReconcile, callVars
  <2>3. call' = NoCall /\ pc' \in {"idle", "status"}
    BY <1>5, <2>1 DEF StartReconcile
  <2> QED
    BY <1>4, <2>2, <2>3
<1>6. CASE MakeCall
  <2>1. /\ call = NoCall /\ call' \in Call /\ Make(call') /\ UNCHANGED <<pc, release>>
        /\ acted \in [Call -> 0..MaxRuns]
    BY <1>0, <1>6, MadeCall DEF TypeOK, CallTypeOK
  <2>2. \A c \in Call : ~running'[c]
    BY <1>1, <2>1, ArgocdAssumption DEF Make
  <2>3. ~HasActed' /\ ~HasActed
    BY <2>1 DEF HasActed, Make
  <2>4. pc # "namespace"
    BY <1>0, <1>6, MadeCall DEF CommandStep
  <2> QED
    BY <1>1, <2>1, <2>2, <2>3, <2>4 DEF Alone
<1>7. CASE CallOk
  <2>1. /\ call' = NoCall /\ pc \in CommandStep
        /\ \/ pc = "status" /\ pc' \in {"save", "uninstall"}
           \/ pc = "host" /\ pc' = "install"
           \/ pc = "install" /\ pc' = "save"
           \/ pc = "uninstall" /\ pc' = "namespace"
    BY <1>0, <1>7, CallAtHand, AfterOkIs DEF CallOk
  <2>2. /\ good[call] \/ pc = "host"
        /\ HasActed /\ ~running[call] /\ running' = running /\ release' = release
    BY <1>0, <1>7 DEF CallOk, ReturnOk, HasActed, argo
  <2>3. \A c \in Call : ~running'[c]
    BY <1>1, <2>2
  <2>4. ~HasActed'
    BY <2>1 DEF HasActed
  <2> QED
    BY <1>1, <2>1, <2>2, <2>3, <2>4 DEF Alone
<1>8. CASE CallError
  <2>1. /\ call \in Call /\ ReturnError(call) /\ release' = release
        /\ running \in [Call -> BOOLEAN] /\ acted \in [Call -> 0..MaxRuns]
    BY <1>0, <1>8, CallAtHand DEF CallError, argo, TypeOK, CallTypeOK
  <2>2. ~(running[call] \/ acted[call] = 0 \/ good[call] \/ pc = "host" \/ running'[call])
    BY <1>0, <1>8 DEF CallError
  <2>3. HasActed
    BY <1>8, <2>1, <2>2, CallAssumption DEF HasActed, CallError
  <2>4. \A c \in Call : ~running'[c]
    BY <1>1, <2>1, <2>2 DEF ReturnError
  <2>5. call' = NoCall
    BY <1>8, AfterErrorIs DEF CallError
  <2>6. CASE pc = "status" /\ pc' = "host"
    BY <1>1, <2>1, <2>2, <2>3, <2>4, <2>6 DEF Alone
  <2>7. CASE pc' \in {"idle", "save"}
    BY <1>4, <2>4, <2>5, <2>7
  <2> QED
    BY <1>8, <2>6, <2>7, AfterErrorIs DEF CallError, Retry
<1>9. CASE DeleteNamespace \/ SaveValues
  <2>1. call = NoCall
    BY <1>0, <1>9 DEF DeleteNamespace, SaveValues, PassOK, CommandStep
  <2>2. \A c \in Call : ~running'[c]
    BY <1>1, <1>9, <2>1, ArgocdAssumption DEF DeleteNamespace, SaveValues, callVars
  <2> QED
    BY <1>4, <1>9, <2>2 DEF DeleteNamespace, SaveValues, GoTo, Retry, Finish
<1>10. CASE NamespaceGone
  <2>1. release' = NoRelease /\ NoRelease.status = "none" /\ UNCHANGED <<pc, call, callVars>>
    BY <1>10 DEF NamespaceGone, Set, NoRelease, work
  <2> QED
    BY <1>1, <2>1 DEF Alone, HasActed, callVars
<1>11. ASSUME NEW c \in Call, JobStarts(c)
       PROVE  Alone'
  <2>1. call = c
    BY <1>0, <1>11 DEF JobStarts, Begin, TypeOK, Awaited
  <2>2. /\ UNCHANGED <<pc, call, release, acted, good>>
        /\ running' = [running EXCEPT ![c] = TRUE]
        /\ running \in [Call -> BOOLEAN]
    BY <1>0, <1>11 DEF JobStarts, Begin, work, argo, TypeOK, CallTypeOK
  <2>3. \A d \in Call : running'[d] => call' = d
    BY <1>1, <2>1, <2>2
  <2> QED
    BY <1>1, <2>2, <2>3 DEF Alone, HasActed
<1>12. ASSUME NEW c \in Call, JobEnds(c)
       PROVE  Alone'
  <2>1. /\ UNCHANGED <<pc, call, release, acted, good>>
        /\ running' = [running EXCEPT ![c] = FALSE]
        /\ running \in [Call -> BOOLEAN]
    BY <1>0, <1>12 DEF JobEnds, Stop, work, argo, TypeOK, CallTypeOK
  <2>2. \A d \in Call : running'[d] => call' = d
    BY <1>1, <2>1
  <2> QED
    BY <1>1, <2>1, <2>2 DEF Alone, HasActed
<1>13. ASSUME NEW c \in Call, CommandActs(c)
       PROVE  Alone'
  <2>1. call = c /\ running[c] /\ acted[c] = 0 /\ call # NoCall
    BY <1>1, <1>13, ArgocdAssumption DEF CommandActs, Act
  <2>2. command[c].run = pc
    BY <1>0, <2>1 DEF PassOK
  <2>3. /\ UNCHANGED <<pc, call, running>>
        /\ \/ Succeeds(c) /\ good'[c]
           \/ Refused(c) /\ ~good'[c]
    BY <1>0, <1>13 DEF CommandActs, Breaks, Act, work
  <2>4. HasActed' /\ ~HasActed
    <3>1. acted' = [acted EXCEPT ![c] = @ + 1] /\ acted \in [Call -> 0..MaxRuns]
      BY <1>0, <1>13 DEF CommandActs, Act, TypeOK, CallTypeOK
    <3>2. acted'[c] = 1
      BY <2>1, <3>1
    <3> QED
      BY <2>1, <2>3, <3>2 DEF HasActed
  <2>5. CASE Succeeds(c) /\ good'[c]
    <3>1. \/ pc = "status" \/ (pc = "host" /\ release' = release)
          \/ pc = "install" \/ (pc = "uninstall" /\ release' = NoRelease)
      BY <1>0, <2>1, <2>2, <2>5, SucceedsIs DEF argo, Set
    <3> QED
      BY <1>1, <2>1, <2>3, <2>4, <2>5, <3>1 DEF Alone
  <2>6. CASE Refused(c) /\ ~good'[c]
    <3>1. /\ release' = release /\ pc \in {"status", "uninstall", "install"}
          /\ pc = "status" => release.status = "none"
      BY <2>2, <2>6 DEF Refused, argo
    <3> QED
      BY <1>1, <2>1, <2>3, <2>4, <2>6, <3>1 DEF Alone
  <2> QED
    BY <2>3, <2>5, <2>6
<1>14. \A c \in Call : ~CommandActsAgain(c)
  BY <1>0 DEF CommandActsAgain
<1> QED
  BY <1>0, <1>3, <1>5, <1>6, <1>7, <1>8, <1>9, <1>10, <1>11, <1>12, <1>13, <1>14
     DEF Next, WorkerStep, JobStep

\* The namespace is deleted where AloneOK knows that there is no release, and no command
\* brings one back into a namespace that is going.
LEMMA NamespaceStep ==
    ASSUME IInv, Next
    PROVE  NamespaceOutlivesRelease'
<1> SUFFICES ASSUME Undisturbed', namespace' = "terminating" PROVE release' = NoRelease
  BY DEF NamespaceOutlivesRelease
<1>0. TypeOK /\ CommandsOK /\ Undisturbed /\ Alone
  BY CountStep DEF IInv, AloneOK
<1>1. CASE UNCHANGED argo
  BY <1>0, <1>1 DEF IInv, NamespaceOutlivesRelease, argo
<1>2. CASE DeleteNamespace
  BY <1>0, <1>2 DEF DeleteNamespace, Alone
<1> QED
  BY <1>0, <1>1, <1>2, ArgoWrites DEF Set, NamespaceGone

(***************************************************************************)
(* The invariant and what follows from it.                                 *)
(***************************************************************************)
LEMMA InitOK == Init => IInv
<1> SUFFICES ASSUME Init PROVE IInv
  OBVIOUS
<1>1. pc = "idle" /\ want = NoWish /\ call = NoCall /\ CallInit /\ WishInit
  BY DEF Init
<1>2. WishTypeOK /\ seen = 0
  BY <1>1, WishInitType
<1>3. PlaceType
  BY <1>1 DEF PlaceType
<1>4. ClusterType
  <2>1. /\ release \in {NoRelease, Installed} /\ namespace \in {"absent", "live"}
        /\ values = NoValues /\ valuesLate = FALSE
    BY DEF Init
  <2>2. NoRelease \in Release /\ Installed \in Release
    BY ArgocdAssumption, TextAssumption DEF NoRelease, Installed, Release
  <2> QED
    BY <2>1, <2>2 DEF ClusterType
<1>5. AwaitedType
  BY <1>1, CallAssumption, ArgocdAssumption DEF CallInit, CallTypeOK, AwaitedType, Awaited
<1>6. command \in [Call -> Command] /\ \A c \in Call : command[c].run = "none"
  BY TextAssumption DEF Init, Command
<1>7. count \in [{"fault", "crash"} -> Nat]
  BY DEF Init
<1>8. TypeOK
  BY <1>2, <1>3, <1>4, <1>5, <1>6, <1>7, TypeParts
<1>9. \A c \in Call : ~running[c]
  BY <1>1 DEF CallInit
<1>10. PassOK /\ CommandsOK
  BY <1>1, <1>6, <1>9 DEF PassOK, CommandsOK
<1>11. AloneOK
  BY <1>1, <1>9 DEF AloneOK, Alone
<1>12. NamespaceOutlivesRelease
  BY DEF Init, NamespaceOutlivesRelease
<1> QED
  BY <1>8, <1>10, <1>11, <1>12 DEF IInv

\* A step that changes no variable keeps it.
LEMMA StutterInvariant == IInv /\ UNCHANGED vars => IInv'
<1> SUFFICES ASSUME IInv, UNCHANGED vars PROVE IInv'
  OBVIOUS
<1>1. UNCHANGED <<wishes, seen, queued, pc, want, call, command, release, namespace, values,
                  valuesLate, count, stage, running, acted, good>>
  BY DEF vars, input, work, argo, saved, callVars
<1>2. TypeOK'
  BY <1>1 DEF IInv, TypeOK, WishTypeOK, CallTypeOK
<1>3. PassOK' /\ CommandsOK'
  BY <1>1 DEF IInv, PassOK, CommandsOK, Managed, Shown, Enabled, Wished, Wanted, VersionOf
<1>4. AloneOK' /\ NamespaceOutlivesRelease'
  BY <1>1 DEF IInv, AloneOK, Alone, HasActed, Undisturbed, NamespaceOutlivesRelease
<1> QED
  BY <1>2, <1>3, <1>4 DEF IInv

\* Every step of the worker, of the commands, of people and of the informers keeps
\* the inductive invariant.
THEOREM Invariant == Spec => []IInv
<1>1. IInv /\ [Next]_vars => IInv'
  <2>1. CASE UNCHANGED vars
    BY <2>1, StutterInvariant
  <2>2. CASE Next
    BY <2>2, TypeStep, PassStep, CommandsStep, AloneStep, NamespaceStep DEF IInv
  <2> QED
    BY <2>1, <2>2
<1> QED
  BY <1>1, InitOK, PTL DEF Spec

\* The variables of the controller, of its release and of its calls keep their types;
\* in particular the worker waits for exactly the call that it has made.
THEOREM TypeCorrect == Spec => []TypeOK
BY Invariant, PTL DEF IInv

\* The namespace argocd is not deleted before the release in it is uninstalled.
THEOREM NamespaceLast == Spec => []NamespaceOutlivesRelease
BY Invariant, PTL DEF IInv

\* Nothing is installed that was not wished, however late its command acts.
THEOREM OnlyWished == Spec => ReleaseWasWished
<1>1. ASSUME IInv, [Next]_vars
      PROVE  [release'.status # "none"
                  /\ (release.status = "none" \/ release'.version # release.version)
                => Wished(release'.version)]_<<release, wishes, seen>>
  <2>1. CASE UNCHANGED <<release, wishes, seen>>
    BY <2>1
  <2>2. CASE release' = NoRelease
    BY <2>2 DEF NoRelease
  <2>3. CASE release' = release
    BY <2>3
  <2>4. CASE \E c \in Call : /\ command[c].run = "install"
                             /\ \E s \in {"deployed", "pending", "failed"} :
                                   release' = [status |-> s, version |-> command[c].version]
    <3>1. PICK c \in Call : command[c].run = "install"
                            /\ release'.version = command[c].version
      BY <2>4
    <3> QED
      BY <1>1, <3>1 DEF IInv, CommandsOK
  <2>5. CASE Next
    BY <1>1, <2>2, <2>3, <2>4, <2>5, ArgoWrites
       DEF IInv, Set, DeleteNamespace, NamespaceGone, argo
  <2>6. CASE UNCHANGED vars
    BY <2>1, <2>6 DEF vars, input, argo
  <2> QED
    BY <1>1, <2>5, <2>6
<1> QED
  BY <1>1, Invariant, PTL DEF Spec, ReleaseWasWished

\* Unless something failed, no command changes a release that is deployed.
THEOREM NoUpgrade == Spec => NoUpgradeInPlace
<1>1. ASSUME IInv, [Next]_vars
      PROVE  [Undisturbed' /\ release.status = "deployed" /\ release'.status # "none"
                => release' = release]_<<release, count>>
  <2>1. CASE UNCHANGED vars
    BY <2>1 DEF vars, argo
  <2>2. ASSUME Next, Undisturbed', release.status = "deployed", release'.status # "none"
        PROVE  release' = release
    <3>1. TypeOK /\ PassOK /\ CommandsOK /\ Alone /\ ~Fault
      BY <1>1, <2>2, CountStep DEF IInv, AloneOK
    <3>2. ASSUME NEW c \in Call, running[c], command[c].run = "install", acted[c] = 0
          PROVE  FALSE
      <4>1. call = c /\ call # NoCall
        BY <3>1, <3>2, ArgocdAssumption DEF Alone
      <4>2. pc = "install" /\ ~HasActed
        BY <3>1, <3>2, <4>1 DEF PassOK, HasActed
      <4> QED
        BY <2>2, <3>1, <4>2 DEF Alone
    <3>3. release' # NoRelease
      <4>1. NoRelease.status = "none"
        BY DEF NoRelease
      <4> QED
        BY <2>2, <4>1
    <3>4. CASE DeleteNamespace \/ NamespaceGone \/ Set(NoRelease, namespace) \/ UNCHANGED argo
      BY <3>3, <3>4 DEF Set, DeleteNamespace, NamespaceGone, argo
    <3> QED
      BY <2>2, <3>1, <3>2, <3>4, ArgoWrites
  <2> QED
    BY <1>1, <2>1, <2>2
<1> QED
  BY <1>1, Invariant, PTL DEF Spec, NoUpgradeInPlace

================================================================================
