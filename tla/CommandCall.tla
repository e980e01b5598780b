------------------------------ MODULE CommandCall ------------------------------
(***************************************************************************)
(* What a caller of RunHelmCommand and RunHostCommand may rely on.  A call *)
(* runs its command in a Kubernetes job.  The command acts on the cluster  *)
(* up to MaxRuns times, as long as it runs; it may be running long after   *)
(* its caller got an error, or died.  Only a call that returned without an *)
(* error is over: its command acted, and acts no more.                     *)
(***************************************************************************)
EXTENDS Naturals

CONSTANTS
    Call,      \* names of calls; the name of one that is over can be used again
    MaxRuns    \* how often the job controller may start the command of a call

ASSUME CallAssumption == MaxRuns \in Nat \ {0}

VARIABLES
    stage,     \* of each call: how it stands with its caller
    running,   \* its command runs, or will be started
    acted,     \* how often its command has acted
    good       \* its command succeeded the last time that it acted

callVars == <<stage, running, acted, good>>

Awaited == {"waiting", "refused"}

CallTypeOK ==
    /\ stage \in [Call -> {"unmade", "ok", "error", "abandoned"} \cup Awaited]
    /\ running \in [Call -> BOOLEAN]
    /\ acted \in [Call -> 0..MaxRuns]
    /\ good \in [Call -> BOOLEAN]

CallInit ==
    /\ stage = [c \in Call |-> "unmade"]
    /\ running = [c \in Call |-> FALSE]
    /\ acted = [c \in Call |-> 0]
    /\ good = [c \in Call |-> FALSE]

Make(c) ==
    /\ stage[c] \notin Awaited /\ ~running[c]
    /\ stage' = [stage EXCEPT ![c] = "waiting"]
    /\ acted' = [acted EXCEPT ![c] = 0]
    /\ good' = [good EXCEPT ![c] = FALSE]
    /\ UNCHANGED running

\* The name is taken by the job of an earlier call: this one can only fail.
Collide(c) ==
    /\ stage[c] = "error"
    /\ stage' = [stage EXCEPT ![c] = "refused"]
    /\ UNCHANGED <<running, acted, good>>

Begin(c) ==
    /\ stage[c] = "waiting" /\ acted[c] = 0 /\ ~running[c]
    /\ running' = [running EXCEPT ![c] = TRUE]
    /\ UNCHANGED <<stage, acted, good>>

Act(c) ==
    /\ running[c]
    /\ acted[c] < MaxRuns
    /\ acted' = [acted EXCEPT ![c] = @ + 1]
    /\ \E g \in BOOLEAN : good' = [good EXCEPT ![c] = g]
    /\ UNCHANGED <<stage, running>>

Stop(c) ==
    /\ running[c]
    /\ running' = [running EXCEPT ![c] = FALSE]
    /\ UNCHANGED <<stage, acted, good>>

ReturnOk(c) ==
    /\ stage[c] = "waiting" /\ ~running[c] /\ acted[c] > 0
    /\ stage' = [stage EXCEPT ![c] = "ok"]
    /\ UNCHANGED <<running, acted, good>>

\* An error tells nothing: the command may be running, or be stopped by this very
\* step, or be started by it (the reply to the creation of the job was lost).
ReturnError(c) ==
    /\ stage[c] \in Awaited
    /\ stage' = [stage EXCEPT ![c] = "error"]
    /\ \E r \in BOOLEAN :
          /\ r => running[c] \/ (stage[c] = "waiting" /\ acted[c] = 0)
          /\ running' = [running EXCEPT ![c] = r]
    /\ UNCHANGED <<acted, good>>

\* The operator restarts: nobody waits for the answer any more.
Abandon(c) ==
    /\ stage[c] \in Awaited
    /\ stage' = [stage EXCEPT ![c] = "abandoned"]
    /\ UNCHANGED <<running, acted, good>>

Return(c) == ReturnOk(c) \/ ReturnError(c) \/ Abandon(c)

CallNext ==
    \E c \in Call : Make(c) \/ Collide(c) \/ Begin(c) \/ Act(c) \/ Stop(c) \/ Return(c)

CallSteps == CallInit /\ [][CallNext]_callVars

\* A call that is waited for ends: every wait in the job runner is bounded.
CallFairness == \A c \in Call : WF_callVars(Return(c))

CallSpec == CallSteps /\ CallFairness

================================================================================
