------------------------------- MODULE JobRunner -------------------------------
(***************************************************************************)
(* internal/controller/jobrunner: one worker of the operator runs commands *)
(* (helm, or a command on the host) one after another.  RunJob creates a   *)
(* Kubernetes job, waits for it with bounded loops, reads the logs of its  *)
(* pods, and deletes it.  The job controller and the pods run on their own *)
(* and outlive a call that gave up and an operator that restarted.         *)
(*                                                                         *)
(* A job is named after the second it was created in, so a name is a time. *)
(* The script in the pod ends with status 0 whatever the command did: the  *)
(* job fails only if its pods are killed, and the only trace of a command  *)
(* that failed is what it wrote to stderr, found in the log of its pod.    *)
(***************************************************************************)
EXTENDS Naturals, FiniteSets

CONSTANTS
    StderrIsError, \* TRUE: RunHelmCommand; FALSE: RunHostCommand
    MaxProbes,     \* first loop of waitForJobCompletion (10 in the code)
    MaxPolls,      \* polls until the timeout (120 in the code)
    MaxTries,      \* pods of one job: BackoffLimit + 1 (3 in the code)
    MaxTime,       \* bound: seconds in which a call may start
    MaxFaults,     \* bound: failed requests, lost logs, killed pods
    MaxCrashes     \* bound: restarts of the operator

ASSUME JobAssumption ==
    /\ StderrIsError \in BOOLEAN
    /\ {MaxProbes, MaxPolls, MaxFaults, MaxCrashes} \subseteq Nat
    /\ {MaxTries, MaxTime} \subseteq Nat \ {0}

VARIABLES
    now,        \* the second that it is: the name of a job created now
    pc,         \* where the worker is in RunJob
    loops,      \* iterations of the loop that it is in
    callback,   \* waitForJobCompletion found the output callback
    failure,    \* waitForJobCompletion failed
    callbacks,  \* outputCallbacks, the map of the package
    job,        \* the jobs in the API server and what their pods have done
    cached,     \* what the informer cache says of each job
    stage,      \* of each name: how the last call with it ended, if it did
    count       \* how many faults, crashes and late caches there were

apiVars == <<job, cached>>
vars    == <<now, pc, loops, callback, failure, callbacks, job, cached, stage, count>>

Name  == 1..MaxTime
Event == {"fault", "crash", "lag"}

\* exists: the object is in the API server.  pod: a pod is live, and whether the
\* command in it is done.  acted, good: how often the command ran, and whether it
\* succeeded the last time.  noisy: a pod that ended left text on stderr.
Job == [exists : BOOLEAN, status : {"running", "complete", "failed"},
        tries : 0..MaxTries, pod : {"none", "live", "done"},
        acted : 0..MaxTries, good : BOOLEAN, noisy : BOOLEAN]

NoJob == [exists |-> FALSE, status |-> "running", tries |-> 0, pod |-> "none",
          acted |-> 0, good |-> FALSE, noisy |-> FALSE]

TypeOK ==
    /\ now \in 1..(MaxTime + 1)
    /\ pc \in {"idle", "create", "probe", "poll", "logs", "cleanup"}
    /\ loops \in 0..(IF pc = "probe" THEN MaxProbes ELSE MaxPolls)
    /\ callback \in BOOLEAN /\ failure \in BOOLEAN
    /\ callbacks \subseteq Name
    /\ job \in [Name -> Job]
    /\ cached \in [Name -> {"absent", "running", "complete", "failed"}]
    /\ stage \in [Name -> {"unmade", "waiting", "ok", "error", "abandoned"}]
    /\ count \in [Event -> Nat]

Init ==
    /\ now = 1
    /\ pc = "idle"
    /\ loops = 0
    /\ callback = FALSE /\ failure = FALSE
    /\ callbacks = {}
    /\ job = [n \in Name |-> NoJob]
    /\ cached = [n \in Name |-> "absent"]
    /\ stage = [n \in Name |-> "unmade"]
    /\ count = [e \in Event |-> 0]

Counted(what, max) ==
    /\ count[what] < max
    /\ count' = [count EXCEPT ![what] = @ + 1]

Fault == Counted("fault", MaxFaults)

View(n) == IF job[n].exists THEN job[n].status ELSE "absent"

(***************************************************************************)
(* RunJob.  The current call is the one named now.                         *)
(***************************************************************************)

\* A callback that is stored under another name than the job's.
StartCallUnregistered ==
    /\ pc = "idle"
    /\ now \in Name
    /\ pc' = "create"
    /\ stage' = [stage EXCEPT ![now] = "waiting"]
    /\ UNCHANGED <<now, loops, callback, failure, callbacks, apiVars, count>>

\* The callback is stored before the job is created, and never removed.
StartCall ==
    /\ pc = "idle"
    /\ now \in Name
    /\ pc' = "create"
    /\ callbacks' = callbacks \cup {now}
    /\ stage' = [stage EXCEPT ![now] = "waiting"]
    /\ UNCHANGED <<now, loops, callback, failure, apiVars, count>>

GoTo(where) ==
    /\ pc' = where
    /\ loops' = 0

\* The call returns.  Only one that created no job may take less than a second.
Return(result) ==
    /\ GoTo("idle")
    /\ stage' = [stage EXCEPT ![now] = result]
    /\ now' = now + 1
    /\ callback' = FALSE /\ failure' = FALSE

ReturnAtOnce(result) ==
    /\ GoTo("idle")
    /\ stage' = [stage EXCEPT ![now] = result]
    /\ UNCHANGED <<now, callback, failure>>

Created == [job EXCEPT ![now] = [NoJob EXCEPT !.exists = TRUE]]

CreateJob ==
    /\ pc = "create"
    /\ \/ /\ ~job[now].exists
          /\ job' = Created
          /\ GoTo("probe")
          /\ UNCHANGED <<now, callback, failure, stage, count>>
       \/ /\ job[now].exists                  \* the name is taken
          /\ ReturnAtOnce("error") \/ Return("error")
          /\ UNCHANGED <<job, count>>
       \/ /\ Fault                            \* the request, or its reply, is lost
          /\ UNCHANGED job \/ (~job[now].exists /\ job' = Created)
          /\ ReturnAtOnce("error") \/ Return("error")
    /\ UNCHANGED <<callbacks, cached>>

\* A first loop that waits for the cache as long as it takes.
ProbeForever ==
    /\ pc = "probe" /\ cached[now] # "absent"
    /\ callback' = (now \in callbacks)
    /\ GoTo("poll")
    /\ UNCHANGED <<now, failure, callbacks, apiVars, stage, count>>

\* First loop of waitForJobCompletion: it goes on as long as the cache does not
\* have the job, or has it with an active pod; its annotation leads to the callback.
Probe ==
    /\ pc = "probe"
    /\ \/ /\ cached[now] = "absent"
          /\ loops < MaxProbes
          /\ loops' = loops + 1
          /\ UNCHANGED <<pc, callback, count>>
       \/ /\ cached[now] = "absent"           \* the cache is late by 50 seconds
          /\ loops = MaxProbes
          /\ count' = [count EXCEPT !["lag"] = @ + 1]
          /\ GoTo("poll")
          /\ UNCHANGED callback
       \/ /\ cached[now] # "absent"
          /\ callback' = (now \in callbacks)
          /\ GoTo("poll")
          /\ UNCHANGED count
    /\ UNCHANGED <<now, failure, callbacks, apiVars, stage>>

\* A poll that takes the end of the pods for the completion of the job.
PollActivePods ==
    /\ pc = "poll"
    /\ \/ /\ cached[now] = "running" /\ job[now].pod # "none"
          /\ loops < MaxPolls
          /\ loops' = loops + 1
          /\ UNCHANGED <<pc, failure>>
       \/ /\ \/ cached[now] \in {"complete", "failed", "absent"}
             \/ job[now].pod = "none" \/ loops = MaxPolls
          /\ failure' = (cached[now] \in {"failed", "absent"} \/ loops = MaxPolls)
          /\ GoTo("logs")
    /\ UNCHANGED <<now, callback, callbacks, apiVars, stage, count>>

\* A poll without a timeout.
PollForever ==
    /\ pc = "poll"
    /\ \/ /\ cached[now] = "running"
          /\ loops' = loops + 1
          /\ UNCHANGED <<pc, failure>>
       \/ /\ cached[now] # "running"
          /\ failure' = (cached[now] # "complete")
          /\ GoTo("logs")
    /\ UNCHANGED <<now, callback, callbacks, apiVars, stage, count>>

\* The poll ends with the job, with an error if the job failed or cannot be read,
\* or with the timeout.
Poll ==
    /\ pc = "poll"
    /\ \/ /\ cached[now] = "running"
          /\ loops < MaxPolls
          /\ loops' = loops + 1
          /\ UNCHANGED <<pc, failure, count>>
       \/ /\ \/ cached[now] \in {"complete", "failed", "absent"}
             \/ loops = MaxPolls
          /\ failure' = (cached[now] # "complete")
          /\ GoTo("logs")
          /\ UNCHANGED count
       \/ /\ Fault
          /\ failure' = TRUE
          /\ GoTo("logs")
    /\ UNCHANGED <<now, callback, callbacks, apiVars, stage>>

\* Is text on stderr reported?  The logs that cannot be read are skipped, those of
\* all pods if the callback was not found.
Heard == StderrIsError /\ job[now].noisy

CollectLogs ==
    /\ pc = "logs"
    /\ \/ /\ callback /\ Heard
          /\ failure' = TRUE
          /\ UNCHANGED count
       \/ /\ ~(callback /\ Heard)
          /\ UNCHANGED <<failure, count>>
       \/ /\ Fault                            \* the pods cannot be listed, or
          /\ failure' \in {TRUE, failure}     \* their logs are lost
    /\ GoTo("cleanup")
    /\ UNCHANGED <<now, callback, callbacks, apiVars, stage>>

\* A job that stays after its completion.
KeepJob ==
    /\ pc = "cleanup"
    /\ Return(IF failure THEN "error" ELSE "ok")
    /\ UNCHANGED <<callbacks, apiVars, count>>

\* Delete the pods and the job.  A pod that is live gets a period of grace.
Cleanup ==
    /\ pc = "cleanup"
    /\ \/ /\ cached[now] # "absent"
          /\ job' = [job EXCEPT ![now].exists = FALSE]
          /\ UNCHANGED count
       \/ /\ cached[now] = "absent"           \* nothing found to delete
          /\ UNCHANGED <<job, count>>
       \/ /\ Fault                            \* errors are only logged
          /\ UNCHANGED job
    /\ Return(IF failure THEN "error" ELSE "ok")
    /\ UNCHANGED <<callbacks, cached>>

(***************************************************************************)
(* Kubernetes: the informer, the job controller, the pods.                 *)
(***************************************************************************)
DeliverJob(n) ==
    /\ cached[n] # View(n)
    /\ cached' = [cached EXCEPT ![n] = View(n)]
    /\ UNCHANGED <<now, pc, loops, callback, failure, callbacks, job, stage, count>>

PodStep(n, j) ==
    /\ job' = [job EXCEPT ![n] = j]
    /\ UNCHANGED <<now, pc, loops, callback, failure, callbacks, cached, stage>>

PodStarts(n) ==
    /\ job[n].exists /\ job[n].status = "running"
    /\ job[n].pod = "none" /\ job[n].tries < MaxTries
    /\ PodStep(n, [job[n] EXCEPT !.pod = "live", !.tries = @ + 1])
    /\ UNCHANGED count

\* The command acts on the cluster, or on the host, and succeeds or fails.
CommandActs(n) ==
    /\ job[n].pod = "live"
    /\ \E g \in BOOLEAN :
          PodStep(n, [job[n] EXCEPT !.pod = "done", !.acted = @ + 1, !.good = g])
    /\ UNCHANGED count

\* The script prints and ends with status 0.  A command that failed wrote to
\* stderr; one that succeeded may have written a warning there.
PodEnds(n) ==
    /\ job[n].pod = "done"
    /\ \E noise \in BOOLEAN :
          /\ ~job[n].good => noise
          /\ PodStep(n, [job[n] EXCEPT !.pod = "none", !.noisy = @ \/ noise,
                           !.status = IF job[n].exists THEN "complete" ELSE @])
    /\ UNCHANGED count

\* The pod is evicted, its node restarts, its script fails before the command (it
\* runs under "set -e"), or it was deleted with its job.
PodKilled(n) ==
    /\ job[n].pod # "none"
    /\ \/ ~job[n].exists /\ UNCHANGED count
       \/ job[n].exists /\ Fault
    /\ PodStep(n, [job[n] EXCEPT !.pod = "none",
                     !.status = IF job[n].exists /\ job[n].tries = MaxTries
                                THEN "failed" ELSE @])

Crash ==
    /\ Counted("crash", MaxCrashes)
    /\ GoTo("idle")
    /\ callback' = FALSE /\ failure' = FALSE /\ callbacks' = {}
    /\ cached' = [n \in Name |-> View(n)]
    /\ stage' = [n \in Name |-> IF stage[n] = "waiting" THEN "abandoned" ELSE stage[n]]
    /\ now' = IF pc = "idle" THEN now ELSE now + 1
    /\ UNCHANGED job

WorkerStep == CreateJob \/ Probe \/ Poll \/ CollectLogs \/ Cleanup

Next ==
    \/ StartCall \/ WorkerStep \/ Crash
    \/ \E n \in Name : \/ DeliverJob(n) \/ PodStarts(n) \/ CommandActs(n)
                       \/ PodEnds(n) \/ PodKilled(n)

\* The worker runs, and every loop of it is bounded: nothing is asked of Kubernetes.
Spec == Init /\ [][Next]_vars /\ WF_vars(WorkerStep)

--------------------------------------------------------------------------------
(***************************************************************************)
(* The contract: RunHelmCommand and RunHostCommand implement CommandCall.  *)
(***************************************************************************)
Runs(n) ==
    job[n].pod # "none" \/ (job[n].exists /\ job[n].status = "running")

Stage(n) ==
    IF n = now /\ pc = "create" /\ job[n].exists THEN "refused" ELSE stage[n]

Contract == INSTANCE CommandCall
            WITH Call <- Name, MaxRuns <- MaxTries,
                 stage <- [n \in Name |-> Stage(n)],
                 running <- [n \in Name |-> Runs(n)],
                 acted <- [n \in Name |-> job[n].acted],
                 good <- [n \in Name |-> job[n].good]

\* Whatever Kubernetes does, the command of a call acts at most MaxTries times, and
\* when the call returned without an error it has acted and does not run any more,
\* in spite of polls through a stale cache, retried pods and jobs that were not deleted.
ImplementsContract == Contract!CallSteps

\* Every call ends: no wait of the worker depends on Kubernetes alone.
CallsReturn == Contract!CallFairness

\* A failed request or clean-up, a restart and a late cache may each leave one job
\* behind, and nothing else leaves any: what hack/delete-orphaned-jobs.sh has to
\* remove never outnumbers the mishaps.
OneOrphanPerMishap ==
    Cardinality({n \in Name : job[n].exists /\ stage[n] # "waiting"})
        <= count["fault"] + count["crash"] + count["lag"]

\* Commands of two calls run at the same time only if the earlier call ended with
\* an error or was cut off by a restart: then its pod may still be going on, while
\* the retry is already at work on the same release.
OverlapOnlyAfterError ==
    \A m, n \in Name :
        m < n /\ job[m].pod # "none" /\ job[n].pod # "none" =>
            stage[m] \in {"error", "abandoned"}

\* A lost log or a late cache, which loses the callback, may each hide the failure of
\* one helm command, and nothing else hides any: stderr is the only trace of it, since
\* the job is complete all the same.
OneFailureLostPerMishap ==
    StderrIsError =>
        Cardinality({n \in Name : stage[n] = "ok" /\ ~job[n].good})
            <= count["fault"] + count["lag"]

\* What the script says of the exit code of the command (jobrunner.go:673, "just
\* return the exit code for the main script"): a call that returns without an
\* error ran a command that succeeded.
SuccessIsReal == \A n \in Name : stage[n] = "ok" => job[n].good

================================================================================
