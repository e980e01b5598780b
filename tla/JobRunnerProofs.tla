---------------------------- MODULE JobRunnerProofs ----------------------------
(***************************************************************************)
(* What RunHelmCommand and RunHostCommand promise their callers, for any   *)
(* number of calls, pods, polls, faults and restarts: a step of the job    *)
(* runner or of Kubernetes is a step of CommandCall, or changes nothing    *)
(* that CommandCall speaks of.                                             *)
(***************************************************************************)
EXTENDS JobRunner, FiniteSetTheorems, TLAPS

(***************************************************************************)
(* The inductive invariant.                                                *)
(***************************************************************************)

\* A name is never used for a second job, so that what a job and its cached status
\* say only ever advances: an end of the job is the end of its pods, and a completion
\* means that the command acted, and left a trace if it failed.
JobOK(j, seen) ==
    /\ j.acted <= j.tries
    /\ j.pod = "live" => j.acted < j.tries
    /\ j.pod = "done" => j.acted > 0
    /\ j.status # "running" => j.pod = "none"
    /\ j.status = "complete" => j.acted > 0 /\ (j.good \/ j.noisy)
    /\ seen \in {"complete", "failed"} => j.status = seen

JobsOK == \A n \in Name : JobOK(job[n], cached[n])

\* The calls before this one have ended, those after it have not begun, and only
\* this one can be waiting.
CallsOK ==
    /\ pc # "idle" => now \in Name
    /\ \A n \in Name :
          /\ stage[n] = "waiting" <=> pc # "idle" /\ n = now
          /\ n < now => stage[n] \in {"ok", "error", "abandoned"}
          /\ n > now => stage[n] = "unmade"
          /\ n = now /\ pc = "idle" => stage[n] \in {"unmade", "error"}
          /\ stage[n] = "unmade" => job[n] = NoJob
          /\ n = now /\ pc \in {"idle", "create"} /\ ~job[n].exists => job[n] = NoJob

\* A call that goes on to wait has a job, and no error means that it is complete.
Waiting == pc \in {"probe", "poll", "logs", "cleanup"}

ResultOK ==
    /\ Waiting => job[now].exists
    /\ pc \in {"logs", "cleanup"} /\ ~failure => job[now].status = "complete"
    /\ \A n \in Name : stage[n] = "ok" => job[n].status = "complete"

\* The jobs that are there and that nobody will delete any more: of the call that waits,
\* one that the cache does not have when the first loop is over.
Lost ==
    {n \in Name :
        /\ job[n].exists
        /\ ~(n = now /\ Waiting /\ (pc = "probe" \/ cached[n] # "absent"))}

\* The calls that hide a failure, or are about to: of the call that waits, one without
\* a callback before the logs, and a failure that was not heard in them.
Unheard ==
    {n \in Name :
        \/ stage[n] = "ok" /\ ~job[n].good
        \/ n = now /\ pc \in {"poll", "logs"} /\ ~callback
        \/ n = now /\ pc = "cleanup" /\ ~failure /\ ~job[n].good}

Mishaps == count["fault"] + count["crash"] + count["lag"]
Losses  == count["fault"] + count["lag"]

\* Each mishap accounts for at most one of them.
MishapsOK ==
    /\ pc \in {"create", "probe"} => now \in callbacks
    /\ Cardinality(Lost) <= Mishaps
    /\ StderrIsError => Cardinality(Unheard) <= Losses

IInv == TypeOK /\ JobsOK /\ CallsOK /\ ResultOK /\ MishapsOK

(***************************************************************************)
(* Types.                                                                  *)
(***************************************************************************)

\* The fields of a job.
LEMMA JobFields ==
    ASSUME job \in [Name -> Job], NEW n \in Name
    PROVE  /\ job[n].exists \in BOOLEAN /\ job[n].status \in {"running", "complete", "failed"}
           /\ job[n].tries \in 0..MaxTries /\ job[n].pod \in {"none", "live", "done"}
           /\ job[n].acted \in 0..MaxTries /\ job[n].good \in BOOLEAN
           /\ job[n].noisy \in BOOLEAN
BY DEF Job

\* What the cache can say of a job.
LEMMA ViewType ==
    ASSUME job \in [Name -> Job], NEW n \in Name
    PROVE  View(n) \in {"absent", "running", "complete", "failed"}
BY JobFields DEF View

\* Steps only count events.
LEMMA Counting ==
    ASSUME TypeOK, Next
    PROVE  count' \in [Event -> Nat] /\ \A e \in Event : count[e] <= count'[e]
<1>1. ASSUME NEW e \in Event, NEW max, Counted(e, max)
      PROVE  count' \in [Event -> Nat] /\ \A f \in Event : count[f] <= count'[f]
  BY <1>1 DEF TypeOK, Counted
<1>2. CASE Crash \/ Fault
  BY <1>1, <1>2 DEF Crash, Fault, Event
<1>3. CASE UNCHANGED count \/ count' = [count EXCEPT !["lag"] = @ + 1]
  BY <1>3 DEF TypeOK, Event
<1> QED
  BY <1>2, <1>3
  DEF Next, WorkerStep, StartCall, CreateJob, Probe, Poll, CollectLogs, Cleanup,
      DeliverJob, PodStarts, CommandActs, PodEnds, PodKilled, apiVars

\* What one step of Kubernetes makes of a job is a job.
LEMMA PodStepType ==
    ASSUME IInv, NEW n \in Name,
           PodStarts(n) \/ CommandActs(n) \/ PodEnds(n) \/ PodKilled(n)
    PROVE  job' \in [Name -> Job]
<1>0. job \in [Name -> Job] /\ job[n] \in Job
  BY DEF IInv, TypeOK
<1>1. CASE PodStarts(n)
  <2>1. job[n].tries + 1 \in 0..MaxTries
    BY <1>0, <1>1, JobFields, JobAssumption DEF PodStarts
  <2>2. \A t \in 0..MaxTries : [job[n] EXCEPT !.pod = "live", !.tries = t] \in Job
    BY <1>0 DEF Job
  <2>3. [job[n] EXCEPT !.pod = "live", !.tries = @ + 1] \in Job
    BY <2>1, <2>2
  <2> QED
    BY <1>0, <1>1, <2>3 DEF PodStarts, PodStep
<1>2. CASE CommandActs(n)
  <2>1. job[n].acted + 1 \in 0..MaxTries
    <3>1. job[n].acted \in 0..MaxTries /\ job[n].tries \in 0..MaxTries /\ MaxTries \in Nat
      BY <1>0, JobFields, JobAssumption
    <3>2. job[n].acted < job[n].tries
      BY <1>2 DEF CommandActs, IInv, JobsOK, JobOK
    <3> QED
      BY <3>1, <3>2
  <2>2. \A g \in BOOLEAN : [job[n] EXCEPT !.pod = "done", !.acted = @ + 1, !.good = g] \in Job
    BY <1>0, <2>1 DEF Job
  <2> QED
    BY <1>0, <1>2, <2>2 DEF CommandActs, PodStep
<1>3. CASE PodEnds(n)
  <2>1. \A s \in {"complete", job[n].status}, b \in BOOLEAN :
           [job[n] EXCEPT !.pod = "none", !.noisy = b, !.status = s] \in Job
    BY <1>0 DEF Job
  <2>2. \A noise \in BOOLEAN : (job[n].noisy \/ noise) \in BOOLEAN
    BY <1>0, JobFields
  <2> QED
    BY <1>0, <1>3, <2>1, <2>2 DEF PodEnds, PodStep
<1>4. CASE PodKilled(n)
  <2>1. \A s \in {"failed", job[n].status} :
           [job[n] EXCEPT !.pod = "none", !.status = s] \in Job
    BY <1>0 DEF Job
  <2> QED
    BY <1>0, <1>4, <2>1 DEF PodKilled, PodStep
<1> QED
  BY <1>1, <1>2, <1>3, <1>4

\* It concerns a job that has not ended, and that job only.
LEMMA PodStepFacts ==
    ASSUME IInv, NEW n \in Name,
           PodStarts(n) \/ CommandActs(n) \/ PodEnds(n) \/ PodKilled(n)
    PROVE  /\ UNCHANGED <<now, pc, loops, callback, failure, callbacks, cached, stage>>
           /\ \A m \in Name \ {n} : job'[m] = job[m]
           /\ job'[n].exists = job[n].exists
           /\ job[n].status = "running" /\ job[n] # NoJob
<1>0. job \in [Name -> Job] /\ job[n] \in Job
  BY DEF IInv, TypeOK
<1>1. job[n].status = "running" /\ (job[n].exists \/ job[n].pod # "none")
  BY DEF IInv, JobsOK, JobOK, PodStarts, CommandActs, PodEnds, PodKilled
<1>2. ~NoJob.exists /\ NoJob.pod = "none"
  BY DEF NoJob
<1>3. (\A m \in Name \ {n} : job'[m] = job[m]) /\ job'[n].exists = job[n].exists
  <2>1. CASE PodStarts(n)
    BY <1>0, <2>1 DEF PodStarts, PodStep, Job
  <2>2. CASE CommandActs(n)
    <3>1. PICK g \in BOOLEAN :
              PodStep(n, [job[n] EXCEPT !.pod = "done", !.acted = @ + 1, !.good = g])
      BY <2>2 DEF CommandActs
    <3> QED
      BY <1>0, <3>1 DEF PodStep, Job
  <2>3. CASE PodEnds(n)
    <3>1. PICK j : PodStep(n, j) /\ j.exists = job[n].exists
      <4>1. PICK noise \in BOOLEAN :
                PodStep(n, [job[n] EXCEPT !.pod = "none", !.noisy = @ \/ noise,
                                !.status = IF job[n].exists THEN "complete" ELSE @])
        BY <2>3 DEF PodEnds
      <4>2. \A b, t : [job[n] EXCEPT !.pod = "none", !.noisy = b,
                                     !.status = t].exists = job[n].exists
        BY <1>0 DEF Job
      <4> QED
        BY <4>1, <4>2
    <3> QED
      BY <1>0, <3>1 DEF PodStep
  <2>4. CASE PodKilled(n)
    BY <1>0, <2>4 DEF PodKilled, PodStep, Job
  <2> QED
    BY <2>1, <2>2, <2>3, <2>4
<1> QED
  BY <1>1, <1>2, <1>3 DEF PodStep, PodStarts, CommandActs, PodEnds, PodKilled

\* What the worker and the API server do to the jobs.
LEMMA CreatedType ==
    ASSUME TypeOK, now \in Name, job' = Created
    PROVE  /\ job' \in [Name -> Job]
           /\ \A m \in Name \ {now} : job'[m] = job[m]
           /\ job'[now] = [NoJob EXCEPT !.exists = TRUE]
<1>1. NoJob \in Job
  BY JobAssumption DEF NoJob, Job
<1>2. [NoJob EXCEPT !.exists = TRUE] \in Job
  BY <1>1 DEF Job
<1> QED
  BY <1>2 DEF TypeOK, Created

\* Clean-up changes only whether the job of this call exists.
LEMMA RemovedType ==
    ASSUME TypeOK, now \in Name, job' = [job EXCEPT ![now].exists = FALSE]
    PROVE  /\ job' \in [Name -> Job]
           /\ \A m \in Name \ {now} : job'[m] = job[m]
           /\ job'[now] = [job[now] EXCEPT !.exists = FALSE]
BY DEF TypeOK, Job

\* Every step keeps the types.
LEMMA TypeStep ==
    ASSUME IInv, Next
    PROVE  TypeOK'
<1> USE DEF apiVars
<1>0. /\ TypeOK /\ now \in 1..(MaxTime + 1) /\ MaxProbes \in Nat /\ MaxPolls \in Nat
      /\ MaxTime \in Nat /\ (pc # "idle" => now \in 1..MaxTime)
  BY JobAssumption DEF IInv, TypeOK, CallsOK, Name
<1>1. count' \in [Event -> Nat]
  BY <1>0, Counting
<1>2. pc' \in {"idle", "create", "probe", "poll", "logs", "cleanup"}
  BY <1>0
  DEF TypeOK, Next, WorkerStep, StartCall, CreateJob, Probe, Poll, CollectLogs, Cleanup,
      Crash, DeliverJob, PodStarts, CommandActs, PodEnds, PodKilled, PodStep, GoTo,
      Return, ReturnAtOnce
<1>3. loops' \in 0..(IF pc' = "probe" THEN MaxProbes ELSE MaxPolls)
  <2>1. \/ loops' = 0
        \/ loops' = loops /\ pc' = pc
        \/ loops' = loops /\ pc = "idle" /\ pc' = "create"
        \/ loops' = loops + 1 /\ pc' = pc /\ pc = "probe" /\ loops < MaxProbes
        \/ loops' = loops + 1 /\ pc' = pc /\ pc = "poll" /\ loops < MaxPolls
    BY DEF Next, WorkerStep, StartCall, CreateJob, Probe, Poll, CollectLogs, Cleanup,
           Crash, DeliverJob, PodStarts, CommandActs, PodEnds, PodKilled, PodStep, GoTo,
           Return, ReturnAtOnce
  <2>2. loops \in 0..(IF pc = "probe" THEN MaxProbes ELSE MaxPolls)
    BY <1>0 DEF TypeOK
  <2> QED
    BY <1>0, <2>1, <2>2
<1>4. callback' \in BOOLEAN /\ failure' \in BOOLEAN
  <2>1. callback' = callback \/ callback' = FALSE \/ callback' = (now \in callbacks)
    BY DEF Next, WorkerStep, StartCall, CreateJob, Probe, Poll, CollectLogs, Cleanup,
           Crash, DeliverJob, PodStarts, CommandActs, PodEnds, PodKilled, PodStep,
           Return, ReturnAtOnce
  <2>2. \/ failure' = failure \/ failure' = FALSE \/ failure' = TRUE
        \/ failure' = (cached[now] # "complete")
    BY DEF Next, WorkerStep, StartCall, CreateJob, Probe, Poll, CollectLogs, Cleanup,
           Crash, DeliverJob, PodStarts, CommandActs, PodEnds, PodKilled, PodStep,
           Return, ReturnAtOnce
  <2>3. callback \in BOOLEAN /\ failure \in BOOLEAN
    BY <1>0 DEF TypeOK
  <2>4. (now \in callbacks) \in BOOLEAN /\ (cached[now] # "complete") \in BOOLEAN
    OBVIOUS
  <2>5. callback' \in BOOLEAN /\ failure' \in BOOLEAN
    BY <2>1, <2>2, <2>3, <2>4, Zenon
  <2> QED
    BY <2>5
<1>5. now' \in 1..(MaxTime + 1)
  <2>1. now' = now \/ (pc # "idle" /\ now' = now + 1)
    BY DEF Next, WorkerStep, StartCall, CreateJob, Probe, Poll, CollectLogs, Cleanup,
           Crash, DeliverJob, PodStarts, CommandActs, PodEnds, PodKilled, PodStep,
           Return, ReturnAtOnce
  <2> QED
    BY <1>0, <2>1
<1>6. stage' \in [Name -> {"unmade", "waiting", "ok", "error", "abandoned"}]
  <2>1. CASE Crash
    BY <1>0, <2>1 DEF Crash, TypeOK
  <2>2. \/ Crash
        \/ stage' = stage
        \/ \E s \in {"waiting", "ok", "error"} : stage' = [stage EXCEPT ![now] = s]
    BY DEF Next, WorkerStep, StartCall, CreateJob, Probe, Poll, CollectLogs, Cleanup,
           DeliverJob, PodStarts, CommandActs, PodEnds, PodKilled, PodStep,
           Return, ReturnAtOnce
  <2> QED
    BY <1>0, <2>1, <2>2 DEF TypeOK
<1>7. callbacks' \subseteq Name
  BY <1>0
  DEF TypeOK, Next, WorkerStep, StartCall, CreateJob, Probe, Poll, CollectLogs, Cleanup,
      Crash, DeliverJob, PodStarts, CommandActs, PodEnds, PodKilled, PodStep
<1>8. job' \in [Name -> Job]
  <2>1. CASE CreateJob
    BY <1>0, <2>1, CreatedType DEF CreateJob, TypeOK, Name
  <2>2. CASE Cleanup
    BY <1>0, <2>2, RemovedType DEF Cleanup, TypeOK, Name
  <2>3. ASSUME NEW n \in Name,
               PodStarts(n) \/ CommandActs(n) \/ PodEnds(n) \/ PodKilled(n)
        PROVE  job' \in [Name -> Job]
    BY <2>3, PodStepType
  <2>4. CASE UNCHANGED job
    BY <1>0, <2>4 DEF TypeOK
  <2> QED
    BY <2>1, <2>2, <2>3, <2>4
    DEF Next, WorkerStep, StartCall, Probe, Poll, CollectLogs, Crash, DeliverJob
<1>9. cached' \in [Name -> {"absent", "running", "complete", "failed"}]
  <2>1. \A n \in Name : View(n) \in {"absent", "running", "complete", "failed"}
    BY <1>0, ViewType DEF TypeOK
  <2>2. \/ cached' = cached
        \/ cached' = [n \in Name |-> View(n)]
        \/ \E n \in Name : cached' = [cached EXCEPT ![n] = View(n)]
    BY DEF Next, WorkerStep, StartCall, CreateJob, Probe, Poll, CollectLogs, Cleanup,
           Crash, DeliverJob, PodStarts, CommandActs, PodEnds, PodKilled, PodStep
  <2> QED
    BY <1>0, <2>1, <2>2 DEF TypeOK
<1> QED
  BY <1>1, <1>2, <1>3, <1>4, <1>5, <1>6, <1>7, <1>8, <1>9 DEF TypeOK

(***************************************************************************)
(* The jobs.                                                               *)
(***************************************************************************)

\* What a pod that ends leaves of its job: the command has acted as before, and
\* it did not fail without a trace.
LEMMA PodEndsFields ==
    ASSUME IInv, NEW n \in Name, PodEnds(n)
    PROVE  /\ job'[n].tries = job[n].tries /\ job'[n].acted = job[n].acted
           /\ job'[n].pod = "none" /\ job'[n].good = job[n].good
           /\ job'[n].status \in {"complete", "running"}
           /\ job'[n].good \/ job'[n].noisy
<1>0. job \in [Name -> Job] /\ job[n] \in Job /\ job[n].status = "running"
  BY PodStepFacts DEF IInv, TypeOK
<1>1. PICK noise \in BOOLEAN :
          /\ ~job[n].good => noise
          /\ PodStep(n, [job[n] EXCEPT !.pod = "none", !.noisy = @ \/ noise,
                            !.status = IF job[n].exists THEN "complete" ELSE @])
  BY DEF PodEnds
<1>2. \A b, t :
          LET j == [job[n] EXCEPT !.pod = "none", !.noisy = b, !.status = t]
          IN  /\ j.tries = job[n].tries /\ j.acted = job[n].acted /\ j.pod = "none"
              /\ j.good = job[n].good /\ j.status = t /\ j.noisy = b
  BY <1>0 DEF Job
<1>3. /\ job'[n].tries = job[n].tries /\ job'[n].acted = job[n].acted
      /\ job'[n].pod = "none" /\ job'[n].good = job[n].good
      /\ job'[n].status \in {"complete", "running"}
      /\ job'[n].noisy = (job[n].noisy \/ noise)
  BY <1>0, <1>1, <1>2 DEF PodStep
<1> QED
  BY <1>1, <1>3

\* A step of Kubernetes keeps what is known of the job.
LEMMA PodStepOK ==
    ASSUME IInv, NEW n \in Name,
           PodStarts(n) \/ CommandActs(n) \/ PodEnds(n) \/ PodKilled(n)
    PROVE  JobOK(job'[n], cached'[n])
<1>0. /\ job \in [Name -> Job] /\ job[n] \in Job /\ JobOK(job[n], cached[n])
      /\ cached' = cached /\ job[n].status = "running"
  BY PodStepFacts DEF IInv, TypeOK, JobsOK
<1>1. job[n].acted \in Nat /\ job[n].tries \in Nat
  BY <1>0, JobFields, JobAssumption
<1>2. CASE PodStarts(n)
  <2>1. /\ job'[n].tries = job[n].tries + 1 /\ job'[n].acted = job[n].acted
        /\ job'[n].pod = "live" /\ job'[n].status = "running"
    BY <1>0, <1>2 DEF PodStarts, PodStep, Job
  <2> QED
    BY <1>0, <1>1, <2>1 DEF JobOK
<1>3. CASE CommandActs(n)
  <2>1. PICK g \in BOOLEAN :
            PodStep(n, [job[n] EXCEPT !.pod = "done", !.acted = @ + 1, !.good = g])
    BY <1>3 DEF CommandActs
  <2>2. /\ job'[n].tries = job[n].tries /\ job'[n].acted = job[n].acted + 1
        /\ job'[n].pod = "done" /\ job'[n].status = "running" /\ job[n].pod = "live"
    BY <1>0, <1>3, <2>1 DEF CommandActs, PodStep, Job
  <2> QED
    BY <1>0, <1>1, <2>2 DEF JobOK
<1>4. CASE PodEnds(n)
  <2>1. job[n].acted > 0 /\ ~(cached[n] \in {"complete", "failed"})
    BY <1>0, <1>4 DEF PodEnds, JobOK
  <2> QED
    BY <1>0, <1>1, <1>4, <2>1, PodEndsFields DEF JobOK
<1>5. CASE PodKilled(n)
  <2>1. /\ job'[n].tries = job[n].tries /\ job'[n].acted = job[n].acted
        /\ job'[n].pod = "none" /\ job'[n].status \in {"failed", "running"}
    BY <1>0, <1>5 DEF PodKilled, PodStep, Job
  <2> QED
    BY <1>0, <1>1, <2>1 DEF JobOK
<1> QED
  BY <1>2, <1>3, <1>4, <1>5

\* A job that is not there any more says as much as before.
LEMMA RemovedOK ==
    ASSUME NEW j \in Job, NEW seen, JobOK(j, seen)
    PROVE  JobOK([j EXCEPT !.exists = FALSE], seen)
BY DEF JobOK, Job

\* Every step keeps what is known of the jobs.
LEMMA JobsStep ==
    ASSUME IInv, Next
    PROVE  JobsOK'
<1> USE DEF apiVars
<1>0. /\ TypeOK /\ job \in [Name -> Job] /\ cached \in [Name -> {"absent", "running", "complete", "failed"}]
      /\ (pc # "idle" => now \in Name) /\ \A n \in Name : JobOK(job[n], cached[n])
  BY DEF IInv, TypeOK, CallsOK, JobsOK
<1>1. CASE CreateJob
  <2>1. CASE UNCHANGED <<job, cached>>
    BY <1>0, <2>1 DEF JobsOK
  <2>2. CASE pc = "create" /\ ~job[now].exists /\ job' = Created /\ UNCHANGED cached
    <3>1. job[now] = NoJob /\ now \in Name
      BY <1>0, <2>2 DEF IInv, CallsOK
    <3>2. JobOK(job'[now], cached'[now])
      <4>1. job'[now] = [NoJob EXCEPT !.exists = TRUE]
        BY <1>0, <2>2, <3>1, CreatedType
      <4>2. cached'[now] \notin {"complete", "failed"}
        BY <1>0, <2>2, <3>1 DEF JobOK, NoJob
      <4> QED
        BY <4>1, <4>2 DEF JobOK, NoJob
    <3> QED
      BY <1>0, <2>2, <3>1, <3>2, CreatedType DEF JobsOK
  <2> QED
    BY <1>1, <2>1, <2>2 DEF CreateJob
<1>2. CASE Cleanup
  <2>1. CASE UNCHANGED <<job, cached>>
    BY <1>0, <2>1 DEF JobsOK
  <2>2. CASE pc = "cleanup" /\ job' = [job EXCEPT ![now].exists = FALSE] /\ UNCHANGED cached
    BY <1>0, <2>2, RemovedType, RemovedOK DEF JobsOK
  <2> QED
    BY <1>2, <2>1, <2>2 DEF Cleanup
<1>3. ASSUME NEW n \in Name, JobOK(job[n], cached[n])
      PROVE  JobOK(job[n], View(n))
  BY <1>3 DEF View, JobOK
<1>4. CASE Crash
  BY <1>0, <1>3, <1>4 DEF Crash, JobsOK
<1>5. ASSUME NEW n \in Name, DeliverJob(n)
      PROVE  JobsOK'
  BY <1>0, <1>3, <1>5 DEF DeliverJob, JobsOK
<1>6. ASSUME NEW n \in Name,
             PodStarts(n) \/ CommandActs(n) \/ PodEnds(n) \/ PodKilled(n)
      PROVE  JobsOK'
  BY <1>0, <1>6, PodStepOK, PodStepFacts DEF JobsOK
<1>7. CASE UNCHANGED <<job, cached>>
  BY <1>0, <1>7 DEF JobsOK
<1> QED
  BY <1>1, <1>2, <1>4, <1>5, <1>6, <1>7
  DEF Next, WorkerStep, StartCall, Probe, Poll, CollectLogs

(***************************************************************************)
(* The calls.                                                              *)
(***************************************************************************)

\* How a step moves the worker from one call to the next.
LEMMA CallMoves ==
    ASSUME IInv, Next
    PROVE  \/ /\ pc = "idle" /\ now \in Name /\ pc' = "create" /\ now' = now
              /\ stage' = [stage EXCEPT ![now] = "waiting"] /\ job' = job
           \/ /\ pc # "idle" /\ pc' # "idle" /\ UNCHANGED <<now, stage>>
              /\ pc' \in {"idle", "create"} <=> pc \in {"idle", "create"}
           \/ /\ pc = "create" /\ pc' = "probe" /\ UNCHANGED <<now, stage>>
              /\ job' = Created /\ ~job[now].exists
           \/ /\ pc = "create" /\ pc' = "idle" /\ now' \in {now, now + 1}
              /\ stage' = [stage EXCEPT ![now] = "error"]
              /\ job' = job \/ (job' = Created /\ ~job[now].exists)
           \/ /\ pc = "cleanup" /\ pc' = "idle" /\ now' = now + 1
              /\ stage' = [stage EXCEPT ![now] = IF failure THEN "error" ELSE "ok"]
              /\ job' = job \/ job' = [job EXCEPT ![now].exists = FALSE]
           \/ /\ Crash
           \/ /\ UNCHANGED <<pc, now, stage>>
<1> USE DEF GoTo, Return, ReturnAtOnce, PodStep, apiVars
<1>1. CASE CreateJob
  BY <1>1 DEF CreateJob
<1>2. CASE Cleanup
  BY <1>2 DEF Cleanup
<1> QED
  BY <1>1, <1>2
  DEF Next, WorkerStep, StartCall, Probe, Poll, CollectLogs, DeliverJob,
      PodStarts, CommandActs, PodEnds, PodKilled

\* A step that makes no call and ends none keeps what is known of the calls, if what
\* it changes of jobs are jobs that were made.
LEMMA SameCalls ==
    ASSUME CallsOK, UNCHANGED <<now, stage>>,
           pc = "idle" <=> pc' = "idle",
           pc' \in {"idle", "create"} => pc \in {"idle", "create"},
           \A n \in Name : job'[n] = job[n] \/ (job'[n].exists = job[n].exists /\ job[n] # NoJob)
                            \/ (n = now /\ stage[n] = "waiting" /\ pc' \notin {"idle", "create"})
    PROVE  CallsOK'
BY DEF CallsOK

\* Every step keeps what is known of the calls.
LEMMA CallsStep ==
    ASSUME IInv, Next
    PROVE  CallsOK'
<1>0. /\ TypeOK /\ CallsOK /\ now \in Nat /\ \A n \in Name : n \in Nat
      /\ stage \in [Name -> {"unmade", "waiting", "ok", "error", "abandoned"}]
      /\ job \in [Name -> Job] /\ MaxTime \in Nat /\ now \in 1..(MaxTime + 1)
  BY JobAssumption DEF IInv, TypeOK, Name
<1>1. CASE /\ pc = "idle" /\ now \in Name /\ pc' = "create" /\ now' = now
           /\ stage' = [stage EXCEPT ![now] = "waiting"] /\ job' = job
  BY <1>0, <1>1 DEF CallsOK
<1>2. CASE /\ pc = "create" /\ pc' = "probe" /\ UNCHANGED <<now, stage>>
           /\ job' = Created /\ ~job[now].exists
  <2>1. now \in Name /\ \A m \in Name \ {now} : job'[m] = job[m]
    BY <1>0, <1>2, CreatedType DEF CallsOK
  <2> QED
    BY <1>0, <1>2, <2>1 DEF CallsOK
<1>3. CASE /\ pc = "create" /\ pc' = "idle" /\ now' \in {now, now + 1}
           /\ stage' = [stage EXCEPT ![now] = "error"]
           /\ job' = job \/ (job' = Created /\ ~job[now].exists)
  <2>1. now \in Name /\ \A m \in Name \ {now} : job'[m] = job[m]
    BY <1>0, <1>3, CreatedType DEF CallsOK
  <2>2. job'[now] = job[now] \/ job'[now].exists
    BY <1>0, <1>3, <2>1, CreatedType DEF NoJob
  <2>3. \A n \in Name : stage'[n] = IF n = now THEN "error" ELSE stage[n]
    BY <1>0, <1>3
  <2> QED
    BY <1>0, <1>3, <2>1, <2>2, <2>3 DEF CallsOK
<1>4. CASE /\ pc = "cleanup" /\ pc' = "idle" /\ now' = now + 1
           /\ stage' = [stage EXCEPT ![now] = IF failure THEN "error" ELSE "ok"]
           /\ job' = job \/ job' = [job EXCEPT ![now].exists = FALSE]
  <2>1. now \in Name /\ \A m \in Name \ {now} : job'[m] = job[m]
    BY <1>0, <1>4, RemovedType DEF CallsOK
  <2>2. stage'[now] \in {"ok", "error"} /\ \A n \in Name \ {now} : stage'[n] = stage[n]
    BY <1>0, <1>4, <2>1
  <2> QED
    BY <1>0, <1>4, <2>1, <2>2 DEF CallsOK
<1>5. CASE Crash
  <2>1. \A n \in Name : stage'[n] = IF n = now /\ pc # "idle" THEN "abandoned" ELSE stage[n]
    BY <1>0, <1>5 DEF Crash, CallsOK
  <2>2. job' = job /\ pc' = "idle" /\ now' = IF pc = "idle" THEN now ELSE now + 1
    BY <1>5 DEF Crash, GoTo
  <2> QED
    BY <1>0, <2>1, <2>2 DEF CallsOK
<1>6. CASE \/ UNCHANGED <<pc, now, stage>>
           \/ /\ pc # "idle" /\ pc' # "idle" /\ UNCHANGED <<now, stage>>
              /\ pc' \in {"idle", "create"} <=> pc \in {"idle", "create"}
  <2>1. ASSUME NEW n \in Name,
               PodStarts(n) \/ CommandActs(n) \/ PodEnds(n) \/ PodKilled(n)
        PROVE  CallsOK'
    BY <1>0, <2>1, PodStepFacts, SameCalls
  <2>2. CASE UNCHANGED job
    BY <1>0, <1>6, <2>2, SameCalls
  <2>3. CASE CreateJob \/ Cleanup \/ Crash
    BY <1>6, <2>3, <1>5, <1>0
    DEF CreateJob, Cleanup, Return, ReturnAtOnce, GoTo
  <2> QED
    BY <2>1, <2>2, <2>3
    DEF Next, WorkerStep, StartCall, Probe, Poll, CollectLogs, DeliverJob, apiVars
<1> QED
  BY <1>1, <1>2, <1>3, <1>4, <1>5, <1>6, CallMoves

(***************************************************************************)
(* Results.                                                                *)
(***************************************************************************)

\* Every step keeps what is known of jobs that are waited for, and of results.
LEMMA ResultStep ==
    ASSUME IInv, Next
    PROVE  ResultOK'
<1> USE DEF apiVars, GoTo, Return, ReturnAtOnce, Waiting
<1>0. /\ ResultOK /\ (pc # "idle" => now \in Name) /\ job \in [Name -> Job] /\ TypeOK
      /\ stage \in [Name -> {"unmade", "waiting", "ok", "error", "abandoned"}]
      /\ pc # "idle" => stage[now] = "waiting"
  BY DEF IInv, TypeOK, CallsOK
<1>1. CASE StartCall
  BY <1>0, <1>1 DEF StartCall, ResultOK
<1>2. CASE CreateJob
  <2>1. /\ \A m \in Name \ {now} : job'[m] = job[m] /\ stage'[m] = stage[m]
        /\ pc' = "idle" => stage'[now] = "error"
        /\ pc' = "probe" => job'[now].exists /\ stage' = stage /\ now' = now
        /\ pc' \in {"idle", "probe"} /\ pc = "create"
    BY <1>0, <1>2, CreatedType DEF CreateJob, NoJob
  <2> QED
    BY <1>0, <2>1 DEF ResultOK
<1>3. CASE Probe
  BY <1>0, <1>3 DEF Probe, ResultOK
<1>4. CASE Poll
  <2>1. pc' = "logs" /\ ~failure' => cached[now] = "complete"
    BY <1>4 DEF Poll
  <2>2. cached[now] = "complete" => job[now].status = "complete"
    BY <1>0, <1>4 DEF Poll, IInv, JobsOK, JobOK
  <2> QED
    BY <1>0, <1>4, <2>1, <2>2 DEF Poll, ResultOK
<1>5. CASE CollectLogs
  <2>1. ~failure' => ~failure
    BY <1>5 DEF CollectLogs
  <2> QED
    BY <1>0, <1>5, <2>1 DEF CollectLogs, ResultOK
<1>6. CASE Cleanup
  <2>1. /\ \A m \in Name \ {now} : job'[m] = job[m] /\ stage'[m] = stage[m]
        /\ job'[now].status = job[now].status
        /\ stage'[now] = (IF failure THEN "error" ELSE "ok")
        /\ pc' = "idle" /\ pc = "cleanup"
    <3>1. job'[now].status = job[now].status /\ \A m \in Name \ {now} : job'[m] = job[m]
      BY <1>0, <1>6, RemovedType DEF Cleanup, Job
    <3> QED
      BY <1>0, <1>6, <3>1 DEF Cleanup
  <2> QED
    BY <1>0, <2>1 DEF ResultOK
<1>7. CASE Crash
  BY <1>0, <1>7 DEF Crash, ResultOK
<1>8. ASSUME NEW n \in Name, DeliverJob(n)
      PROVE  ResultOK'
  BY <1>0, <1>8 DEF DeliverJob, ResultOK
<1>9. ASSUME NEW n \in Name,
             PodStarts(n) \/ CommandActs(n) \/ PodEnds(n) \/ PodKilled(n)
      PROVE  ResultOK'
  BY <1>0, <1>9, PodStepFacts DEF ResultOK
<1> QED
  BY <1>1, <1>2, <1>3, <1>4, <1>5, <1>6, <1>7, <1>8, <1>9 DEF Next, WorkerStep

(***************************************************************************)
(* Mishaps.                                                                *)
(***************************************************************************)

\* A part of a set of calls is no larger than what bounds the set.
LEMMA SubsetBounded ==
    ASSUME NEW S, IsFiniteSet(S), NEW T \in SUBSET S, NEW c \in Nat, Cardinality(S) <= c
    PROVE  Cardinality(T) <= c
<1>1. IsFiniteSet(T) /\ Cardinality(T) <= Cardinality(S)
  BY FS_Subset
<1>2. Cardinality(T) \in Nat /\ Cardinality(S) \in Nat
  BY <1>1, FS_CardinalityType
<1> QED
  BY <1>1, <1>2

\* A set that gets one member more, when its bound grows by one, stays within the bound.
LEMMA OneMore ==
    ASSUME NEW S, IsFiniteSet(S), NEW T, NEW x, NEW c \in Nat, NEW d \in Nat,
           Cardinality(S) <= c,
           (T \subseteq S /\ c <= d) \/ (T \subseteq S \cup {x} /\ d = c + 1)
    PROVE  Cardinality(T) <= d
<1>0. Cardinality(S) \in Nat
  BY FS_CardinalityType
<1>1. CASE T \subseteq S /\ c <= d
  <2>1. Cardinality(S) <= d
    BY <1>0, <1>1
  <2> QED
    BY <1>1, <2>1, SubsetBounded
<1>2. CASE T \subseteq S \cup {x} /\ d = c + 1
  <2>1. IsFiniteSet(S \cup {x}) /\ Cardinality(S \cup {x}) <= d
    BY <1>0, <1>2, FS_AddElement
  <2> QED
    BY <1>2, <2>1, SubsetBounded
<1> QED
  BY <1>1, <1>2

\* The two sets and their bounds.
LEMMA SetBounds ==
    ASSUME TypeOK
    PROVE  IsFiniteSet(Lost) /\ IsFiniteSet(Unheard) /\ Mishaps \in Nat /\ Losses \in Nat
<1>1. IsFiniteSet(Name)
  BY JobAssumption, FS_Interval DEF Name
<1>2. Lost \in SUBSET Name /\ Unheard \in SUBSET Name
  BY DEF Lost, Unheard
<1>3. Mishaps \in Nat /\ Losses \in Nat
  BY DEF TypeOK, Event, Mishaps, Losses
<1> QED
  BY <1>1, <1>2, <1>3, FS_Subset

\* How a step counts: what fails, a restart and a late cache each count one.
LEMMA MishapsCounted ==
    ASSUME TypeOK, Next
    PROVE  /\ Mishaps' \in Nat /\ Losses' \in Nat
           /\ Mishaps <= Mishaps' /\ Losses <= Losses'
           /\ Fault \/ count' = [count EXCEPT !["lag"] = @ + 1] =>
                 Mishaps' = Mishaps + 1 /\ Losses' = Losses + 1
           /\ Crash => Mishaps' = Mishaps + 1
<1>0. /\ Event = {"fault", "crash", "lag"}
      /\ count \in [Event -> Nat] /\ count' \in [Event -> Nat]
      /\ \A e \in Event : count[e] <= count'[e]
  BY Counting DEF TypeOK, Event
<1>1. \A e \in Event : count[e] \in Nat /\ count'[e] \in Nat
  BY <1>0
<1>2. Mishaps' \in Nat /\ Losses' \in Nat /\ Mishaps <= Mishaps' /\ Losses <= Losses'
  BY <1>0, <1>1 DEF Mishaps, Losses
<1>3. ASSUME NEW e \in Event, count' = [count EXCEPT ![e] = @ + 1]
      PROVE  /\ Mishaps' = Mishaps + 1
             /\ e # "crash" => Losses' = Losses + 1
  <2>1. count'[e] = count[e] + 1 /\ \A f \in Event \ {e} : count'[f] = count[f]
    BY <1>0, <1>3
  <2> QED
    BY <1>0, <1>1, <2>1 DEF Mishaps, Losses
<1>4. /\ Fault => count' = [count EXCEPT !["fault"] = @ + 1]
      /\ Crash => count' = [count EXCEPT !["crash"] = @ + 1]
  BY DEF Fault, Crash, Counted
<1> QED
  BY <1>0, <1>2, <1>3, <1>4

\* The callback is stored before it is looked for.
LEMMA CallbackStep ==
    ASSUME IInv, Next, pc' \in {"create", "probe"}
    PROVE  now' \in callbacks'
<1>0. pc \in {"create", "probe"} => now \in callbacks
  BY DEF IInv, MishapsOK
<1> QED
  BY <1>0
  DEF Next, WorkerStep, StartCall, CreateJob, Probe, Poll, CollectLogs, Cleanup, Crash,
      DeliverJob, PodStarts, CommandActs, PodEnds, PodKilled, PodStep, GoTo, Return,
      ReturnAtOnce

\* A job gets lost only by a mishap, and then it is the job of the present call.
LEMMA LostStep ==
    ASSUME IInv, Next
    PROVE  Lost' \subseteq Lost \/ (Lost' \subseteq Lost \cup {now} /\ Mishaps' = Mishaps + 1)
<1> USE DEF apiVars, GoTo, Return, ReturnAtOnce, Waiting
<1>0. /\ TypeOK /\ (pc # "idle" => now \in Name) /\ job \in [Name -> Job]
      /\ cached \in [Name -> {"absent", "running", "complete", "failed"}]
  BY DEF IInv, TypeOK, CallsOK
<1>m. Fault \/ Crash \/ count' = [count EXCEPT !["lag"] = @ + 1] => Mishaps' = Mishaps + 1
  BY <1>0, MishapsCounted
<1>1. CASE StartCall
  BY <1>1 DEF StartCall, Lost
<1>2. CASE CreateJob
  <2>1. pc = "create" /\ pc' \in {"idle", "probe"} /\ cached' = cached
    BY <1>2 DEF CreateJob
  <2>2. CASE job' = job /\ pc' = "idle"
    BY <2>1, <2>2 DEF Lost
  <2>3. CASE job' = Created /\ ((pc' = "probe" /\ now' = now) \/ Fault)
    <3>1. \A m \in Name \ {now} : job'[m] = job[m]
      BY <1>0, <2>1, <2>3, CreatedType
    <3>2. Lost' \subseteq Lost \cup {now}
      BY <2>1, <3>1 DEF Lost
    <3>3. pc' = "probe" /\ now' = now => Lost' \subseteq Lost
      BY <2>1, <3>1 DEF Lost
    <3> QED
      BY <1>m, <2>3, <3>2, <3>3
  <2> QED
    BY <1>2, <2>2, <2>3 DEF CreateJob
<1>3. CASE Probe
  <2>1. CASE count' = [count EXCEPT !["lag"] = @ + 1]
    BY <1>3, <1>m, <2>1 DEF Probe, Lost
  <2>2. CASE pc' = "probe" \/ cached[now] # "absent"
    BY <1>3, <2>2 DEF Probe, Lost
  <2> QED
    BY <1>3, <2>1, <2>2 DEF Probe
<1>4. CASE Poll \/ CollectLogs
  BY <1>4 DEF Poll, CollectLogs, Lost
<1>5. CASE Cleanup
  <2>1. pc = "cleanup" /\ pc' = "idle" /\ cached' = cached
    BY <1>5 DEF Cleanup
  <2>2. CASE job' = [job EXCEPT ![now].exists = FALSE]
    <3>1. (\A m \in Name \ {now} : job'[m] = job[m]) /\ ~job'[now].exists
      BY <1>0, <2>1, <2>2, RemovedType DEF Job
    <3> QED
      BY <2>1, <3>1 DEF Lost
  <2>3. CASE job' = job /\ cached[now] = "absent"
    BY <2>1, <2>3 DEF Lost
  <2>4. CASE job' = job /\ Fault
    BY <1>m, <2>1, <2>4 DEF Lost
  <2> QED
    BY <1>5, <2>2, <2>3, <2>4 DEF Cleanup
<1>6. CASE Crash
  BY <1>m, <1>6 DEF Crash, Lost
<1>7. ASSUME NEW n \in Name, DeliverJob(n)
      PROVE  Lost' \subseteq Lost
  <2>1. job[n].exists => cached'[n] # "absent"
    BY <1>0, <1>7, JobFields DEF DeliverJob, View
  <2>2. \A m \in Name \ {n} : cached'[m] = cached[m]
    BY <1>0, <1>7 DEF DeliverJob
  <2> QED
    BY <1>7, <2>1, <2>2 DEF DeliverJob, Lost
<1>8. ASSUME NEW n \in Name,
             PodStarts(n) \/ CommandActs(n) \/ PodEnds(n) \/ PodKilled(n)
      PROVE  Lost' \subseteq Lost
  BY <1>8, PodStepFacts DEF Lost
<1> QED
  BY <1>1, <1>2, <1>3, <1>4, <1>5, <1>6, <1>7, <1>8 DEF Next, WorkerStep

\* A failure gets lost only with its log or with the callback, and then in this call.
LEMMA UnheardStep ==
    ASSUME IInv, Next, StderrIsError
    PROVE  \/ Unheard' \subseteq Unheard
           \/ Unheard' \subseteq Unheard \cup {now} /\ Losses' = Losses + 1
<1> USE DEF apiVars, GoTo, Return, ReturnAtOnce
<1>0. /\ TypeOK /\ (pc # "idle" => now \in Name) /\ job \in [Name -> Job]
      /\ stage \in [Name -> {"unmade", "waiting", "ok", "error", "abandoned"}]
      /\ pc # "idle" => stage[now] = "waiting"
  BY DEF IInv, TypeOK, CallsOK
<1>m. Fault \/ count' = [count EXCEPT !["lag"] = @ + 1] => Losses' = Losses + 1
  BY <1>0, MishapsCounted
<1>1. CASE StartCall
  BY <1>0, <1>1 DEF StartCall, Unheard
<1>2. CASE CreateJob
  <2>1. /\ \A m \in Name \ {now} : job'[m] = job[m] /\ stage'[m] = stage[m]
        /\ stage'[now] # "ok" /\ pc' \in {"idle", "probe"}
    BY <1>0, <1>2, CreatedType DEF CreateJob
  <2> QED
    BY <2>1 DEF Unheard
<1>3. CASE Probe
  <2>1. CASE count' = [count EXCEPT !["lag"] = @ + 1]
    BY <1>3, <1>m, <2>1 DEF Probe, Unheard
  <2>2. CASE pc' = "probe" \/ callback'
    BY <1>3, <2>2 DEF Probe, Unheard
  <2>3. now \in callbacks
    BY <1>3 DEF Probe, IInv, MishapsOK
  <2> QED
    BY <1>3, <2>1, <2>2, <2>3 DEF Probe
<1>4. CASE Poll
  BY <1>4 DEF Poll, Unheard
<1>5. CASE CollectLogs
  <2>1. pc = "logs" /\ pc' = "cleanup" /\ UNCHANGED <<now, job, stage>>
    BY <1>5 DEF CollectLogs
  <2>2. CASE Fault
    BY <1>m, <2>1, <2>2 DEF Unheard
  <2>3. CASE callback /\ Heard /\ failure' = TRUE
    BY <2>1, <2>3 DEF Unheard
  <2>4. CASE ~(callback /\ Heard) /\ failure' = failure
    <3>1. ~failure => job[now].good \/ job[now].noisy
      BY <1>0, <2>1 DEF IInv, ResultOK, JobsOK, JobOK
    <3>2. callback /\ ~failure => job[now].good
      BY <2>4, <3>1 DEF Heard
    <3> QED
      BY <2>1, <2>4, <3>2 DEF Unheard
  <2> QED
    BY <1>5, <2>2, <2>3, <2>4 DEF CollectLogs
<1>6. CASE Cleanup
  <2>1. /\ \A m \in Name \ {now} : job'[m] = job[m] /\ stage'[m] = stage[m]
        /\ job'[now].good = job[now].good
        /\ stage'[now] = (IF failure THEN "error" ELSE "ok")
        /\ pc' = "idle" /\ pc = "cleanup"
    <3>1. job'[now].good = job[now].good /\ \A m \in Name \ {now} : job'[m] = job[m]
      BY <1>0, <1>6, RemovedType DEF Cleanup, Job
    <3> QED
      BY <1>0, <1>6, <3>1 DEF Cleanup
  <2> QED
    BY <2>1 DEF Unheard
<1>7. CASE Crash
  BY <1>0, <1>7 DEF Crash, Unheard
<1>8. ASSUME NEW n \in Name, DeliverJob(n)
      PROVE  Unheard' = Unheard
  BY <1>8 DEF DeliverJob, Unheard
<1>9. ASSUME NEW n \in Name,
             PodStarts(n) \/ CommandActs(n) \/ PodEnds(n) \/ PodKilled(n)
      PROVE  Unheard' \subseteq Unheard
  <2>1. /\ stage[n] # "ok"
        /\ n = now /\ pc = "cleanup" => failure
    BY <1>9, PodStepFacts DEF IInv, ResultOK
  <2> QED
    BY <1>9, <2>1, PodStepFacts DEF Unheard
<1> QED
  BY <1>1, <1>2, <1>3, <1>4, <1>5, <1>6, <1>7, <1>8, <1>9 DEF Next, WorkerStep

\* Every step keeps the accounts.
LEMMA MishapsStep ==
    ASSUME IInv, Next
    PROVE  MishapsOK'
<1>0. /\ TypeOK /\ Cardinality(Lost) <= Mishaps
      /\ StderrIsError => Cardinality(Unheard) <= Losses
  BY DEF IInv, MishapsOK
<1>1. /\ IsFiniteSet(Lost) /\ IsFiniteSet(Unheard) /\ Mishaps \in Nat /\ Losses \in Nat
      /\ Mishaps' \in Nat /\ Losses' \in Nat /\ Mishaps <= Mishaps' /\ Losses <= Losses'
  BY <1>0, SetBounds, MishapsCounted
<1>2. Cardinality(Lost') <= Mishaps'
  <2>1. PICK T : T = Lost'
    OBVIOUS
  <2>2. PICK d \in Nat : d = Mishaps'
    BY <1>1
  <2>3. \/ T \subseteq Lost /\ Mishaps <= d
        \/ T \subseteq Lost \cup {now} /\ d = Mishaps + 1
    BY <1>1, <2>1, <2>2, LostStep
  <2>4. Cardinality(T) <= d
    BY <1>0, <1>1, <2>3, OneMore
  <2> QED
    BY <2>1, <2>2, <2>4
<1>3. ASSUME StderrIsError PROVE Cardinality(Unheard') <= Losses'
  <2>1. PICK T : T = Unheard'
    OBVIOUS
  <2>2. PICK d \in Nat : d = Losses'
    BY <1>1
  <2>3. \/ T \subseteq Unheard /\ Losses <= d
        \/ T \subseteq Unheard \cup {now} /\ d = Losses + 1
    BY <1>1, <1>3, <2>1, <2>2, UnheardStep
  <2>4. Cardinality(T) <= d
    BY <1>0, <1>1, <1>3, <2>3, OneMore
  <2> QED
    BY <2>1, <2>2, <2>4
<1> QED
  BY <1>2, <1>3, CallbackStep DEF MishapsOK

(***************************************************************************)
(* The theorems.                                                           *)
(***************************************************************************)

\* Nothing has happened yet.
LEMMA InitInvariant == Init => IInv
<1> SUFFICES ASSUME Init PROVE IInv
  OBVIOUS
<1>1. NoJob \in Job
  BY JobAssumption DEF NoJob, Job
<1>2. TypeOK
  <2>1. 1 \in 1..(MaxTime + 1) /\ 0 \in 0..MaxPolls
    BY JobAssumption
  <2>2. count \in [Event -> Nat] /\ job \in [Name -> Job]
    BY <1>1 DEF Init
  <2> QED
    BY <2>1, <2>2 DEF Init, TypeOK
<1>3. JobsOK /\ CallsOK /\ ResultOK
  BY JobAssumption DEF Init, JobsOK, JobOK, CallsOK, ResultOK, Waiting, NoJob, Name
<1>4. MishapsOK
  <2>1. Lost = {} /\ Unheard = {}
    BY DEF Init, Lost, Unheard, NoJob
  <2>2. Mishaps = 0 /\ Losses = 0
    BY DEF Init, Mishaps, Losses, Event
  <2> QED
    BY <2>1, <2>2, FS_EmptySet DEF Init, MishapsOK
<1> QED
  BY <1>2, <1>3, <1>4 DEF IInv

\* The inductive invariant holds in every state of every execution.
THEOREM Invariant == Spec => []IInv
<1>1. IInv /\ [Next]_vars => IInv'
  <2>1. CASE UNCHANGED vars
    <3>1. Lost' = Lost /\ Unheard' = Unheard /\ Mishaps' = Mishaps /\ Losses' = Losses
      BY <2>1 DEF vars, apiVars, Lost, Unheard, Mishaps, Losses, Waiting
    <3>2. MishapsOK => MishapsOK'
      BY <2>1, <3>1 DEF vars, MishapsOK
    <3> QED
      BY <2>1, <3>2 DEF vars, apiVars, IInv, TypeOK, JobsOK, JobOK, CallsOK, ResultOK, Waiting
  <2>2. CASE Next
    BY <2>2, TypeStep, JobsStep, CallsStep, ResultStep, MishapsStep DEF IInv
  <2> QED
    BY <2>1, <2>2
<1> QED
  BY <1>1, InitInvariant, PTL DEF Spec

\* Every variable keeps its type; in particular no command acts more often than its
\* job may start pods, and no loop of the worker goes on beyond its bound.
THEOREM TypeCorrect == Spec => []TypeOK
BY Invariant, PTL DEF IInv

\* Jobs that no call waits for any more are never more than the mishaps that there were.
THEOREM JobsLeft == Spec => []OneOrphanPerMishap
<1>1. IInv => OneOrphanPerMishap
  <2> SUFFICES ASSUME IInv PROVE OneOrphanPerMishap
    OBVIOUS
  <2> DEFINE Left == {n \in Name : job[n].exists /\ stage[n] # "waiting"}
  <2>1. Left \subseteq Lost
    BY DEF IInv, CallsOK, Lost, Waiting
  <2>2. Cardinality(Left) <= Mishaps
    BY <2>1, SetBounds, SubsetBounded DEF IInv, MishapsOK
  <2> QED
    BY <2>2 DEF OneOrphanPerMishap, Mishaps
<1> QED
  BY <1>1, Invariant, PTL

\* Commands of two calls are at work at the same time only if the earlier one was
\* given up with an error or by a restart.
THEOREM Overlap == Spec => []OverlapOnlyAfterError
<1>1. IInv => OverlapOnlyAfterError
  <2> SUFFICES ASSUME IInv, NEW m \in Name, NEW n \in Name, m < n,
                      job[m].pod # "none", job[n].pod # "none"
               PROVE  stage[m] \in {"error", "abandoned"}
    BY DEF OverlapOnlyAfterError
  <2>1. m \in Nat /\ n \in Nat /\ now \in Nat
    BY JobAssumption DEF IInv, TypeOK, Name
  <2>2. n <= now
    BY <2>1 DEF IInv, CallsOK, NoJob
  <2>3. stage[m] \in {"ok", "error", "abandoned"}
    BY <2>1, <2>2 DEF IInv, CallsOK
  <2>4. stage[m] # "ok"
    BY DEF IInv, ResultOK, JobsOK, JobOK
  <2> QED
    BY <2>3, <2>4
<1> QED
  BY <1>1, Invariant, PTL

\* Failures that no caller was told of are never more than the lost logs and late caches.
THEOREM FailuresReported == Spec => []OneFailureLostPerMishap
<1>1. IInv => OneFailureLostPerMishap
  <2> SUFFICES ASSUME IInv, StderrIsError PROVE OneFailureLostPerMishap
    BY DEF OneFailureLostPerMishap
  <2> DEFINE Hidden == {n \in Name : stage[n] = "ok" /\ ~job[n].good}
  <2>1. Hidden \subseteq Unheard
    BY DEF Unheard
  <2>2. Cardinality(Hidden) <= Losses
    BY <2>1, SetBounds, SubsetBounded DEF IInv, MishapsOK
  <2> QED
    BY <2>2 DEF OneFailureLostPerMishap, Losses
<1> QED
  BY <1>1, Invariant, PTL

(***************************************************************************)
(* The refinement.                                                         *)
(***************************************************************************)

\* A step that changes neither how calls stand nor what their commands do is none of
\* CommandCall.
LEMMA Unseen ==
    ASSUME \A n \in Name : /\ Stage(n)' = Stage(n) /\ Runs(n)' = Runs(n)
                           /\ job'[n].acted = job[n].acted /\ job'[n].good = job[n].good
    PROVE  UNCHANGED Contract!callVars
BY DEF Contract!callVars

\* The start of a call.
LEMMA StartRefines ==
    ASSUME IInv, StartCall
    PROVE  \E c \in Name : Contract!Make(c) \/ Contract!Collide(c)
<1>0. /\ now \in Name /\ pc = "idle" /\ pc' = "create" /\ UNCHANGED <<job, now>>
      /\ stage' = [stage EXCEPT ![now] = "waiting"] /\ stage[now] \in {"unmade", "error"}
      /\ stage[now] = "unmade" => job[now] = NoJob
      /\ ~job[now].exists => job[now] = NoJob
      /\ stage \in [Name -> {"unmade", "waiting", "ok", "error", "abandoned"}]
  BY DEF StartCall, IInv, TypeOK, CallsOK, apiVars
<1>1. ~NoJob.exists /\ NoJob.acted = 0 /\ NoJob.good = FALSE /\ NoJob.pod = "none"
  BY DEF NoJob
<1>2. \A n \in Name : /\ Stage(n) = stage[n]
                      /\ Stage(n)' = IF n # now THEN stage[n]
                                      ELSE IF job[n].exists THEN "refused" ELSE "waiting"
  BY <1>0 DEF Stage
<1>3. \A n \in Name : Runs(n)' = Runs(n)
  BY <1>0 DEF Runs
<1>4. CASE job[now].exists
  BY <1>0, <1>1, <1>2, <1>3, <1>4 DEF Contract!Collide
<1>5. CASE ~job[now].exists
  <2>1. ~Runs(now) /\ job[now].acted = 0 /\ job[now].good = FALSE
    BY <1>0, <1>1, <1>5 DEF Runs
  <2> QED
    BY <1>0, <1>2, <1>3, <1>5, <2>1 DEF Contract!Make, Contract!Awaited
<1> QED
  BY <1>4, <1>5

\* The creation of the job, its refusal, and a lost request or reply.
LEMMA CreateRefines ==
    ASSUME IInv, CreateJob
    PROVE  \E c \in Name : Contract!Begin(c) \/ Contract!ReturnError(c)
<1>0. /\ TypeOK /\ now \in Name /\ pc = "create" /\ stage[now] = "waiting"
      /\ job \in [Name -> Job] /\ (~job[now].exists => job[now] = NoJob)
      /\ stage \in [Name -> {"unmade", "waiting", "ok", "error", "abandoned"}]
  BY DEF CreateJob, IInv, TypeOK, CallsOK
<1>1. /\ ~NoJob.exists /\ NoJob.acted = 0 /\ NoJob.good = FALSE /\ NoJob.pod = "none"
      /\ NoJob.status = "running"
  BY DEF NoJob
<1>2. \A n \in Name : Stage(n) = IF n = now /\ job[n].exists THEN "refused" ELSE stage[n]
  BY <1>0 DEF Stage
<1>3. ASSUME job' = Created, ~job[now].exists
      PROVE  \A n \in Name : /\ Runs(n)' = (IF n = now THEN TRUE ELSE Runs(n))
                             /\ job'[n].acted = job[n].acted /\ job'[n].good = job[n].good
  <2>1. job'[now] = [NoJob EXCEPT !.exists = TRUE] /\ \A m \in Name \ {now} : job'[m] = job[m]
    BY <1>0, <1>3, CreatedType
  <2>2. /\ job'[now].exists /\ job'[now].status = "running"
        /\ job'[now].acted = 0 /\ job'[now].good = FALSE
    BY <2>1 DEF NoJob
  <2>3. job[now].acted = 0 /\ job[now].good = FALSE
    BY <1>0, <1>1, <1>3
  <2> QED
    BY <2>1, <2>2, <2>3 DEF Runs
<1>4. ASSUME ~job[now].exists
      PROVE  ~Runs(now) /\ job[now].acted = 0 /\ Stage(now) = "waiting"
  BY <1>0, <1>1, <1>2, <1>4 DEF Runs
<1>5. CASE pc' = "probe"
  <2>1. job' = Created /\ ~job[now].exists /\ UNCHANGED <<now, stage>>
    BY <1>5 DEF CreateJob, Return, ReturnAtOnce, GoTo
  <2>2. \A n \in Name : Stage(n)' = Stage(n)
    BY <1>2, <1>5, <2>1 DEF Stage
  <2> QED
    BY <1>0, <1>3, <1>4, <2>1, <2>2 DEF Contract!Begin
<1>6. CASE pc' = "idle"
  <2>1. /\ stage' = [stage EXCEPT ![now] = "error"]
        /\ job' = job \/ (job' = Created /\ ~job[now].exists)
    BY <1>0, <1>6 DEF CreateJob, Return, ReturnAtOnce, GoTo
  <2>2. \A n \in Name : Stage(n)' = IF n = now THEN "error" ELSE Stage(n)
    BY <1>0, <1>2, <1>6, <2>1 DEF Stage
  <2>3. Stage(now) \in {"waiting", "refused"}
    BY <1>0, <1>2
  <2>4. CASE job' = job
    <3>1. \A n \in Name : Runs(n)' = Runs(n)
      BY <2>4 DEF Runs
    <3>2. Runs(now) \in BOOLEAN
      BY DEF Runs
    <3> QED
      BY <1>0, <2>2, <2>3, <2>4, <3>1, <3>2 DEF Contract!ReturnError, Contract!Awaited
  <2>5. CASE job' = Created /\ ~job[now].exists
    BY <1>0, <1>3, <1>4, <2>2, <2>3, <2>5 DEF Contract!ReturnError, Contract!Awaited
  <2> QED
    BY <2>1, <2>4, <2>5
<1> QED
  BY <1>5, <1>6 DEF CreateJob, Return, ReturnAtOnce, GoTo

\* The end of a call.
LEMMA CleanupRefines ==
    ASSUME IInv, Cleanup
    PROVE  \E c \in Name : Contract!ReturnOk(c) \/ Contract!ReturnError(c)
<1>0. /\ TypeOK /\ now \in Name /\ pc = "cleanup" /\ pc' = "idle" /\ stage[now] = "waiting"
      /\ job \in [Name -> Job] /\ job[now].exists
      /\ stage \in [Name -> {"unmade", "waiting", "ok", "error", "abandoned"}]
      /\ stage' = [stage EXCEPT ![now] = IF failure THEN "error" ELSE "ok"]
      /\ job' = job \/ job' = [job EXCEPT ![now].exists = FALSE]
  BY DEF Cleanup, Return, GoTo, IInv, TypeOK, CallsOK, ResultOK, Waiting
<1>1. \A n \in Name : /\ Stage(n) = stage[n]
                      /\ Stage(n)' = IF n # now THEN stage[n]
                                      ELSE IF failure THEN "error" ELSE "ok"
  BY <1>0 DEF Stage
<1>2. \A n \in Name : /\ n # now => Runs(n)' = Runs(n)
                      /\ Runs(n)' => Runs(n)
                      /\ job'[n].acted = job[n].acted /\ job'[n].good = job[n].good
  <2>1. CASE job' = job
    BY <2>1 DEF Runs
  <2>2. CASE job' = [job EXCEPT ![now].exists = FALSE]
    <3>1. /\ \A m \in Name \ {now} : job'[m] = job[m]
          /\ job'[now] = [job[now] EXCEPT !.exists = FALSE]
      BY <1>0, <2>2, RemovedType
    <3>2. /\ job'[now].acted = job[now].acted /\ job'[now].good = job[now].good
          /\ job'[now].pod = job[now].pod /\ ~job'[now].exists
      BY <1>0, <3>1 DEF Job
    <3> QED
      BY <3>1, <3>2 DEF Runs
  <2> QED
    BY <1>0, <2>1, <2>2
<1> SUFFICES ASSUME NEW c \in Name, c = now
             PROVE  Contract!ReturnOk(c) \/ Contract!ReturnError(c)
  BY <1>0
<1>3. CASE failure
  <2>1. Runs(c)' \in BOOLEAN
    BY DEF Runs
  <2>2. [n \in Name |-> Runs(n)]' = [[n \in Name |-> Runs(n)] EXCEPT ![c] = Runs(c)']
    BY <1>2
  <2>3. [n \in Name |-> Stage(n)]' = [[n \in Name |-> Stage(n)] EXCEPT ![c] = "error"]
    BY <1>1, <1>3
  <2> QED
    BY <1>0, <1>1, <1>2, <2>1, <2>2, <2>3 DEF Contract!ReturnError, Contract!Awaited
<1>4. CASE ~failure
  <2>1. job[c].status = "complete" /\ job[c].pod = "none" /\ job[c].acted > 0
    BY <1>0, <1>4 DEF IInv, ResultOK, JobsOK, JobOK
  <2>2. ~Runs(c)
    BY <1>0, <2>1 DEF Runs
  <2>3. \A n \in Name : Runs(n)' = Runs(n)
    <3>1. Runs(c)' = Runs(c)
      BY <1>2, <2>2 DEF Runs
    <3> QED
      BY <1>2, <3>1
  <2> QED
    BY <1>0, <1>1, <1>2, <1>4, <2>1, <2>2, <2>3 DEF Contract!ReturnOk
<1> QED
  BY <1>3, <1>4

\* A restart of the operator.
LEMMA CrashRefines ==
    ASSUME IInv, Crash
    PROVE  (\E c \in Name : Contract!Abandon(c)) \/ UNCHANGED Contract!callVars
<1>0. /\ (pc # "idle" => now \in Name) /\ pc' = "idle" /\ job' = job
      /\ stage \in [Name -> {"unmade", "waiting", "ok", "error", "abandoned"}]
      /\ stage' = [n \in Name |-> IF stage[n] = "waiting" THEN "abandoned" ELSE stage[n]]
      /\ \A n \in Name : stage[n] = "waiting" <=> pc # "idle" /\ n = now
  BY DEF Crash, GoTo, IInv, TypeOK, CallsOK
<1>1. \A n \in Name : Stage(n)' = IF pc # "idle" /\ n = now THEN "abandoned" ELSE Stage(n)
  BY <1>0 DEF Stage
<1>2. \A n \in Name : /\ Runs(n)' = Runs(n) /\ job'[n].acted = job[n].acted
                      /\ job'[n].good = job[n].good
  BY <1>0 DEF Runs
<1>3. CASE pc = "idle"
  BY <1>1, <1>2, <1>3, Unseen
<1>4. CASE pc # "idle"
  <2>1. Stage(now) \in {"waiting", "refused"}
    BY <1>0, <1>4 DEF Stage
  <2> QED
    BY <1>0, <1>1, <1>2, <1>4, <2>1 DEF Contract!Abandon, Contract!Awaited
<1> QED
  BY <1>3, <1>4

\* What Kubernetes and the pods do.
LEMMA PodStepRefines ==
    ASSUME IInv, NEW n \in Name,
           PodStarts(n) \/ CommandActs(n) \/ PodEnds(n) \/ PodKilled(n)
    PROVE  \/ \E c \in Name : Contract!Act(c) \/ Contract!Stop(c)
           \/ UNCHANGED Contract!callVars
<1>0. /\ job \in [Name -> Job] /\ job[n] \in Job /\ job'[n] \in Job /\ job[n].status = "running"
      /\ UNCHANGED <<now, pc, stage>> /\ job'[n].exists = job[n].exists
      /\ \A m \in Name \ {n} : job'[m] = job[m]
  BY PodStepType, PodStepFacts DEF IInv, TypeOK
<1>1. \A m \in Name : Stage(m)' = Stage(m)
  BY <1>0 DEF Stage
<1>2. \A m \in Name \ {n} : Runs(m)' = Runs(m)
  BY <1>0 DEF Runs
<1>3. Runs(n)
  BY <1>0 DEF Runs, PodStarts, CommandActs, PodEnds, PodKilled
<1>4. CASE PodStarts(n)
  <2>1. /\ job'[n].pod = "live" /\ job'[n].acted = job[n].acted
        /\ job'[n].good = job[n].good
    BY <1>0, <1>4 DEF PodStarts, PodStep, Job
  <2>2. Runs(n)'
    BY <2>1 DEF Runs
  <2>3. Runs(n)' = Runs(n)
    BY <1>3, <2>2 DEF Runs
  <2> QED
    BY <1>0, <1>1, <1>2, <2>1, <2>3, Unseen
<1>5. CASE CommandActs(n)
  <2>1. PICK g \in BOOLEAN :
            PodStep(n, [job[n] EXCEPT !.pod = "done", !.acted = @ + 1, !.good = g])
    BY <1>5 DEF CommandActs
  <2>2. /\ job'[n].pod = "done" /\ job'[n].acted = job[n].acted + 1
        /\ job'[n].good = g
    BY <1>0, <2>1 DEF PodStep, Job
  <2>3. \A m \in Name : Runs(m)' = Runs(m)
    <3>1. Runs(n)'
      BY <2>2 DEF Runs
    <3>2. Runs(n)' = Runs(n)
      BY <1>3, <3>1 DEF Runs
    <3> QED
      BY <1>2, <3>2
  <2>4. job[n].acted < MaxTries
    <3>1. /\ job[n].acted \in 0..MaxTries /\ job[n].tries \in 0..MaxTries /\ MaxTries \in Nat
      BY <1>0, JobFields, JobAssumption
    <3>2. job[n].acted < job[n].tries
      BY <1>5 DEF CommandActs, IInv, JobsOK, JobOK
    <3> QED
      BY <3>1, <3>2
  <2> QED
    BY <1>0, <1>1, <1>3, <2>2, <2>3, <2>4 DEF Contract!Act
<1>6. CASE PodEnds(n) \/ PodKilled(n)
  <2>1. /\ job'[n].pod = "none" /\ job'[n].acted = job[n].acted
        /\ job'[n].good = job[n].good
    <3>1. CASE PodKilled(n)
      BY <1>0, <3>1 DEF PodKilled, PodStep, Job
    <3> QED
      BY <1>6, <3>1, PodEndsFields
  <2>2. CASE Runs(n)'
    <3>1. Runs(n)' = Runs(n)
      BY <1>3, <2>2 DEF Runs
    <3> QED
      BY <1>0, <1>1, <1>2, <2>1, <3>1, Unseen
  <2>3. CASE ~Runs(n)'
    <3>1. Runs(n)' = FALSE
      BY <2>3 DEF Runs
    <3> QED
      BY <1>0, <1>1, <1>2, <1>3, <2>1, <3>1 DEF Contract!Stop
  <2> QED
    BY <2>2, <2>3
<1> QED
  BY <1>4, <1>5, <1>6

\* Every step is one of CommandCall, or one that it does not speak of.
LEMMA StepRefines ==
    ASSUME IInv, Next
    PROVE  Contract!CallNext \/ UNCHANGED Contract!callVars
<1>1. CASE StartCall
  BY <1>1, StartRefines DEF Contract!CallNext
<1>2. CASE CreateJob
  BY <1>2, CreateRefines DEF Contract!CallNext, Contract!Return
<1>3. CASE Cleanup
  BY <1>3, CleanupRefines DEF Contract!CallNext, Contract!Return
<1>4. CASE Crash
  BY <1>4, CrashRefines DEF Contract!CallNext, Contract!Return
<1>5. ASSUME NEW n \in Name,
             PodStarts(n) \/ CommandActs(n) \/ PodEnds(n) \/ PodKilled(n)
      PROVE  Contract!CallNext \/ UNCHANGED Contract!callVars
  BY <1>5, PodStepRefines DEF Contract!CallNext
<1>6. CASE /\ UNCHANGED <<job, now, stage>> /\ pc # "create" /\ pc' # "create"
  BY <1>6, Unseen DEF Stage, Runs
<1>7. CASE UNCHANGED <<job, now, stage, pc>>
  BY <1>7, Unseen DEF Stage, Runs
<1> QED
  BY <1>1, <1>2, <1>3, <1>4, <1>5, <1>6, <1>7
  DEF Next, WorkerStep, Probe, Poll, CollectLogs, DeliverJob, GoTo, apiVars

\* Whatever fails, is late, is retried or is restarted, for any number of calls and
\* pods: a call that returned without an error is over, and its command has acted.
THEOREM Refinement == Spec => ImplementsContract
<1>1. Init => Contract!CallInit
  <2> SUFFICES ASSUME Init PROVE Contract!CallInit
    OBVIOUS
  <2>1. /\ ~NoJob.exists /\ NoJob.acted = 0 /\ NoJob.good = FALSE /\ NoJob.pod = "none"
    BY DEF NoJob
  <2>2. \A n \in Name : /\ Stage(n) = "unmade" /\ Runs(n) = FALSE
                        /\ job[n].acted = 0 /\ job[n].good = FALSE
    BY <2>1 DEF Init, Stage, Runs
  <2> QED
    BY <2>2 DEF Contract!CallInit
<1>2. IInv /\ [Next]_vars => [Contract!CallNext]_Contract!callVars
  <2>1. CASE UNCHANGED vars
    BY <2>1, Unseen DEF vars, apiVars, Stage, Runs
  <2>2. CASE Next
    BY <2>2, StepRefines
  <2> QED
    BY <2>1, <2>2
<1> QED
  BY <1>1, <1>2, Invariant, PTL DEF Spec, ImplementsContract, Contract!CallSteps
================================================================================
