----------------------------- MODULE JobManager -----------------------------
(***************************************************************************)
(* The job manager of service/jobs/manager.go: a queue and a pool of       *)
(* workers for every priority class, Submit, Start and Stop.               *)
(*                                                                         *)
(* Submit and the end of executeJob hold m.mu; a worker's select takes a   *)
(* job or the end of its context, whichever it picks when both are ready.  *)
(* A job's function returns: the manager gives it a context and cannot     *)
(* stop it. Start is called once and not after Stop; nothing in the        *)
(* repository calls it outside tests.                                      *)
(*                                                                         *)
(* A definition marked "Slip" is not part of the specification: it is a    *)
(* mistake the definition after it could hold.                             *)
(***************************************************************************)
EXTENDS Integers, Sequences, FiniteSets

CONSTANTS
  Jobs,          \* *Job values, each submitted at most once
  IdOf,          \* job -> Job.ID; two callers may choose the same
  ClassOf,       \* job -> its Priority; one outside Classes is unknown
  Classes,       \* the priority classes
  JobWorkers,    \* the workers of all pools
  PoolOf,        \* worker -> the class it serves
  QueueSize,
  Stoppers       \* goroutines that call Stop

ASSUME JobsAssumption ==
  /\ PoolOf \in [JobWorkers -> Classes]
  /\ DOMAIN IdOf = Jobs /\ DOMAIN ClassOf = Jobs
  /\ QueueSize \in Nat
  /\ IsFiniteSet(Jobs) /\ {"new", "idle", "exited"} \cap Jobs = {}

VARIABLES
  job,         \* job -> "new", "queued", "running", "finished" or "refused"
  queue,       \* class -> the channel of its pool
  listed,      \* m.activeJobs: id -> job
  worker,      \* worker -> "new", "idle", "exited" or the job it runs
  stopped,     \* m.stopped
  jobsCtxDone, \* m.ctx is done
  stopCall     \* stopper -> "idle", "waiting", "returned", or "late": somebody stopped it before

jobsVars == <<job, queue, listed, worker, stopped, jobsCtxDone, stopCall>>

JobsInit ==
  /\ job = [j \in Jobs |-> "new"]
  /\ queue = [c \in Classes |-> <<>>]
  /\ listed = <<>>
  /\ worker = [w \in JobWorkers |-> "new"]
  /\ stopped = FALSE /\ jobsCtxDone = FALSE
  /\ stopCall = [s \in Stoppers |-> "idle"]

Start ==
  /\ ~stopped
  /\ \A w \in JobWorkers : worker[w] = "new"
  /\ worker' = [w \in JobWorkers |-> "idle"]
  /\ UNCHANGED <<job, queue, listed, stopped, jobsCtxDone, stopCall>>

Listing(id, j) == [i \in DOMAIN listed \cup {id} |-> IF i = id THEN j ELSE listed[i]]

\* Slip: the job is listed before the queue has taken it.
SubmitListsFirst(j) ==
  /\ job[j] = "new"
  /\ IF ~stopped /\ ClassOf[j] \in Classes
       THEN listed' = Listing(IdOf[j], j) ELSE UNCHANGED listed
  /\ IF ~stopped /\ ClassOf[j] \in Classes /\ Len(queue[ClassOf[j]]) < QueueSize
       THEN /\ queue' = [queue EXCEPT ![ClassOf[j]] = Append(@, j)]
            /\ job' = [job EXCEPT ![j] = "queued"]
       ELSE job' = [job EXCEPT ![j] = "refused"] /\ UNCHANGED queue
  /\ UNCHANGED <<worker, stopped, jobsCtxDone, stopCall>>

\* The channel takes the job and the job is listed, or the call returns an error.
Submit(j) ==
  /\ job[j] = "new"
  /\ IF ~stopped /\ ClassOf[j] \in Classes /\ Len(queue[ClassOf[j]]) < QueueSize
       THEN /\ queue' = [queue EXCEPT ![ClassOf[j]] = Append(@, j)]
            /\ listed' = Listing(IdOf[j], j)
            /\ job' = [job EXCEPT ![j] = "queued"]
       ELSE job' = [job EXCEPT ![j] = "refused"] /\ UNCHANGED <<queue, listed>>
  /\ UNCHANGED <<worker, stopped, jobsCtxDone, stopCall>>

\* The worker's select receives a job, also from a channel that is closed.
TakeJob(w) ==
  LET c == PoolOf[w] IN
  /\ worker[w] = "idle" /\ queue[c] # <<>>
  /\ worker' = [worker EXCEPT ![w] = Head(queue[c])]
  /\ queue' = [queue EXCEPT ![c] = Tail(@)]
  /\ job' = [job EXCEPT ![Head(queue[c])] = "running"]
  /\ UNCHANGED <<listed, stopped, jobsCtxDone, stopCall>>

\* The job's function returned, or its panic was recovered. The metrics are left out.
FinishJob(w) ==
  /\ worker[w] \in Jobs
  /\ worker' = [worker EXCEPT ![w] = "idle"]
  /\ job' = [job EXCEPT ![worker[w]] = "finished"]
  /\ listed' = [i \in DOMAIN listed \ {IdOf[worker[w]]} |-> listed[i]]
  /\ UNCHANGED <<queue, stopped, jobsCtxDone, stopCall>>

\* The select picks the context, or its channel is closed and empty.
WorkerLeaves(w) ==
  /\ worker[w] = "idle"
  /\ jobsCtxDone
  /\ worker' = [worker EXCEPT ![w] = "exited"]
  /\ UNCHANGED <<job, queue, listed, stopped, jobsCtxDone, stopCall>>

\* Slip: Stop does not cancel the context and leaves the queues open.
StopOnlyFlags(s) ==
  /\ stopCall[s] = "idle"
  /\ stopCall' = [stopCall EXCEPT ![s] = IF stopped THEN "late" ELSE "waiting"]
  /\ stopped' = TRUE
  /\ UNCHANGED <<job, queue, listed, worker, jobsCtxDone>>

\* Stop's locked part; a second caller returns at once, also while jobs still run.
Stop(s) ==
  /\ stopCall[s] = "idle"
  /\ stopCall' = [stopCall EXCEPT ![s] = IF stopped THEN "late" ELSE "waiting"]
  /\ stopped' = TRUE
  /\ jobsCtxDone' = (jobsCtxDone \/ ~stopped)
  /\ UNCHANGED <<job, queue, listed, worker>>

\* wg.Wait returns.
StopReturns(s) ==
  /\ stopCall[s] = "waiting"
  /\ \A w \in JobWorkers : worker[w] \in {"new", "exited"}
  /\ stopCall' = [stopCall EXCEPT ![s] = "returned"]
  /\ UNCHANGED <<job, queue, listed, worker, stopped, jobsCtxDone>>

\* The owner cancels the context the manager was made with: the workers leave, and
\* Submit goes on taking jobs.
CancelJobsParent ==
  /\ ~jobsCtxDone
  /\ jobsCtxDone' = TRUE
  /\ UNCHANGED <<job, queue, listed, worker, stopped, stopCall>>

JobWorkerStep(w) == TakeJob(w) \/ FinishJob(w) \/ WorkerLeaves(w)

JobsNext ==
  \/ Start
  \/ \E j \in Jobs : Submit(j)
  \/ \E w \in JobWorkers : JobWorkerStep(w)
  \/ \E s \in Stoppers : Stop(s) \/ StopReturns(s)
  \/ CancelJobsParent

JobsSpec == JobsInit /\ [][JobsNext]_jobsVars

JobsProgress ==
  \/ \E w \in JobWorkers : JobWorkerStep(w)
  \/ \E s \in Stoppers : StopReturns(s)

\* Something that can go on does. Each job is submitted once, so this is all the
\* fairness of the scheduler and of a select that the properties need.
JobsFairSpec == JobsSpec /\ WF_jobsVars(JobsProgress)

-----------------------------------------------------------------------------
(* Properties *)

JobsTypeOK ==
  /\ job \in [Jobs -> {"new", "queued", "running", "finished", "refused"}]
  /\ queue \in [Classes -> Seq(Jobs)]
  /\ \A c \in Classes : Len(queue[c]) <= QueueSize
  /\ worker \in [JobWorkers -> Jobs \cup {"new", "idle", "exited"}]
  /\ stopped \in BOOLEAN /\ jobsCtxDone \in BOOLEAN
  /\ stopCall \in [Stoppers -> {"idle", "waiting", "returned", "late"}]
  /\ DOMAIN listed \subseteq {IdOf[j] : j \in Jobs}
  /\ \A i \in DOMAIN listed : listed[i] \in Jobs

\* activeJobs is what GetStats reports: an entry always stands for a job that waits
\* or runs, also when two jobs have one id, when a submission fails or a job panics;
\* and a job that waits or runs is listed as long as nobody else used its id.
ActiveJobsAreActive ==
  /\ \A i \in DOMAIN listed :
       IdOf[listed[i]] = i /\ job[listed[i]] \in {"queued", "running"}
  /\ \A j \in Jobs :
       (job[j] \in {"queued", "running"} /\ \A k \in Jobs \ {j} : IdOf[k] # IdOf[j])
         => IdOf[j] \in DOMAIN listed

\* What is left in a queue when its workers have gone stays accepted, and listed.
JobItem ==
  [j \in Jobs |-> CASE job[j] \in {"new", "refused"} -> "new"
                    [] job[j] = "finished" -> "handled"
                    [] OTHER -> "accepted"]

JobQueue == INSTANCE WorkQueue WITH Items <- Jobs, item <- JobItem, open <- ~jobsCtxDone

\* The manager is a work queue: an accepted job runs exactly once, and none is
\* forgotten before the context ends.
JobsImplementQueue == JobQueue!Spec

\* No call waits in Stop; and a manager that was started and not stopped has run what
\* it accepted.
JobsSettled ==
  /\ \A s \in Stoppers : stopCall[s] # "waiting"
  /\ \/ jobsCtxDone \/ \A w \in JobWorkers : worker[w] = "new"
     \/ \A j \in Jobs : job[j] \notin {"queued", "running"}
JobsSettle == []<>JobsSettled
=============================================================================
