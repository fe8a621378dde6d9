-------------------------- MODULE WorkQueueProofs --------------------------
(***************************************************************************)
(* The job manager, the stream writers, the QoS bus and a subscription of  *)
(* the exchange adapter implement the abstract work queue, for any jobs,   *)
(* workers, events, handlers, updates, closers and capacities.  Of the     *)
(* first three: the jobs listed as active are, a closed writer leaves      *)
(* nothing behind, and an event is delivered as its handler's QoS says.    *)
(***************************************************************************)
EXTENDS BackgroundServices, TLAPS

\* What receiving from a channel leaves in it.
LEMMA TailFacts ==
  ASSUME NEW S, NEW ch \in Seq(S), ch # <<>>
  PROVE  /\ Head(ch) \in S /\ Head(ch) = ch[1] /\ 1 \in 1..Len(ch)
         /\ Tail(ch) \in Seq(S) /\ Len(Tail(ch)) = Len(ch) - 1
         /\ \A i \in 1..Len(Tail(ch)) : Tail(ch)[i] = ch[i + 1] /\ i + 1 \in 1..Len(ch)
<1>1. Len(ch) \in Nat /\ Len(ch) # 0
  OBVIOUS
<1> QED BY <1>1

\* What sending on a channel adds to it.
LEMMA AppendFacts ==
  ASSUME NEW S, NEW ch \in Seq(S), NEW u \in S
  PROVE  /\ Append(ch, u) \in Seq(S) /\ Len(Append(ch, u)) = Len(ch) + 1
         /\ Append(ch, u)[Len(ch) + 1] = u
         /\ \A i \in 1..Len(ch) : Append(ch, u)[i] = ch[i]
  OBVIOUS


Once(ch) == \A i, k \in 1..Len(ch) : ch[i] = ch[k] => i = k

\* What is left in a channel was there before, and is not what was received.
LEMMA TailOnce ==
  ASSUME NEW S, NEW ch \in Seq(S), ch # <<>>, Once(ch)
  PROVE  /\ Tail(ch) \in Seq(S) /\ Once(Tail(ch))
         /\ \A i \in 1..Len(Tail(ch)) : \E k \in 1..Len(ch) : Tail(ch)[i] = ch[k] /\ ch[k] # Head(ch)
<1>1. /\ Head(ch) = ch[1] /\ 1 \in 1..Len(ch)
      /\ Tail(ch) \in Seq(S) /\ Len(Tail(ch)) = Len(ch) - 1 /\ Len(ch) \in Nat
      /\ \A i \in 1..Len(Tail(ch)) : Tail(ch)[i] = ch[i + 1] /\ i + 1 \in 1..Len(ch)
  BY TailFacts
<1>2. ASSUME NEW i \in 1..Len(Tail(ch)), NEW k \in 1..Len(Tail(ch)), Tail(ch)[i] = Tail(ch)[k]
      PROVE  i = k
  <2>1. i + 1 = k + 1
    BY <1>1, <1>2 DEF Once
  <2> QED BY <1>2, <2>1
<1>3. \A i \in 1..Len(Tail(ch)) : i + 1 # 1 /\ ch[i + 1] # ch[1]
  BY <1>1 DEF Once
<1> QED BY <1>1, <1>2, <1>3 DEF Once

\* What is sent on a channel that does not hold it is there once.
LEMMA AppendOnce ==
  ASSUME NEW S, NEW ch \in Seq(S), Once(ch), NEW u \in S, \A k \in 1..Len(ch) : ch[k] # u
  PROVE  /\ Append(ch, u) \in Seq(S) /\ Once(Append(ch, u))
         /\ \A i \in 1..Len(Append(ch, u)) :
              Append(ch, u)[i] = u \/ \E k \in 1..Len(ch) : Append(ch, u)[i] = ch[k]
<1> DEFINE new == Append(ch, u)
<1>1. /\ new \in Seq(S) /\ Len(new) = Len(ch) + 1 /\ new[Len(ch) + 1] = u
      /\ \A i \in 1..Len(ch) : new[i] = ch[i]
      /\ Len(ch) \in Nat
  BY AppendFacts
<1> HIDE DEF new
<1>2. \A i \in 1..Len(new) : i \in 1..Len(ch) \/ i = Len(ch) + 1
  BY <1>1
<1>3. Once(new)
  BY <1>1, <1>2 DEF Once
<1>4. \A i \in 1..Len(new) : new[i] = u \/ \E k \in 1..Len(ch) : new[i] = ch[k]
  BY <1>1, <1>2
<1> QED BY <1>1, <1>3, <1>4 DEF new

LEMMA EmptyOnce == ASSUME NEW S PROVE <<>> \in Seq(S) /\ Once(<<>>) /\ ~ \E i \in 1..Len(<<>>) : TRUE
  BY DEF Once

-----------------------------------------------------------------------------
(* The job manager *)

JobStates == {"new", "queued", "running", "finished", "refused"}

\* The jobs in a class's channel wait, are of that class, and none is there twice.
QueueSound(c) ==
  /\ queue[c] \in Seq(Jobs)
  /\ \A i \in 1..Len(queue[c]) : job[queue[c][i]] = "queued" /\ ClassOf[queue[c][i]] = c
  /\ \A i, k \in 1..Len(queue[c]) : queue[c][i] = queue[c][k] => i = k

\* A job that a worker holds runs, and no other worker holds it.
WorkersSound ==
  /\ worker \in [JobWorkers -> Jobs \cup {"new", "idle", "exited"}]
  /\ \A w \in JobWorkers : worker[w] \in Jobs => job[worker[w]] = "running"
  /\ \A w, v \in JobWorkers : worker[w] \in Jobs /\ worker[w] = worker[v] => w = v

JobsInv ==
  /\ job \in [Jobs -> JobStates]
  /\ DOMAIN queue = Classes
  /\ \A c \in Classes : QueueSound(c)
  /\ WorkersSound
  /\ jobsCtxDone \in BOOLEAN /\ stopped \in BOOLEAN

LEMMA JobsInitial == JobsInit => JobsInv
<1> SUFFICES ASSUME JobsInit PROVE JobsInv
  OBVIOUS
<1>1. <<>> \in Seq(Jobs) /\ Len(<<>>) = 0 /\ ~ \E i \in 1..0 : TRUE
  OBVIOUS
<1>2. \A c \in Classes : QueueSound(c)
  BY <1>1 DEF JobsInit, QueueSound
<1>3. WorkersSound
  BY JobsAssumption DEF JobsInit, WorkersSound
<1> QED BY <1>2, <1>3 DEF JobsInit, JobsInv, JobStates

\* A job that changes its state disturbs no channel it is not in.
LEMMA QueueKept ==
  ASSUME JobsInv, NEW c \in Classes, queue'[c] = queue[c],
         NEW j \in Jobs, job[j] # "queued" \/ ClassOf[j] # c,
         NEW to \in JobStates, job' = [job EXCEPT ![j] = to]
  PROVE  QueueSound(c)'
<1>1. \A i \in 1..Len(queue[c]) : /\ queue[c][i] \in Jobs /\ job[queue[c][i]] = "queued"
                                  /\ ClassOf[queue[c][i]] = c
  BY DEF JobsInv, QueueSound
<1>2. \A i \in 1..Len(queue[c]) : job'[queue[c][i]] = "queued"
  BY <1>1 DEF JobsInv
<1> QED BY <1>1, <1>2 DEF JobsInv, QueueSound

\* Nor the workers that do not hold it.
LEMMA WorkersKept ==
  ASSUME JobsInv, worker' = worker, NEW j \in Jobs, job[j] # "running",
         NEW to \in JobStates, job' = [job EXCEPT ![j] = to]
  PROVE  WorkersSound'
<1>1. \A w \in JobWorkers : worker[w] \in Jobs => job'[worker[w]] = "running"
  BY DEF JobsInv, WorkersSound
<1> QED BY <1>1 DEF JobsInv, WorkersSound

\* A submission that is taken: the job is the last of its class's channel.
LEMMA SubmitKeeps ==
  ASSUME JobsInv, NEW j \in Jobs, Submit(j)
  PROVE  JobsInv'
<1>1. job[j] = "new" /\ worker' = worker /\ UNCHANGED <<stopped, jobsCtxDone>>
  BY DEF Submit
<1>2. CASE job' = [job EXCEPT ![j] = "refused"] /\ UNCHANGED queue
  <2>1. \A c \in Classes : QueueSound(c)'
    BY <1>1, <1>2, QueueKept DEF JobStates
  <2>2. WorkersSound'
    BY <1>1, <1>2, WorkersKept DEF JobStates
  <2> QED BY <1>1, <1>2, <2>1, <2>2 DEF JobsInv, JobStates
<1>3. CASE /\ ClassOf[j] \in Classes /\ job' = [job EXCEPT ![j] = "queued"]
           /\ queue' = [queue EXCEPT ![ClassOf[j]] = Append(@, j)]
  <2> DEFINE d == ClassOf[j]  ch == queue[d]  new == Append(ch, j)
  <2>1. \A c \in Classes \ {d} : QueueSound(c)'
    BY <1>1, <1>3, QueueKept DEF JobsInv, JobStates
  <2>2. WorkersSound'
    BY <1>1, <1>3, WorkersKept DEF JobStates
  <2>3. /\ ch \in Seq(Jobs)
        /\ \A i \in 1..Len(ch) : job[ch[i]] = "queued" /\ ClassOf[ch[i]] = d
        /\ \A i, k \in 1..Len(ch) : ch[i] = ch[k] => i = k
    BY <1>3 DEF JobsInv, QueueSound
  <2>4. queue'[d] = new /\ job'[j] = "queued"
    BY <1>3 DEF JobsInv
  <2>5. \A i \in 1..Len(ch) : job'[ch[i]] = "queued" /\ ch[i] # j
    BY <1>1, <1>3, <2>3 DEF JobsInv
  <2> HIDE DEF ch
  <2>6. /\ new \in Seq(Jobs) /\ Len(new) = Len(ch) + 1 /\ new[Len(ch) + 1] = j
        /\ \A i \in 1..Len(ch) : new[i] = ch[i]
        /\ Len(ch) \in Nat
    BY <2>3, AppendFacts
  <2>7. \A i \in 1..Len(new) : i \in 1..Len(ch) \/ i = Len(ch) + 1
    BY <2>6
  <2> HIDE DEF new
  <2>8. \A i \in 1..Len(new) : job'[new[i]] = "queued" /\ ClassOf[new[i]] = d
    BY <2>3, <2>4, <2>5, <2>6, <2>7
  <2>9. \A i, k \in 1..Len(new) : new[i] = new[k] => i = k
    BY <2>3, <2>5, <2>6, <2>7
  <2>10. QueueSound(d)'
    BY <2>4, <2>6, <2>8, <2>9 DEF QueueSound
  <2>11. job' \in [Jobs -> JobStates] /\ DOMAIN queue' = Classes
    BY <1>3 DEF JobsInv, JobStates
  <2> QED BY <1>1, <2>1, <2>2, <2>10, <2>11 DEF JobsInv
<1> QED BY <1>2, <1>3 DEF Submit

\* The worker takes the first job of its channel; the others wait on.
LEMMA TakeKeeps ==
  ASSUME JobsInv, NEW w \in JobWorkers, TakeJob(w)
  PROVE  JobsInv'
<1> DEFINE c == PoolOf[w]  ch == queue[c]  j == Head(ch)
<1>1. /\ worker[w] = "idle" /\ ch # <<>>
      /\ worker' = [worker EXCEPT ![w] = j]
      /\ queue' = [queue EXCEPT ![c] = Tail(ch)]
      /\ job' = [job EXCEPT ![j] = "running"]
      /\ UNCHANGED <<stopped, jobsCtxDone>>
  BY DEF TakeJob
<1>2. c \in Classes
  BY JobsAssumption
<1>3. /\ ch \in Seq(Jobs)
      /\ \A i \in 1..Len(ch) : job[ch[i]] = "queued" /\ ClassOf[ch[i]] = c
      /\ \A i, k \in 1..Len(ch) : ch[i] = ch[k] => i = k
  BY <1>2 DEF JobsInv, QueueSound
<1> HIDE DEF c
<1>4. queue'[c] = Tail(ch) /\ DOMAIN queue' = Classes
  BY <1>1, <1>2 DEF JobsInv
<1> HIDE DEF ch
<1>5. /\ j \in Jobs /\ j = ch[1] /\ 1 \in 1..Len(ch)
      /\ Tail(ch) \in Seq(Jobs) /\ Len(Tail(ch)) = Len(ch) - 1
      /\ \A i \in 1..Len(Tail(ch)) : Tail(ch)[i] = ch[i + 1] /\ i + 1 \in 1..Len(ch)
  BY <1>1, <1>3, TailFacts
<1> HIDE DEF j
<1>6. job[j] = "queued" /\ ClassOf[j] = c
  BY <1>3, <1>5
<1>7. \A d \in Classes \ {c} : QueueSound(d)'
  <2>1. \A d \in Classes \ {c} : queue'[d] = queue[d]
    BY <1>1 DEF JobsInv
  <2> QED BY <1>1, <1>5, <1>6, <2>1, QueueKept DEF JobStates
<1>8. QueueSound(c)'
  <2>1. ASSUME NEW i \in 1..Len(Tail(ch))
        PROVE  job'[Tail(ch)[i]] = "queued" /\ ClassOf[Tail(ch)[i]] = c
    <3>1. /\ Tail(ch)[i] = ch[i + 1] /\ i + 1 \in 1..Len(ch) /\ i + 1 # 1
          /\ ch[i + 1] \in Jobs
      BY <1>3, <1>5
    <3>2. ch[i + 1] # j
      BY <1>3, <1>5, <3>1
    <3> QED BY <1>1, <1>3, <3>1, <3>2 DEF JobsInv
  <2>2. ASSUME NEW i \in 1..Len(Tail(ch)), NEW k \in 1..Len(Tail(ch)), Tail(ch)[i] = Tail(ch)[k]
        PROVE  i = k
    <3>1. i + 1 = k + 1
      BY <1>3, <1>5, <2>2
    <3> QED BY <2>2, <3>1
  <2> QED BY <1>4, <1>5, <2>1, <2>2 DEF QueueSound
<1>9. WorkersSound'
  <2>1. worker' \in [JobWorkers -> Jobs \cup {"new", "idle", "exited"}]
    BY <1>1, <1>5 DEF JobsInv, WorkersSound
  <2>2. \A v \in JobWorkers : worker'[v] = IF v = w THEN j ELSE worker[v]
    BY <1>1 DEF JobsInv, WorkersSound
  <2>3. \A v \in JobWorkers : v # w /\ worker[v] \in Jobs => worker[v] # j /\ job'[worker[v]] = "running"
    BY <1>1, <1>6 DEF JobsInv, WorkersSound
  <2>4. job'[j] = "running"
    BY <1>1, <1>5 DEF JobsInv
  <2> QED BY <2>1, <2>2, <2>3, <2>4 DEF JobsInv, WorkersSound
<1>10. job' \in [Jobs -> JobStates]
  BY <1>1 DEF JobsInv, JobStates
<1> QED BY <1>1, <1>4, <1>7, <1>8, <1>9, <1>10 DEF JobsInv

\* A worker that is done with its job holds none, and nobody else held it.
LEMMA FinishKeeps ==
  ASSUME JobsInv, NEW w \in JobWorkers, FinishJob(w)
  PROVE  JobsInv'
<1> DEFINE j == worker[w]
<1>1. /\ j \in Jobs /\ worker' = [worker EXCEPT ![w] = "idle"]
      /\ job' = [job EXCEPT ![j] = "finished"]
      /\ UNCHANGED <<queue, stopped, jobsCtxDone>>
  BY DEF FinishJob
<1>2. job[j] = "running"
  BY <1>1 DEF JobsInv, WorkersSound
<1>3. \A c \in Classes : QueueSound(c)'
  BY <1>1, <1>2, QueueKept DEF JobStates
<1>4. WorkersSound'
  <2>1. \A v \in JobWorkers : worker'[v] = IF v = w THEN "idle" ELSE worker[v]
    BY <1>1 DEF JobsInv, WorkersSound
  <2>2. \A v \in JobWorkers : v # w /\ worker[v] \in Jobs => worker[v] # j /\ job'[worker[v]] = "running"
    BY <1>1 DEF JobsInv, WorkersSound
  <2>3. worker' \in [JobWorkers -> Jobs \cup {"new", "idle", "exited"}]
    BY <1>1 DEF JobsInv, WorkersSound
  <2> QED BY <2>1, <2>2, <2>3, JobsAssumption DEF JobsInv, WorkersSound
<1> QED BY <1>1, <1>3, <1>4 DEF JobsInv, JobStates

\* Every step of the manager keeps its queues and workers sound.
LEMMA JobsInductive == JobsInv /\ [JobsNext]_jobsVars => JobsInv'
<1> SUFFICES ASSUME JobsInv, [JobsNext]_jobsVars PROVE JobsInv'
  OBVIOUS
<1>1. CASE UNCHANGED <<job, queue>> /\ WorkersSound' /\ jobsCtxDone' \in BOOLEAN /\ stopped' \in BOOLEAN
  BY <1>1 DEF JobsInv, QueueSound
<1>2. CASE Start
  <2>1. WorkersSound'
    BY <1>2, JobsAssumption DEF Start, JobsInv, WorkersSound
  <2> QED BY <1>1, <1>2, <2>1 DEF Start, JobsInv
<1>3. ASSUME NEW w \in JobWorkers, WorkerLeaves(w) PROVE JobsInv'
  <2>1. WorkersSound'
    BY <1>3, JobsAssumption DEF WorkerLeaves, JobsInv, WorkersSound
  <2> QED BY <1>1, <1>3, <2>1 DEF WorkerLeaves, JobsInv
<1>4. ASSUME NEW s \in Stoppers, Stop(s) \/ StopReturns(s) PROVE JobsInv'
  BY <1>1, <1>4 DEF Stop, StopReturns, JobsInv, WorkersSound
<1>5. CASE CancelJobsParent \/ UNCHANGED jobsVars
  BY <1>1, <1>5 DEF CancelJobsParent, jobsVars, JobsInv, WorkersSound
<1> QED BY <1>2, <1>3, <1>4, <1>5, SubmitKeeps, TakeKeeps, FinishKeeps DEF JobsNext, JobWorkerStep

\* The abstract item a job in this state is.
ItemOf(state) ==
  CASE state \in {"new", "refused"} -> "new"
    [] state = "finished" -> "handled"
    [] OTHER -> "accepted"

LEMMA ItemValues ==
  /\ ItemOf("new") = "new" /\ ItemOf("refused") = "new" /\ ItemOf("finished") = "handled"
  /\ ItemOf("queued") = "accepted" /\ ItemOf("running") = "accepted"
  BY DEF ItemOf

\* What a job's change of state is to the abstract queue.
LEMMA ItemChanges ==
  ASSUME JobsInv, NEW j \in Jobs, NEW to \in JobStates, job' = [job EXCEPT ![j] = to]
  PROVE  /\ JobItem[j] = ItemOf(job[j])
         /\ JobItem' = [JobItem EXCEPT ![j] = ItemOf(to)]
         /\ ItemOf(to) = ItemOf(job[j]) => JobItem' = JobItem
<1>1. \A x \in Jobs : job'[x] = IF x = j THEN to ELSE job[x]
  BY DEF JobsInv
<1>2. JobItem = [x \in Jobs |-> ItemOf(job[x])]
  BY DEF JobItem, ItemOf
<1>3. JobItem' = [x \in Jobs |-> ItemOf(job'[x])]
  BY DEF JobItem, ItemOf
<1>4. \A x \in Jobs : ItemOf(job'[x]) = IF x = j THEN ItemOf(to) ELSE ItemOf(job[x])
  BY <1>1
<1>5. [JobItem EXCEPT ![j] = ItemOf(to)]
        = [x \in Jobs |-> IF x = j THEN ItemOf(to) ELSE ItemOf(job[x])]
  BY <1>2
<1>6. ItemOf(to) = ItemOf(job[j]) => \A x \in Jobs : ItemOf(job'[x]) = ItemOf(job[x])
  BY <1>4
<1> QED BY <1>2, <1>3, <1>4, <1>5, <1>6

LEMMA JobsStart == JobsInit => JobQueue!Init
  BY DEF JobsInit, JobQueue!Init, JobItem

\* Every step of the manager is a step of the abstract queue, or none of it.
LEMMA JobsStepsMap == JobsInv /\ [JobsNext]_jobsVars => [JobQueue!Next]_(JobQueue!vars)
<1> SUFFICES ASSUME JobsInv, [JobsNext]_jobsVars PROVE [JobQueue!Next]_(JobQueue!vars)
  OBVIOUS
<1> DEFINE still == JobItem' = JobItem /\ jobsCtxDone' = jobsCtxDone
<1>0. still => UNCHANGED JobQueue!vars
  BY DEF JobQueue!vars
<1>1. UNCHANGED job => JobItem' = JobItem
  BY DEF JobItem
<1>2. CASE Start \/ UNCHANGED jobsVars
  BY <1>0, <1>1, <1>2 DEF Start, jobsVars
<1>3. ASSUME NEW j \in Jobs, Submit(j) PROVE [JobQueue!Next]_(JobQueue!vars)
  <2>1. job[j] = "new" /\ jobsCtxDone' = jobsCtxDone
    BY <1>3 DEF Submit
  <2>2. CASE job' = [job EXCEPT ![j] = "refused"]
    BY <1>0, <2>1, <2>2, ItemChanges, ItemValues DEF JobStates
  <2>3. CASE job' = [job EXCEPT ![j] = "queued"]
    <3>1. JobItem[j] = "new" /\ JobItem' = [JobItem EXCEPT ![j] = "accepted"]
      BY <2>1, <2>3, ItemChanges, ItemValues DEF JobStates
    <3>2. JobQueue!Accept(j)
      BY <2>1, <3>1 DEF JobQueue!Accept
    <3> QED BY <3>2 DEF JobQueue!Next
  <2> QED BY <1>3, <2>2, <2>3 DEF Submit
<1>4. ASSUME NEW w \in JobWorkers, TakeJob(w) PROVE still
  <2>1. PICK c \in Classes : c = PoolOf[w]
    BY JobsAssumption
  <2>2. queue[c] \in Seq(Jobs) /\ \A i \in 1..Len(queue[c]) : job[queue[c][i]] = "queued"
    BY DEF JobsInv, QueueSound
  <2>3. /\ queue[c] # <<>> /\ job' = [job EXCEPT ![Head(queue[c])] = "running"]
        /\ jobsCtxDone' = jobsCtxDone
    BY <1>4, <2>1 DEF TakeJob
  <2>4. PICK j \in Jobs : j = Head(queue[c]) /\ job[j] = "queued"
    BY <2>2, <2>3, TailFacts
  <2> QED BY <2>3, <2>4, ItemChanges, ItemValues DEF JobStates
<1>5. ASSUME NEW w \in JobWorkers, FinishJob(w) PROVE JobQueue!Next
  <2>1. PICK j \in Jobs : j = worker[w] /\ job[j] = "running"
    BY <1>5 DEF FinishJob, JobsInv, WorkersSound
  <2>2. job' = [job EXCEPT ![j] = "finished"] /\ jobsCtxDone' = jobsCtxDone
    BY <1>5, <2>1 DEF FinishJob
  <2>3. JobItem[j] = "accepted" /\ JobItem' = [JobItem EXCEPT ![j] = "handled"]
    BY <2>1, <2>2, ItemChanges, ItemValues DEF JobStates
  <2>4. JobQueue!Handle(j)
    BY <2>2, <2>3 DEF JobQueue!Handle
  <2> QED BY <2>4 DEF JobQueue!Next
<1>6. ASSUME NEW w \in JobWorkers, WorkerLeaves(w) PROVE still
  BY <1>1, <1>6 DEF WorkerLeaves
<1>7. ASSUME NEW s \in Stoppers, Stop(s) \/ StopReturns(s) PROVE [JobQueue!Next]_(JobQueue!vars)
  <2>1. JobItem' = JobItem
    BY <1>1, <1>7 DEF Stop, StopReturns
  <2>2. CASE jobsCtxDone' = jobsCtxDone
    BY <1>0, <2>1, <2>2
  <2>3. CASE ~jobsCtxDone /\ jobsCtxDone'
    BY <2>1, <2>3 DEF JobQueue!Close, JobQueue!Next
  <2> QED BY <1>7, <2>2, <2>3 DEF Stop, StopReturns, JobsInv
<1>8. CASE CancelJobsParent
  BY <1>1, <1>8 DEF CancelJobsParent, JobQueue!Close, JobQueue!Next
<1> QED BY <1>0, <1>2, <1>3, <1>4, <1>5, <1>6, <1>7, <1>8 DEF JobsNext, JobWorkerStep

\* Whatever its callers, panicking jobs and second Stops do, the job manager runs an
\* accepted job at most once and gives none up before its context ends
\* (jobs/manager.go:137-379).
THEOREM JobsRefinement == JobsSpec => JobsImplementQueue
<1>1. JobsInit => JobsInv
  BY JobsInitial
<1>2. JobsInv /\ [JobsNext]_jobsVars => JobsInv'
  BY JobsInductive
<1>3. JobsInv /\ [JobsNext]_jobsVars => [JobQueue!Next]_(JobQueue!vars)
  BY JobsStepsMap
<1>4. JobsInit => JobQueue!Init
  BY JobsStart
<1> QED BY <1>1, <1>2, <1>3, <1>4, PTL DEF JobsSpec, JobsImplementQueue, JobQueue!Spec

-----------------------------------------------------------------------------
(* What activeJobs lists. *)

\* Strengthening: the entries are jobs.
ListedInv ==
  /\ \A i \in DOMAIN listed : listed[i] \in Jobs
  /\ ActiveJobsAreActive

\* A job nobody shares its id with.
OwnId(j) == \A k \in Jobs \ {j} : IdOf[k] # IdOf[j]

\* A job that changes its state between states in which it is not listed, or
\* between states in which it is, leaves the list as good as it was.
LEMMA ListKept ==
  ASSUME JobsInv, ListedInv, listed' = listed,
         NEW j \in Jobs, NEW to \in JobStates, job' = [job EXCEPT ![j] = to],
         job[j] \in {"queued", "running"} <=> to \in {"queued", "running"}
  PROVE  ListedInv'
<1>1. \A k \in Jobs : job'[k] \in {"queued", "running"} <=> job[k] \in {"queued", "running"}
  BY DEF JobsInv
<1> QED BY <1>1 DEF ListedInv, ActiveJobsAreActive

\* An accepted job replaces the entry of its id.
LEMMA ListTakes ==
  ASSUME JobsInv, ListedInv, NEW j \in Jobs, listed' = Listing(IdOf[j], j),
         job' = [job EXCEPT ![j] = "queued"]
  PROVE  ListedInv'
<1>1. /\ DOMAIN listed' = DOMAIN listed \cup {IdOf[j]} /\ listed'[IdOf[j]] = j
      /\ \A i \in DOMAIN listed \ {IdOf[j]} : listed'[i] = listed[i]
  BY DEF Listing
<1>2. job'[j] = "queued" /\ \A k \in Jobs \ {j} : job'[k] = job[k]
  BY DEF JobsInv
<1>3. \A i \in DOMAIN listed' :
        listed'[i] \in Jobs /\ IdOf[listed'[i]] = i /\ job'[listed'[i]] \in {"queued", "running"}
  BY <1>1, <1>2 DEF ListedInv, ActiveJobsAreActive
<1>4. ASSUME NEW k \in Jobs, job'[k] \in {"queued", "running"}, OwnId(k)
      PROVE  IdOf[k] \in DOMAIN listed'
  BY <1>1, <1>2, <1>4 DEF ListedInv, ActiveJobsAreActive, OwnId
<1> QED BY <1>3, <1>4 DEF ListedInv, ActiveJobsAreActive, OwnId

\* The end of a job takes the entry of its id with it.
LEMMA ListDrops ==
  ASSUME JobsInv, ListedInv, NEW w \in JobWorkers, FinishJob(w)
  PROVE  ListedInv'
<1>1. PICK j \in Jobs : j = worker[w]
  BY DEF FinishJob
<1>2. /\ DOMAIN listed' = DOMAIN listed \ {IdOf[j]}
      /\ \A i \in DOMAIN listed \ {IdOf[j]} : listed'[i] = listed[i]
      /\ job' = [job EXCEPT ![j] = "finished"]
  BY <1>1 DEF FinishJob
<1>3. job'[j] = "finished" /\ \A k \in Jobs \ {j} : job'[k] = job[k]
  BY <1>2 DEF JobsInv
<1>4. \A i \in DOMAIN listed' :
        listed'[i] \in Jobs /\ IdOf[listed'[i]] = i /\ job'[listed'[i]] \in {"queued", "running"}
  BY <1>2, <1>3 DEF ListedInv, ActiveJobsAreActive
<1>5. ASSUME NEW k \in Jobs, job'[k] \in {"queued", "running"}, OwnId(k)
      PROVE  IdOf[k] \in DOMAIN listed'
  BY <1>2, <1>3, <1>5 DEF ListedInv, ActiveJobsAreActive, OwnId
<1> QED BY <1>4, <1>5 DEF ListedInv, ActiveJobsAreActive, OwnId

LEMMA ListInductive == JobsInv /\ ListedInv /\ [JobsNext]_jobsVars => ListedInv'
<1> SUFFICES ASSUME JobsInv, ListedInv, [JobsNext]_jobsVars PROVE ListedInv'
  OBVIOUS
<1>1. ASSUME UNCHANGED <<job, listed>> PROVE ListedInv'
  BY <1>1 DEF ListedInv, ActiveJobsAreActive
<1>2. CASE Start \/ CancelJobsParent \/ UNCHANGED jobsVars
  BY <1>1, <1>2 DEF Start, CancelJobsParent, jobsVars
<1>3. ASSUME NEW j \in Jobs, Submit(j) PROVE ListedInv'
  <2>1. job[j] = "new"
    BY <1>3 DEF Submit
  <2>2. CASE job' = [job EXCEPT ![j] = "refused"] /\ listed' = listed
    BY <2>1, <2>2, ListKept DEF JobStates
  <2>3. CASE job' = [job EXCEPT ![j] = "queued"] /\ listed' = Listing(IdOf[j], j)
    BY <2>3, ListTakes
  <2> QED BY <1>3, <2>2, <2>3 DEF Submit
<1>4. ASSUME NEW w \in JobWorkers, TakeJob(w) PROVE ListedInv'
  <2>1. PICK c \in Classes : c = PoolOf[w]
    BY JobsAssumption
  <2>2. queue[c] \in Seq(Jobs) /\ \A i \in 1..Len(queue[c]) : job[queue[c][i]] = "queued"
    BY DEF JobsInv, QueueSound
  <2>3. /\ queue[c] # <<>> /\ job' = [job EXCEPT ![Head(queue[c])] = "running"]
        /\ listed' = listed
    BY <1>4, <2>1 DEF TakeJob
  <2>4. PICK j \in Jobs : j = Head(queue[c]) /\ job[j] = "queued"
    BY <2>2, <2>3, TailFacts
  <2> QED BY <2>3, <2>4, ListKept DEF JobStates
<1>5. ASSUME NEW w \in JobWorkers, WorkerLeaves(w) PROVE ListedInv'
  BY <1>1, <1>5 DEF WorkerLeaves
<1>6. ASSUME NEW s \in Stoppers, Stop(s) \/ StopReturns(s) PROVE ListedInv'
  BY <1>1, <1>6 DEF Stop, StopReturns
<1> QED BY <1>2, <1>3, <1>4, <1>5, <1>6, ListDrops DEF JobsNext, JobWorkerStep

\* What activeJobs holds is a job that waits or runs, and such a job is there unless
\* another one used its id (jobs/manager.go:173-219 and 303-367).
THEOREM ActiveJobsTheorem == JobsSpec => []ActiveJobsAreActive
<1>1. JobsInit => JobsInv /\ ListedInv
  <2>1. JobsInit => ListedInv
    BY DEF JobsInit, ListedInv, ActiveJobsAreActive
  <2> QED BY <2>1, JobsInitial
<1>2. JobsInv /\ ListedInv /\ [JobsNext]_jobsVars => JobsInv' /\ ListedInv'
  BY JobsInductive, ListInductive
<1>3. ListedInv => ActiveJobsAreActive
  BY DEF ListedInv
<1> QED BY <1>1, <1>2, <1>3, PTL DEF JobsSpec

-----------------------------------------------------------------------------
(* The stream writers *)

RecordStates == {"new", "queued", "written", "failed", "dropped"}

\* What is in the channel is queued, and none is there twice.
WriterInv ==
  /\ record \in [Records -> RecordStates]
  /\ channel \in Seq(Records) /\ Once(channel)
  /\ \A i \in 1..Len(channel) : record[channel[i]] = "queued"
  /\ wClosed \in BOOLEAN

LEMMA WriterInitial == WriterInit => WriterInv
  BY EmptyOnce DEF WriterInit, WriterInv, RecordStates

\* An event that is handed to the database leaves the channel.
LEMMA HeadTaken ==
  ASSUME WriterInv, InsertHead, UNCHANGED wClosed
  PROVE  /\ WriterInv'
         /\ \E e \in Records, to \in {"written", "failed"} :
              record[e] = "queued" /\ record' = [record EXCEPT ![e] = to]
<1>1. PICK to \in {"written", "failed"} :
        channel # <<>> /\ channel' = Tail(channel) /\ record' = [record EXCEPT ![Head(channel)] = to]
  BY DEF InsertHead
<1>2. PICK e \in Records : e = Head(channel) /\ record[e] = "queued"
  BY <1>1, TailFacts DEF WriterInv
<1>3. /\ channel' \in Seq(Records) /\ Once(channel')
      /\ \A i \in 1..Len(channel') : \E k \in 1..Len(channel) : channel'[i] = channel[k] /\ channel[k] # e
  BY <1>1, <1>2, TailOnce DEF WriterInv
<1>4. \A k \in 1..Len(channel) : channel[k] \in Records
  BY DEF WriterInv
<1>5. \A i \in 1..Len(channel') : record'[channel'[i]] = "queued"
  BY <1>1, <1>2, <1>3, <1>4 DEF WriterInv
<1> QED BY <1>1, <1>2, <1>3, <1>5 DEF WriterInv, RecordStates, Once

\* An event that is offered goes to the end of the channel or is dropped.
LEMMA OfferKeeps ==
  ASSUME WriterInv, NEW e \in Records, WriteAnalytics(e)
  PROVE  WriterInv'
<1>1. record[e] = "new" /\ wClosed' = wClosed
  BY DEF WriteAnalytics
<1>2. \A k \in 1..Len(channel) : channel[k] \in Records /\ channel[k] # e
  BY <1>1 DEF WriterInv
<1>3. CASE channel' = channel /\ record' = [record EXCEPT ![e] = "dropped"]
  BY <1>1, <1>2, <1>3 DEF WriterInv, RecordStates, Once
<1>4. CASE channel' = Append(channel, e) /\ record' = [record EXCEPT ![e] = "queued"]
  <2>1. /\ channel' \in Seq(Records) /\ Once(channel')
        /\ \A i \in 1..Len(channel') : channel'[i] = e \/ \E k \in 1..Len(channel) : channel'[i] = channel[k]
    BY <1>2, <1>4, AppendOnce DEF WriterInv
  <2>2. \A i \in 1..Len(channel') : record'[channel'[i]] = "queued"
    BY <1>2, <1>4, <2>1 DEF WriterInv
  <2> QED BY <1>1, <1>4, <2>1, <2>2 DEF WriterInv, RecordStates, Once
<1> QED BY <1>3, <1>4 DEF WriteAnalytics

\* A step that neither offers an event nor takes one off the channel.
WriterElse ==
  /\ UNCHANGED <<record, channel>>
  /\ wClosed' = wClosed \/ (~wClosed /\ wClosed')

\* The steps of the writers, as far as their channel is concerned.
LEMMA WriterSteps ==
  ASSUME WriterInv, [WriterNext]_writerVars
  PROVE  \/ \E e \in Records : WriteAnalytics(e)
         \/ InsertHead /\ UNCHANGED wClosed
         \/ WriterElse
<1>1. CASE UNCHANGED writerVars
  BY <1>1 DEF writerVars, WriterElse
<1>2. ASSUME NEW e \in Records, CountSent(e) PROVE WriterElse
  BY <1>2 DEF CountSent, WriterElse
<1>3. CASE InserterStep
  BY <1>3 DEF InserterStep, InserterWrites, InserterStops, InserterDrained, WriterElse
<1>4. CASE WriteCritical
  BY <1>4 DEF WriteCritical, WriterElse
<1>5. ASSUME NEW c \in Closers, CloseWriter(c) PROVE WriterElse
  BY <1>5 DEF CloseWriter, CloseAt, WriterElse, WriterInv
<1>6. ASSUME NEW c \in Closers, CloserStep(c) PROVE (InsertHead /\ UNCHANGED wClosed) \/ WriterElse
  <2>1. CASE SignalStop(c) \/ WaitForInserter(c)
    BY <2>1 DEF SignalStop, WaitForInserter, WriterElse
  <2>2. CASE CloserDrains(c)
    BY <2>2 DEF CloserDrains, WriterElse
  <2>3. CASE CloseDatabase(c, "critical", "close_analytics") \/ CloseDatabase(c, "analytics", "returned")
    BY <2>3 DEF CloseDatabase, WriterElse
  <2> QED BY <1>6, <2>1, <2>2, <2>3 DEF CloserStep
<1> QED BY <1>1, <1>2, <1>3, <1>4, <1>5, <1>6 DEF WriterNext

LEMMA WriterInductive == WriterInv /\ [WriterNext]_writerVars => WriterInv'
<1> SUFFICES ASSUME WriterInv, [WriterNext]_writerVars PROVE WriterInv'
  OBVIOUS
<1>1. CASE WriterElse
  BY <1>1 DEF WriterElse, WriterInv, Once
<1> QED BY <1>1, WriterSteps, HeadTaken, OfferKeeps

\* The abstract item an event in this state is.
RecordItemOf(state) ==
  CASE state \in {"new", "dropped"} -> "new"
    [] state = "queued" -> "accepted"
    [] OTHER -> "handled"

LEMMA RecordItemValues ==
  /\ RecordItemOf("new") = "new" /\ RecordItemOf("dropped") = "new"
  /\ RecordItemOf("queued") = "accepted"
  /\ RecordItemOf("written") = "handled" /\ RecordItemOf("failed") = "handled"
  BY DEF RecordItemOf

\* What an event's change of state is to the abstract queue.
LEMMA RecordItemChanges ==
  ASSUME WriterInv, NEW e \in Records, NEW to \in RecordStates, record' = [record EXCEPT ![e] = to]
  PROVE  /\ RecordItem[e] = RecordItemOf(record[e])
         /\ RecordItem' = [RecordItem EXCEPT ![e] = RecordItemOf(to)]
         /\ RecordItemOf(to) = RecordItemOf(record[e]) => RecordItem' = RecordItem
<1>1. \A x \in Records : record'[x] = IF x = e THEN to ELSE record[x]
  BY DEF WriterInv
<1>2. RecordItem = [x \in Records |-> RecordItemOf(record[x])]
  BY DEF RecordItem, RecordItemOf
<1>3. RecordItem' = [x \in Records |-> RecordItemOf(record'[x])]
  BY DEF RecordItem, RecordItemOf
<1>4. \A x \in Records : RecordItemOf(record'[x])
                           = IF x = e THEN RecordItemOf(to) ELSE RecordItemOf(record[x])
  BY <1>1
<1>5. [RecordItem EXCEPT ![e] = RecordItemOf(to)]
        = [x \in Records |-> IF x = e THEN RecordItemOf(to) ELSE RecordItemOf(record[x])]
  BY <1>2
<1>6. RecordItemOf(to) = RecordItemOf(record[e])
        => \A x \in Records : RecordItemOf(record'[x]) = RecordItemOf(record[x])
  BY <1>4
<1> QED BY <1>2, <1>3, <1>4, <1>5, <1>6

LEMMA WriterStart == WriterInit => WriterQueue!Init
  BY DEF WriterInit, WriterQueue!Init, RecordItem

\* Every step of the writers is a step of the abstract queue, or none of it.
LEMMA WriterStepsMap ==
  WriterInv /\ [WriterNext]_writerVars => [WriterQueue!Next]_(WriterQueue!vars)
<1> SUFFICES ASSUME WriterInv, [WriterNext]_writerVars
             PROVE  [WriterQueue!Next]_(WriterQueue!vars)
  OBVIOUS
<1>1. CASE WriterElse
  <2>1. RecordItem' = RecordItem
    BY <1>1 DEF WriterElse, RecordItem
  <2>2. CASE wClosed' = wClosed
    BY <2>1, <2>2 DEF WriterQueue!vars
  <2>3. CASE ~wClosed /\ wClosed'
    BY <2>1, <2>3 DEF WriterQueue!Close, WriterQueue!Next
  <2> QED BY <1>1, <2>2, <2>3 DEF WriterElse
<1>2. ASSUME NEW e \in Records, WriteAnalytics(e) PROVE [WriterQueue!Next]_(WriterQueue!vars)
  <2>1. record[e] = "new" /\ wClosed' = wClosed
    BY <1>2 DEF WriteAnalytics
  <2>2. CASE record' = [record EXCEPT ![e] = "dropped"]
    BY <2>1, <2>2, RecordItemChanges, RecordItemValues DEF RecordStates, WriterQueue!vars
  <2>3. CASE record' = [record EXCEPT ![e] = "queued"]
    <3>1. RecordItem[e] = "new" /\ RecordItem' = [RecordItem EXCEPT ![e] = "accepted"]
      BY <2>1, <2>3, RecordItemChanges, RecordItemValues DEF RecordStates
    <3>2. WriterQueue!Accept(e)
      BY <2>1, <3>1 DEF WriterQueue!Accept
    <3> QED BY <3>2 DEF WriterQueue!Next
  <2> QED BY <1>2, <2>2, <2>3 DEF WriteAnalytics
<1>3. CASE InsertHead /\ UNCHANGED wClosed
  <2>1. PICK e \in Records, to \in {"written", "failed"} :
          record[e] = "queued" /\ record' = [record EXCEPT ![e] = to]
    BY <1>3, HeadTaken
  <2>2. RecordItem[e] = "accepted" /\ RecordItem' = [RecordItem EXCEPT ![e] = "handled"]
    BY <2>1, RecordItemChanges, RecordItemValues DEF RecordStates
  <2>3. WriterQueue!Handle(e)
    BY <1>3, <2>2 DEF WriterQueue!Handle
  <2> QED BY <2>3 DEF WriterQueue!Next
<1> QED BY <1>1, <1>2, <1>3, WriterSteps

\* Either stream writer hands an event it has taken to the database once, however
\* insertions fail and closers drain, and drops only what it never took
\* (dual/writer.go:161-235, dualstream.go).
THEOREM WriterRefinement == WriterSpec => WriterImplementsQueue
<1>1. WriterInit => WriterInv
  BY WriterInitial
<1>2. WriterInv /\ [WriterNext]_writerVars => WriterInv'
  BY WriterInductive
<1>3. WriterInv /\ [WriterNext]_writerVars => [WriterQueue!Next]_(WriterQueue!vars)
  BY WriterStepsMap
<1>4. WriterInit => WriterQueue!Init
  BY WriterStart
<1> QED BY <1>1, <1>2, <1>3, <1>4, PTL DEF WriterSpec, WriterImplementsQueue, WriterQueue!Spec

-----------------------------------------------------------------------------
(* What Close of a stream writer leaves behind. *)

CallStates == {"idle", "late", "signal", "wait", "drain", "close_critical", "close_analytics",
               "returned"}

\* Everything that is queued is in the channel.
AllInChannel == \A e \in Records : record[e] = "queued" => \E i \in 1..Len(channel) : channel[i] = e

\* How far Close and the goroutine have come: both go on only once the writer is
\* closed, the goroutine of the stream writer leaves an empty channel for good, and
\* the dual writer's closer passes the channel on when it is empty.
CloseOrder ==
  /\ stopping \/ inserter # "select" => wClosed
  /\ kind = "stream" /\ inserter = "exited" => channel = <<>>
  /\ \A c \in Closers :
       /\ closeCall[c] \notin {"idle", "late"} => wClosed
       /\ closeCall[c] = "drain" => kind = "dual"
       /\ closeCall[c] \in {"close_critical", "close_analytics", "returned"} =>
            IF kind = "stream" THEN inserter = "exited" ELSE InState("queued") \subseteq late
       /\ kind = "stream" /\ closeCall[c] \in {"close_analytics", "returned"} =>
            database["critical"] # "open"
       /\ kind = "stream" /\ closeCall[c] = "returned" => database["analytics"] # "open"

CloseInv ==
  /\ kind \in Kinds
  /\ inserter \in {"select", "drain", "exited"}
  /\ stopping \in BOOLEAN
  /\ closeCall \in [Closers -> CallStates]
  /\ database \in [Databases -> {"open", "closed", "failed"}]
  /\ late \subseteq Records
  /\ AllInChannel
  /\ CloseOrder

LEMMA CloseInitial == WriterInit => CloseInv
  BY DEF WriterInit, CloseInv, CloseOrder, AllInChannel, CallStates, Kinds, Databases

LEMMA CloseImplied == WriterInv /\ CloseInv => CloseLeavesNothing
<1> SUFFICES ASSUME WriterInv, CloseInv, NEW c \in Closers, closeCall[c] = "returned"
             PROVE  /\ InState("queued") \subseteq late
                    /\ kind = "stream" => /\ InState("queued") = {}
                                          /\ \A d \in Databases : database[d] # "open"
  BY DEF CloseLeavesNothing, Returned
<1>1. CASE kind = "dual"
  BY <1>1 DEF CloseInv, CloseOrder
<1>2. CASE kind = "stream"
  <2>1. channel = <<>> /\ \A d \in Databases : database[d] # "open"
    BY <1>2 DEF CloseInv, CloseOrder, Databases
  <2>2. ~ \E i \in 1..Len(channel) : TRUE
    BY <2>1
  <2>3. InState("queued") = {}
    BY <2>2 DEF CloseInv, AllInChannel, InState
  <2> QED BY <2>1, <2>3
<1> QED BY <1>1, <1>2 DEF CloseInv, Kinds

\* An event that leaves the channel leaves every other one in it.
LEMMA HeadLeavesRest ==
  ASSUME WriterInv, CloseInv, InsertHead
  PROVE  /\ AllInChannel' /\ channel # <<>>
         /\ InState("queued")' \subseteq InState("queued")
<1>1. PICK to \in {"written", "failed"} :
        channel # <<>> /\ channel' = Tail(channel) /\ record' = [record EXCEPT ![Head(channel)] = to]
  BY DEF InsertHead
<1>2. /\ Head(channel) \in Records /\ Head(channel) = channel[1]
      /\ Len(Tail(channel)) = Len(channel) - 1 /\ Len(channel) \in Nat
      /\ \A i \in 1..Len(Tail(channel)) : Tail(channel)[i] = channel[i + 1]
  BY <1>1, TailFacts DEF WriterInv
<1>3. record'[Head(channel)] = to /\ \A e \in Records \ {Head(channel)} : record'[e] = record[e]
  BY <1>1, <1>2 DEF WriterInv
<1>4. ASSUME NEW e \in Records, record'[e] = "queued" PROVE \E i \in 1..Len(channel') : channel'[i] = e
  <2>1. e # Head(channel) /\ record[e] = "queued"
    BY <1>3, <1>4
  <2>2. PICK k \in 1..Len(channel) : channel[k] = e
    BY <2>1 DEF CloseInv, AllInChannel
  <2>3. k # 1 /\ k - 1 \in 1..Len(Tail(channel)) /\ (k - 1) + 1 = k
    BY <1>2, <2>1, <2>2
  <2>4. Tail(channel)[k - 1] = e
    BY <1>2, <2>2, <2>3
  <2> QED BY <1>1, <2>3, <2>4
<1>5. InState("queued")' \subseteq InState("queued")
  BY <1>2, <1>3 DEF InState
<1> QED BY <1>1, <1>4, <1>5 DEF AllInChannel

\* An event is taken only while the goroutine of the stream writer will still look,
\* and is late if the writer is closed.
LEMMA OfferCloses ==
  ASSUME WriterInv, CloseInv, NEW e \in Records, WriteAnalytics(e)
  PROVE  CloseInv'
<1>0. /\ UNCHANGED <<kind, inserter, wClosed, stopping, closeCall, database>>
      /\ late' = IF wClosed THEN late \cup {e} ELSE late
  BY DEF WriteAnalytics
<1>1. CASE channel' = channel /\ record' = [record EXCEPT ![e] = "dropped"]
  <2>1. \A x \in Records : record'[x] = "queued" => record[x] = "queued"
    BY <1>1 DEF WriterInv
  <2>2. InState("queued")' \subseteq InState("queued")
    BY <2>1 DEF InState
  <2>3. AllInChannel'
    BY <1>1, <2>1 DEF CloseInv, AllInChannel
  <2>4. CloseOrder'
    BY <1>0, <1>1, <2>2 DEF CloseInv, CloseOrder
  <2> QED BY <1>0, <2>3, <2>4 DEF CloseInv
<1>2. CASE ~RefusesEvents /\ channel' = Append(channel, e) /\ record' = [record EXCEPT ![e] = "queued"]
  <2>1. \A x \in Records : record'[x] = IF x = e THEN "queued" ELSE record[x]
    BY <1>2 DEF WriterInv
  <2>2. /\ Len(channel') = Len(channel) + 1 /\ Len(channel) \in Nat /\ channel'[Len(channel) + 1] = e
        /\ \A i \in 1..Len(channel) : channel'[i] = channel[i]
    BY <1>2, AppendFacts DEF WriterInv
  <2>3. ASSUME NEW x \in Records, record'[x] = "queued" PROVE \E i \in 1..Len(channel') : channel'[i] = x
    <3>1. CASE x = e
      BY <2>2, <3>1
    <3>2. CASE x # e
      <4>1. PICK i \in 1..Len(channel) : channel[i] = x
        BY <2>1, <2>3, <3>2 DEF CloseInv, AllInChannel
      <4> QED BY <2>2, <4>1
    <3> QED BY <3>1, <3>2
  <2>4. InState("queued")' = InState("queued") \cup {e}
    BY <2>1 DEF InState
  <2>5. ~(kind = "stream" /\ inserter = "exited")
    BY <1>2 DEF RefusesEvents, CloseInv, CloseOrder
  <2>6. CloseOrder'
    BY <1>0, <2>4, <2>5 DEF CloseInv, CloseOrder
  <2>7. late' \subseteq Records
    BY <1>0 DEF CloseInv
  <2> QED BY <1>0, <2>3, <2>6, <2>7 DEF CloseInv, AllInChannel
<1> QED BY <1>1, <1>2 DEF WriteAnalytics

\* The goroutine goes on.
LEMMA InserterCloses ==
  ASSUME WriterInv, CloseInv, InserterStep
  PROVE  CloseInv'
<1>0. UNCHANGED <<kind, wClosed, stopping, closeCall, database, late>>
  BY DEF InserterStep, InserterWrites, InserterStops, InserterDrained
<1>1. CASE InserterWrites
  <2>1. /\ AllInChannel' /\ channel # <<>> /\ inserter' = inserter
        /\ InState("queued")' \subseteq InState("queued")
    BY <1>1, HeadLeavesRest DEF InserterWrites
  <2>2. CloseOrder'
    BY <1>0, <2>1 DEF CloseInv, CloseOrder
  <2> QED BY <1>0, <2>1, <2>2 DEF CloseInv
<1>2. CASE InserterStops
  <2>1. /\ UNCHANGED <<record, channel>> /\ inserter = "select" /\ stopping
        /\ inserter' = IF kind = "dual" THEN "exited" ELSE "drain"
    BY <1>2 DEF InserterStops
  <2>2. CloseOrder'
    BY <1>0, <2>1 DEF CloseInv, CloseOrder, InState, Kinds
  <2> QED BY <1>0, <2>1, <2>2 DEF CloseInv, AllInChannel
<1>3. CASE InserterDrained
  <2>1. /\ UNCHANGED <<record, channel>> /\ inserter = "drain" /\ channel = <<>>
        /\ inserter' = "exited"
    BY <1>3 DEF InserterDrained
  <2>2. CloseOrder'
    BY <1>0, <2>1 DEF CloseInv, CloseOrder, InState
  <2> QED BY <1>0, <2>1, <2>2 DEF CloseInv, AllInChannel
<1> QED BY <1>1, <1>2, <1>3 DEF InserterStep

\* A call of Close begins, or goes on.
LEMMA CloserCloses ==
  ASSUME WriterInv, CloseInv, NEW c \in Closers, CloseWriter(c) \/ CloserStep(c)
  PROVE  CloseInv'
<1>0. UNCHANGED <<kind, inserter, late>>
  BY DEF CloseWriter, CloserStep, SignalStop, WaitForInserter, CloserDrains, CloseDatabase
<1>a. \A p : \A b \in Closers : CloseAt(b, p) =>
        closeCall'[b] = p /\ \A x \in Closers \ {b} : closeCall'[x] = closeCall[x]
  BY DEF CloseAt, CloseInv
<1>b. \A b \in Closers : \A p \in CallStates : CloseAt(b, p) => closeCall' \in [Closers -> CallStates]
  BY DEF CloseAt, CloseInv
<1>1. CASE CloseWriter(c)
  <2>1. PICK p \in {"late", "signal"} : CloseAt(c, p)
    BY <1>1 DEF CloseWriter
  <2>2. wClosed' /\ UNCHANGED <<record, channel, stopping, database>>
    BY <1>1 DEF CloseWriter
  <2>3. CloseOrder'
    BY <1>0, <1>a, <2>1, <2>2 DEF CloseInv, CloseOrder, InState
  <2>4. closeCall' \in [Closers -> CallStates]
    BY <1>b, <2>1 DEF CallStates
  <2> QED BY <1>0, <2>2, <2>3, <2>4 DEF CloseInv, AllInChannel
<1>2. CASE SignalStop(c)
  <2>1. /\ CloseAt(c, "wait") /\ closeCall[c] = "signal" /\ stopping'
        /\ UNCHANGED <<record, channel, wClosed, database>>
    BY <1>2 DEF SignalStop
  <2>2. CloseOrder'
    BY <1>0, <1>a, <2>1 DEF CloseInv, CloseOrder, InState
  <2>3. closeCall' \in [Closers -> CallStates] /\ stopping' \in BOOLEAN
    BY <1>2, <1>b, <2>1 DEF CallStates, SignalStop
  <2> QED BY <1>0, <2>1, <2>2, <2>3 DEF CloseInv, AllInChannel
<1>3. CASE WaitForInserter(c)
  <2>1. /\ closeCall[c] = "wait" /\ inserter = "exited"
        /\ UNCHANGED <<record, channel, wClosed, stopping, database>>
        /\ CloseAt(c, IF kind = "dual" THEN "drain" ELSE "close_critical")
    BY <1>3 DEF WaitForInserter
  <2>2. closeCall' \in [Closers -> CallStates]
    BY <1>b, <2>1 DEF CallStates
  <2>3. CloseOrder'
    <3>1. CASE kind = "dual"
      BY <1>0, <1>a, <2>1, <3>1 DEF CloseInv, CloseOrder, InState
    <3>2. CASE kind = "stream"
      BY <1>0, <1>a, <2>1, <3>2 DEF CloseInv, CloseOrder, InState
    <3> QED BY <3>1, <3>2 DEF CloseInv, Kinds
  <2> QED BY <1>0, <2>1, <2>2, <2>3 DEF CloseInv, AllInChannel
<1>4. CASE CloserDrains(c)
  <2>0. closeCall[c] = "drain" /\ UNCHANGED <<wClosed, stopping, database>>
    BY <1>4 DEF CloserDrains
  <2>1. CASE InsertHead /\ UNCHANGED closeCall
    <3>1. /\ AllInChannel' /\ channel # <<>>
          /\ InState("queued")' \subseteq InState("queued")
      BY <2>1, HeadLeavesRest
    <3>2. CloseOrder'
      BY <1>0, <2>0, <2>1, <3>1 DEF CloseInv, CloseOrder
    <3> QED BY <1>0, <2>0, <2>1, <3>1, <3>2 DEF CloseInv
  <2>2. CASE channel = <<>> /\ CloseAt(c, "close_critical") /\ UNCHANGED <<record, channel>>
    <3>1. ~ \E i \in 1..Len(channel) : TRUE
      BY <2>2
    <3>2. InState("queued")' = {}
      BY <2>2, <3>1 DEF CloseInv, AllInChannel, InState
    <3>3. closeCall' \in [Closers -> CallStates]
      BY <1>b, <2>2 DEF CallStates
    <3>4. CloseOrder'
      BY <1>0, <1>a, <2>0, <2>2, <3>2 DEF CloseInv, CloseOrder, Kinds
    <3> QED BY <1>0, <2>0, <2>2, <3>3, <3>4 DEF CloseInv, AllInChannel
  <2> QED BY <1>4, <2>1, <2>2 DEF CloserDrains
<1>5. ASSUME NEW d \in Databases, NEW next \in {"close_analytics", "returned"},
             d = "critical" <=> next = "close_analytics", CloseDatabase(c, d, next)
      PROVE  CloseInv'
  <2>1. /\ closeCall[c] = IF d = "critical" THEN "close_critical" ELSE "close_analytics"
        /\ UNCHANGED <<record, channel, wClosed, stopping>>
    BY <1>5 DEF CloseDatabase
  <2>2. PICK s \in {"closed", "failed"} : database' = [database EXCEPT ![d] = s]
    BY <1>5 DEF CloseDatabase
  <2>3. PICK p \in {"close_analytics", "returned"} :
          CloseAt(c, p) /\ (p = next \/ (p = "returned" /\ kind = "dual"))
    BY <1>5 DEF CloseDatabase
  <2>4. /\ database'[d] # "open" /\ \A b \in Databases : database[b] # "open" => database'[b] # "open"
        /\ database' \in [Databases -> {"open", "closed", "failed"}]
    BY <2>2 DEF CloseInv
  <2>5. closeCall' \in [Closers -> CallStates]
    BY <1>b, <2>3 DEF CallStates
  <2>6. CASE d = "critical"
    <3>1. closeCall[c] = "close_critical" /\ (p = "close_analytics" \/ kind = "dual")
      BY <1>5, <2>1, <2>3, <2>6
    <3>2. CloseOrder'
      BY <1>0, <1>a, <2>1, <2>3, <2>4, <2>6, <3>1 DEF CloseInv, CloseOrder, InState, Databases
    <3> QED BY <1>0, <2>1, <2>4, <2>5, <3>2 DEF CloseInv, AllInChannel
  <2>7. CASE d = "analytics"
    <3>1. closeCall[c] = "close_analytics" /\ p = "returned"
      BY <1>5, <2>1, <2>3, <2>7
    <3>2. CloseOrder'
      BY <1>0, <1>a, <2>1, <2>3, <2>4, <2>7, <3>1 DEF CloseInv, CloseOrder, InState, Databases
    <3> QED BY <1>0, <2>1, <2>4, <2>5, <3>2 DEF CloseInv, AllInChannel
  <2> QED BY <2>6, <2>7 DEF Databases
<1> QED BY <1>1, <1>2, <1>3, <1>4, <1>5 DEF CloserStep, Databases

LEMMA CloseInductive == WriterInv /\ CloseInv /\ [WriterNext]_writerVars => CloseInv'
<1> SUFFICES ASSUME WriterInv, CloseInv, [WriterNext]_writerVars PROVE CloseInv'
  OBVIOUS
<1>1. ASSUME UNCHANGED <<kind, record, channel, inserter, wClosed, stopping, closeCall, database, late>>
      PROVE  CloseInv'
  BY <1>1 DEF CloseInv, CloseOrder, AllInChannel, InState
<1>2. CASE WriteCritical \/ UNCHANGED writerVars
  BY <1>1, <1>2 DEF WriteCritical, writerVars
<1>3. ASSUME NEW e \in Records, CountSent(e) PROVE CloseInv'
  BY <1>1, <1>3 DEF CountSent
<1> QED BY <1>2, <1>3, OfferCloses, InserterCloses, CloserCloses DEF WriterNext

\* When Close returns, everything that was taken before it has been given to the
\* database, of the stream writer everything that was ever taken, whatever fails
\* (dual/writer.go:161-235, dualstream.go).
THEOREM CloseTheorem == WriterSpec => []CloseLeavesNothing
<1>1. WriterInit => WriterInv /\ CloseInv
  BY WriterInitial, CloseInitial
<1>2. WriterInv /\ CloseInv /\ [WriterNext]_writerVars => WriterInv' /\ CloseInv'
  BY WriterInductive, CloseInductive
<1> QED BY <1>1, <1>2, CloseImplied, PTL DEF WriterSpec

-----------------------------------------------------------------------------
(* The QoS bus *)

EventStates == {"new", "sending", "queued", "check", "deliver", "pause", "done", "canceled",
                "dropped"}
EventRecords == [at : EventStates, async : BOOLEAN, handler : Nat, tries : Nat]

\* What is in the channel was published asynchronously and waits, and none is there
\* twice; the context ends after the bus is closed.
QosInv ==
  /\ event \in [Happenings -> EventRecords]
  /\ asyncCh \in Seq(Happenings) /\ Once(asyncCh)
  /\ \A i \in 1..Len(asyncCh) : event[asyncCh[i]].at = "queued"
  /\ \A e \in Happenings : event[e].at \in {"sending", "queued"} => event[e].async
  /\ \A e \in Happenings : event[e].at = "new" => ~event[e].async
  /\ qClosed \in BOOLEAN
  /\ qClose # "idle" \/ qCtxDone => qClosed

LEMMA QosInitial == QosInit => QosInv
<1> SUFFICES ASSUME QosInit PROVE QosInv
  OBVIOUS
<1>1. event \in [Happenings -> EventRecords]
  BY DEF QosInit, Fresh, EventRecords, EventStates
<1> QED BY <1>1, EmptyOnce DEF QosInit, Fresh, QosInv

\* An event that is being published goes on, and everything else stays.
Onward(e) ==
  \E r \in EventRecords :
    /\ event' = [event EXCEPT ![e] = r]
    /\ event[e].at \in {"check", "deliver", "pause"}
    /\ r.at \in {"deliver", "pause", "done"} \/ (r.at = "canceled" /\ qClosed)
    /\ r.async = event[e].async
    /\ UNCHANGED <<asyncCh, qClosed, qClose, qCtxDone>>

\* A step of the bus' goroutine or of Close that moves no event.
QosElse ==
  /\ UNCHANGED <<event, asyncCh>>
  /\ \/ UNCHANGED <<qClosed, qClose, qCtxDone>>
     \/ qClosed'

LEMMA OnwardByAt ==
  ASSUME QosInv, NEW e \in Happenings, NEW place, At(e, place),
         event[e].at \in {"check", "deliver", "pause"},
         place \in {"deliver", "pause", "done"} \/ (place = "canceled" /\ qClosed),
         UNCHANGED <<asyncCh, qClosed, qClose, qCtxDone>>
  PROVE  Onward(e)
<1> DEFINE r == [event[e] EXCEPT !.at = place]
<1>1. event[e] \in EventRecords
  BY DEF QosInv
<1>2. r \in EventRecords /\ r.at = place /\ r.async = event[e].async
  BY <1>1 DEF EventRecords, EventStates
<1>3. event' = [event EXCEPT ![e] = r]
  BY DEF At
<1> QED BY <1>2, <1>3 DEF Onward

LEMMA OnwardByNext ==
  ASSUME QosInv, NEW e \in Happenings, NextHandler(e),
         event[e].at \in {"deliver", "pause"},
         UNCHANGED <<asyncCh, qClosed, qClose, qCtxDone>>
  PROVE  Onward(e)
<1> DEFINE r == [event[e] EXCEPT !.at = "deliver", !.handler = @ + 1, !.tries = 0]
<1>1. event[e] \in EventRecords
  BY DEF QosInv
<1>2. r \in EventRecords /\ r.at = "deliver" /\ r.async = event[e].async
  <2>1. event[e].handler + 1 \in Nat
    BY <1>1 DEF EventRecords
  <2>2. \A x \in EventRecords : \A n, m \in Nat :
          LET y == [x EXCEPT !.at = "deliver", !.handler = n, !.tries = m]
          IN  y \in EventRecords /\ y.at = "deliver" /\ y.async = x.async
    BY DEF EventRecords, EventStates
  <2> QED BY <1>1, <2>1, <2>2, ZenonT(60)
<1>3. CASE At(e, "done")
  BY <1>3, OnwardByAt
<1>4. CASE event' = [event EXCEPT ![e].at = "deliver", ![e].handler = @ + 1, ![e].tries = 0]
  <2>1. event' = [event EXCEPT ![e] = r]
    BY <1>4 DEF QosInv
  <2> QED BY <1>2, <2>1 DEF Onward
<1> QED BY <1>3, <1>4 DEF NextHandler

LEMMA PublishOnward ==
  ASSUME QosInv, NEW e \in Happenings, PublishStep(e) PROVE Onward(e)
<1>1. CASE StartPublish(e)
  <2>1. event[e].at = "check" /\ UNCHANGED <<asyncCh, qClosed, qClose, qCtxDone>>
    BY <1>1 DEF StartPublish
  <2>2. (At(e, "canceled") /\ qClosed) \/ At(e, "done") \/ At(e, "deliver")
    BY <1>1 DEF StartPublish, Refused, QosInv
  <2> QED BY <2>1, <2>2, OnwardByAt
<1>2. CASE DeliverQoS0(e)
  BY <1>2, OnwardByNext DEF DeliverQoS0
<1>3. CASE HandleQoS1(e)
  <2>1. event[e].at = "deliver" /\ UNCHANGED <<asyncCh, qClosed, qClose, qCtxDone>>
    BY <1>3 DEF HandleQoS1
  <2>2. NextHandler(e) \/ At(e, "pause")
    BY <1>3 DEF HandleQoS1
  <2> QED BY <2>1, <2>2, OnwardByAt, OnwardByNext
<1>4. CASE Retry(e)
  <2> DEFINE r == [event[e] EXCEPT !.at = "deliver", !.tries = @ + 1]
  <2>1. event[e] \in EventRecords
    BY DEF QosInv
  <2>2. r \in EventRecords /\ r.at = "deliver" /\ r.async = event[e].async
    <3>1. event[e].tries + 1 \in Nat
      BY <2>1 DEF EventRecords
    <3>2. \A x \in EventRecords : \A m \in Nat :
            LET y == [x EXCEPT !.at = "deliver", !.tries = m]
            IN  y \in EventRecords /\ y.at = "deliver" /\ y.async = x.async
      BY DEF EventRecords, EventStates
    <3> QED BY <2>1, <3>1, <3>2
  <2>3. event' = [event EXCEPT ![e] = r]
    BY <1>4 DEF Retry, QosInv
  <2> QED BY <1>4, <2>2, <2>3 DEF Retry, Onward
<1>5. CASE GiveUpRetry(e)
  BY <1>5, OnwardByNext DEF GiveUpRetry
<1> QED BY <1>1, <1>2, <1>3, <1>4, <1>5 DEF PublishStep

\* An event outside the channel may move as it likes between states outside it.
LEMMA EventMoves ==
  ASSUME QosInv, NEW e \in Happenings, NEW r \in EventRecords,
         event' = [event EXCEPT ![e] = r], event[e].at # "queued",
         r.at \in {"sending", "queued"} => r.async, r.at # "new",
         UNCHANGED <<asyncCh, qClosed, qClose, qCtxDone>>
  PROVE  QosInv'
<1>1. \A x \in Happenings : event'[x] = IF x = e THEN r ELSE event[x]
  BY DEF QosInv
<1>2. \A i \in 1..Len(asyncCh) : asyncCh[i] \in Happenings /\ asyncCh[i] # e
  BY DEF QosInv
<1>3. event' \in [Happenings -> EventRecords]
  BY DEF QosInv
<1>4. \A i \in 1..Len(asyncCh) : event'[asyncCh[i]].at = "queued"
  BY <1>1, <1>2 DEF QosInv
<1>5. \A x \in Happenings : /\ event'[x].at \in {"sending", "queued"} => event'[x].async
                            /\ event'[x].at = "new" => ~event'[x].async
  BY <1>1 DEF QosInv
<1> QED BY <1>3, <1>4, <1>5 DEF QosInv, Once


\* An event before its publication: it is offered to the channel, or a caller publishes it.
Begins(e) ==
  \E r \in EventRecords :
    /\ event' = [event EXCEPT ![e] = r]
    /\ \/ event[e].at = "new" /\ r.at \in {"sending", "dropped"} /\ r.async
       \/ event[e].at = "new" /\ r.at = "check" /\ ~r.async
       \/ event[e].at = "sending" /\ r.at = "dropped" /\ r.async
    /\ UNCHANGED <<asyncCh, qClosed, qClose, qCtxDone>>

\* Whether the channel takes the event.
Sends(e) ==
  /\ event[e].at = "sending" /\ asyncCh' = Append(asyncCh, e)
  /\ event' = [event EXCEPT ![e] = [event[e] EXCEPT !.at = "queued"]]
  /\ UNCHANGED <<qClosed, qClose, qCtxDone>>

LEMMA BeforePublication ==
  ASSUME QosInv, NEW e \in Happenings, CheckAsync(e) \/ SendAsync(e) \/ PublishSync(e)
  PROVE  Begins(e) \/ Sends(e)
<1>1. event[e] \in EventRecords /\ event[e].at \in {"new", "sending"}
  BY DEF QosInv, CheckAsync, SendAsync, PublishSync
<1>2. \A x \in EventRecords : \A place \in EventStates :
        LET y == [x EXCEPT !.at = place]
        IN  y \in EventRecords /\ y.at = place /\ y.async = x.async
  BY DEF EventRecords, EventStates
<1>3. \A x \in EventRecords : \A place \in EventStates :
        LET y == [x EXCEPT !.at = place, !.async = TRUE]
        IN  y \in EventRecords /\ y.at = place /\ y.async
  BY DEF EventRecords, EventStates
<1>4. CASE CheckAsync(e)
  <2>1. PICK place \in {"sending", "dropped"} :
          event' = [event EXCEPT ![e].at = place, ![e].async = TRUE]
    BY <1>4 DEF CheckAsync
  <2> DEFINE r == [event[e] EXCEPT !.at = place, !.async = TRUE]
  <2>2. r \in EventRecords /\ r.at = place /\ r.async
    <3>1. place \in EventStates
      BY DEF EventStates
    <3>2. event[e] \in EventRecords
      BY <1>1
    <3> QED BY <1>3, <3>1, <3>2
  <2>3. event' = [event EXCEPT ![e] = r]
    BY <2>1 DEF QosInv
  <2> HIDE DEF r
  <2> QED BY <1>4, <2>2, <2>3 DEF CheckAsync, Begins
<1>5. CASE PublishSync(e)
  <2> DEFINE r == [event[e] EXCEPT !.at = "check"]
  <2>1. r \in EventRecords /\ r.at = "check" /\ ~r.async
    BY <1>1, <1>2, <1>5 DEF EventStates, PublishSync, QosInv
  <2>2. event' = [event EXCEPT ![e] = r]
    BY <1>5 DEF PublishSync, At
  <2> HIDE DEF r
  <2> QED BY <1>5, <2>1, <2>2 DEF PublishSync, Begins
<1>6. CASE SendAsync(e)
  <2>1. CASE At(e, "queued") /\ asyncCh' = Append(asyncCh, e)
    BY <1>6, <2>1 DEF SendAsync, At, Sends
  <2>2. CASE At(e, "dropped") /\ UNCHANGED asyncCh
    <3> DEFINE r == [event[e] EXCEPT !.at = "dropped"]
    <3>0. event[e].async /\ "dropped" \in EventStates
      BY <1>6 DEF EventStates, SendAsync, QosInv
    <3>1. r \in EventRecords /\ r.at = "dropped" /\ r.async
      BY <1>1, <1>2, <3>0
    <3>2. event' = [event EXCEPT ![e] = r]
      BY <2>2 DEF At
    <3> HIDE DEF r
    <3> QED BY <1>6, <2>2, <3>1, <3>2 DEF SendAsync, Begins
  <2> QED BY <1>6, <2>1, <2>2 DEF SendAsync
<1> QED BY <1>4, <1>5, <1>6

LEMMA SendKeeps == ASSUME QosInv, NEW e \in Happenings, Sends(e) PROVE QosInv'
<1> DEFINE r == [event[e] EXCEPT !.at = "queued"]
<1>1. event[e] \in EventRecords /\ event[e].async
  BY DEF QosInv, Sends
<1>2. r \in EventRecords /\ r.at = "queued" /\ r.async
  BY <1>1 DEF EventRecords, EventStates
<1>3. event' = [event EXCEPT ![e] = r]
  BY DEF Sends
<1> HIDE DEF r
<1>4. \A k \in 1..Len(asyncCh) : asyncCh[k] \in Happenings /\ asyncCh[k] # e
  BY DEF QosInv, Sends
<1>5. /\ asyncCh' \in Seq(Happenings) /\ Once(asyncCh')
      /\ \A i \in 1..Len(asyncCh') : asyncCh'[i] = e \/ \E k \in 1..Len(asyncCh) : asyncCh'[i] = asyncCh[k]
  BY <1>4, AppendOnce DEF QosInv, Sends
<1>6. \A x \in Happenings : event'[x] = IF x = e THEN r ELSE event[x]
  BY <1>3 DEF QosInv
<1>7. \A i \in 1..Len(asyncCh') : event'[asyncCh'[i]].at = "queued"
  BY <1>2, <1>4, <1>5, <1>6 DEF QosInv
<1>8. \A x \in Happenings : /\ event'[x].at \in {"sending", "queued"} => event'[x].async
                            /\ event'[x].at = "new" => ~event'[x].async
  BY <1>2, <1>6 DEF QosInv
<1>9. event' \in [Happenings -> EventRecords]
  BY <1>2, <1>3 DEF QosInv
<1> QED BY <1>5, <1>7, <1>8, <1>9 DEF QosInv, Sends, Once

\* The bus' goroutine takes the event at the head, which nobody else has.
Takes(e) ==
  /\ event[e].at = "queued" /\ event[e].async
  /\ event' = [event EXCEPT ![e] = [event[e] EXCEPT !.at = "check"]]
  /\ UNCHANGED <<qClosed, qClose, qCtxDone>>

LEMMA TakeAsyncKeeps == ASSUME QosInv, TakeAsync PROVE QosInv' /\ \E e \in Happenings : Takes(e)
<1>1. PICK e \in Happenings : e = Head(asyncCh) /\ event[e].at = "queued" /\ event[e].async
  BY TailFacts DEF TakeAsync, QosInv
<1> DEFINE r == [event[e] EXCEPT !.at = "check"]
<1>2. event[e] \in EventRecords
  BY DEF QosInv
<1>3. r \in EventRecords /\ r.at = "check" /\ r.async
  BY <1>1, <1>2 DEF EventRecords, EventStates
<1>4. event' = [event EXCEPT ![e] = r] /\ asyncCh' = Tail(asyncCh) /\ asyncCh # <<>>
      /\ UNCHANGED <<qClosed, qClose, qCtxDone>>
  BY <1>1 DEF TakeAsync, At
<1>5. Takes(e)
  BY <1>1, <1>4 DEF Takes
<1> HIDE DEF r
<1>6. /\ asyncCh' \in Seq(Happenings) /\ Once(asyncCh')
      /\ \A i \in 1..Len(asyncCh') : \E k \in 1..Len(asyncCh) : asyncCh'[i] = asyncCh[k] /\ asyncCh[k] # e
  BY <1>1, <1>4, TailOnce DEF QosInv
<1>7. \A x \in Happenings : event'[x] = IF x = e THEN r ELSE event[x]
  BY <1>4 DEF QosInv
<1>8. \A k \in 1..Len(asyncCh) : asyncCh[k] \in Happenings
  BY DEF QosInv
<1>9. \A i \in 1..Len(asyncCh') : event'[asyncCh'[i]].at = "queued"
  BY <1>6, <1>7, <1>8, SMTT(30) DEF QosInv
<1>10. \A x \in Happenings : /\ event'[x].at \in {"sending", "queued"} => event'[x].async
                             /\ event'[x].at = "new" => ~event'[x].async
  BY <1>3, <1>7 DEF QosInv
<1>11. event' \in [Happenings -> EventRecords]
  BY <1>3, <1>4 DEF QosInv
<1> QED BY <1>4, <1>5, <1>6, <1>9, <1>10, <1>11 DEF QosInv, Once

\* The steps of the bus, as far as its channel is concerned.
LEMMA QosSteps ==
  ASSUME QosInv, [QosNext]_qosVars
  PROVE  \/ \E e \in Happenings : Begins(e) \/ Sends(e) \/ Onward(e)
         \/ TakeAsync
         \/ QosElse /\ (qCtxDone' => qClosed') /\ (qClose' # "idle" => qClosed')
<1>1. CASE UNCHANGED qosVars
  BY <1>1 DEF qosVars, QosElse, QosInv
<1>2. ASSUME NEW e \in Happenings, NEW h \in Handlers, HandleQoS0(e, h)
      PROVE QosElse /\ (qCtxDone' => qClosed') /\ (qClose' # "idle" => qClosed')
  BY <1>2 DEF HandleQoS0, QosElse, QosInv
<1>3. CASE AsyncStops
  BY <1>3 DEF AsyncStops, QosElse, QosInv
<1>4. CASE CloseQos \/ CloseStep
  BY <1>4 DEF CloseQos, CloseStep, CancelQos, StopQos, QosClosed, QosElse, QosInv
<1> QED BY <1>1, <1>2, <1>3, <1>4, BeforePublication, PublishOnward DEF QosNext

LEMMA QosInductive == QosInv /\ [QosNext]_qosVars => QosInv'
<1> SUFFICES ASSUME QosInv, [QosNext]_qosVars PROVE QosInv'
  OBVIOUS
<1>1. ASSUME NEW e \in Happenings, Begins(e) PROVE QosInv'
  BY <1>1, EventMoves DEF Begins
<1>2. ASSUME NEW e \in Happenings, Onward(e) PROVE QosInv'
  BY <1>2, EventMoves DEF Onward
<1>3. CASE QosElse /\ (qCtxDone' => qClosed') /\ (qClose' # "idle" => qClosed')
  BY <1>3 DEF QosElse, QosInv, Once
<1> QED BY <1>1, <1>2, <1>3, QosSteps, SendKeeps, TakeAsyncKeeps


\* The abstract item an event with this record is.
EventItemOf(r) ==
  IF ~r.async THEN "new"
  ELSE CASE r.at \in {"new", "sending", "dropped"} -> "new"
         [] r.at = "done" -> "handled"
         [] r.at = "canceled" -> "discarded"
         [] OTHER -> "accepted"

\* What an event's change is to the abstract queue.
LEMMA EventItemChanges ==
  ASSUME QosInv, NEW e \in Happenings, NEW r \in EventRecords, event' = [event EXCEPT ![e] = r]
  PROVE  /\ EventItem[e] = EventItemOf(event[e])
         /\ EventItem' = [EventItem EXCEPT ![e] = EventItemOf(r)]
         /\ EventItemOf(r) = EventItemOf(event[e]) => EventItem' = EventItem
<1>1. \A x \in Happenings : event'[x] = IF x = e THEN r ELSE event[x]
  BY DEF QosInv
<1>2. EventItem = [x \in Happenings |-> EventItemOf(event[x])]
  BY DEF EventItem, EventItemOf
<1>3. EventItem' = [x \in Happenings |-> EventItemOf(event'[x])]
  BY DEF EventItem, EventItemOf
<1>4. \A x \in Happenings : EventItemOf(event'[x])
                              = IF x = e THEN EventItemOf(r) ELSE EventItemOf(event[x])
  BY <1>1
<1>5. [EventItem EXCEPT ![e] = EventItemOf(r)]
        = [x \in Happenings |-> IF x = e THEN EventItemOf(r) ELSE EventItemOf(event[x])]
  BY <1>2
<1>6. EventItemOf(r) = EventItemOf(event[e])
        => \A x \in Happenings : EventItemOf(event'[x]) = EventItemOf(event[x])
  BY <1>4
<1> QED BY <1>2, <1>3, <1>4, <1>5, <1>6

LEMMA QosStart == QosInit => BusQueue!Init
  BY DEF QosInit, Fresh, BusQueue!Init, EventItem

\* The places of an asynchronous event, and what they are to the abstract queue.
LEMMA EventItemValues ==
  ASSUME NEW r \in EventRecords
  PROVE  /\ ~r.async => EventItemOf(r) = "new"
         /\ r.at \in {"new", "sending", "dropped"} => EventItemOf(r) = "new"
         /\ r.async /\ r.at \in {"queued", "check", "deliver", "pause"} => EventItemOf(r) = "accepted"
         /\ r.async /\ r.at = "done" => EventItemOf(r) = "handled"
         /\ r.async /\ r.at = "canceled" => EventItemOf(r) = "discarded"
  BY DEF EventItemOf, EventRecords, EventStates

\* Every step of the bus is a step of the abstract queue, or none of it.
LEMMA QosStepsMap == QosInv /\ [QosNext]_qosVars => [BusQueue!Next]_(BusQueue!vars)
<1> SUFFICES ASSUME QosInv, [QosNext]_qosVars PROVE [BusQueue!Next]_(BusQueue!vars)
  OBVIOUS
<1>0. EventItem' = EventItem /\ qClosed' = qClosed => UNCHANGED BusQueue!vars
  BY DEF BusQueue!vars
<1>1. ASSUME NEW e \in Happenings, Begins(e) PROVE [BusQueue!Next]_(BusQueue!vars)
  <2>1. PICK r \in EventRecords :
          /\ event' = [event EXCEPT ![e] = r] /\ qClosed' = qClosed
          /\ event[e].at \in {"new", "sending"}
          /\ r.at \in {"sending", "dropped"} \/ ~r.async
    BY <1>1 DEF Begins
  <2>2. event[e] \in EventRecords
    BY DEF QosInv
  <2>3. EventItemOf(event[e]) = "new" /\ EventItemOf(r) = "new"
    BY <2>1, <2>2, EventItemValues
  <2> QED BY <1>0, <2>1, <2>3, EventItemChanges
<1>2. ASSUME NEW e \in Happenings, Sends(e) PROVE BusQueue!Next
  <2> DEFINE r == [event[e] EXCEPT !.at = "queued"]
  <2>1. event[e] \in EventRecords /\ event[e].async /\ event[e].at = "sending"
    BY <1>2 DEF QosInv, Sends
  <2>2. r \in EventRecords /\ r.at = "queued" /\ r.async
    BY <2>1 DEF EventRecords, EventStates
  <2>3. event' = [event EXCEPT ![e] = r] /\ qClosed' = qClosed
    BY <1>2 DEF Sends
  <2> HIDE DEF r
  <2>4. EventItem[e] = "new" /\ EventItem' = [EventItem EXCEPT ![e] = "accepted"]
    <3>1. EventItemOf(event[e]) = "new" /\ EventItemOf(r) = "accepted"
      BY <2>1, <2>2, EventItemValues
    <3> QED BY <2>2, <2>3, <3>1, EventItemChanges
  <2>5. BusQueue!Accept(e)
    BY <2>3, <2>4 DEF BusQueue!Accept
  <2> QED BY <2>5 DEF BusQueue!Next
<1>3. CASE TakeAsync
  <2>1. PICK e \in Happenings : Takes(e)
    BY <1>3, TakeAsyncKeeps
  <2> DEFINE r == [event[e] EXCEPT !.at = "check"]
  <2>2. event[e] \in EventRecords /\ event[e].async /\ event[e].at = "queued"
    BY <2>1 DEF QosInv, Takes
  <2>3. r \in EventRecords /\ r.at = "check" /\ r.async
    BY <2>2 DEF EventRecords, EventStates
  <2>4. event' = [event EXCEPT ![e] = r] /\ qClosed' = qClosed
    BY <2>1 DEF Takes
  <2> HIDE DEF r
  <2>5. EventItemOf(event[e]) = "accepted" /\ EventItemOf(r) = "accepted"
    BY <2>2, <2>3, EventItemValues
  <2> QED BY <1>0, <2>3, <2>4, <2>5, EventItemChanges
<1>4. ASSUME NEW e \in Happenings, Onward(e) PROVE [BusQueue!Next]_(BusQueue!vars)
  <2>1. PICK r \in EventRecords :
          /\ event' = [event EXCEPT ![e] = r] /\ qClosed' = qClosed
          /\ event[e].at \in {"check", "deliver", "pause"}
          /\ r.at \in {"deliver", "pause", "done"} \/ (r.at = "canceled" /\ qClosed)
          /\ r.async = event[e].async
    BY <1>4 DEF Onward
  <2>2. event[e] \in EventRecords
    BY DEF QosInv
  <2>3. /\ EventItem[e] = EventItemOf(event[e])
        /\ EventItem' = [EventItem EXCEPT ![e] = EventItemOf(r)]
        /\ EventItemOf(r) = EventItemOf(event[e]) => EventItem' = EventItem
    BY <2>1, EventItemChanges
  <2>4. CASE ~r.async \/ r.at \in {"deliver", "pause"}
    BY <1>0, <2>1, <2>2, <2>3, <2>4, EventItemValues
  <2>5. CASE r.async /\ r.at = "done"
    <3>1. EventItem[e] = "accepted" /\ EventItem' = [EventItem EXCEPT ![e] = "handled"]
      BY <2>1, <2>2, <2>3, <2>5, EventItemValues
    <3>2. BusQueue!Handle(e)
      BY <2>1, <3>1 DEF BusQueue!Handle
    <3> QED BY <3>2 DEF BusQueue!Next
  <2>6. CASE r.async /\ r.at = "canceled"
    <3>1. EventItem[e] = "accepted" /\ EventItem' = [EventItem EXCEPT ![e] = "discarded"]
      BY <2>1, <2>2, <2>3, <2>6, EventItemValues
    <3>2. EventItem' = [x \in Happenings |-> IF x \in {e} THEN "discarded" ELSE EventItem[x]]
      BY <3>1 DEF EventItem
    <3>3. BusQueue!Discard({e})
      BY <2>1, <2>6, <3>1, <3>2 DEF BusQueue!Discard
    <3> QED BY <3>3 DEF BusQueue!Next
  <2> QED BY <2>1, <2>4, <2>5, <2>6 DEF EventRecords
<1>5. CASE QosElse
  <2>1. EventItem' = EventItem
    BY <1>5 DEF QosElse, EventItem
  <2>2. CASE qClosed' = qClosed
    BY <1>0, <2>1, <2>2
  <2>3. CASE ~qClosed /\ qClosed'
    BY <2>1, <2>3 DEF BusQueue!Close, BusQueue!Next
  <2> QED BY <1>5, <2>2, <2>3 DEF QosElse, QosInv
<1> QED BY <1>1, <1>2, <1>3, <1>4, <1>5, QosSteps

\* The asynchronous side of the bus delivers an event it has taken once and gives it up
\* only after it was closed, whatever its handlers do (qos/bus.go:96-256).
THEOREM BusRefinement == QosSpec => BusImplementsQueue
<1>1. QosInit => QosInv
  BY QosInitial
<1>2. QosInv /\ [QosNext]_qosVars => QosInv'
  BY QosInductive
<1>3. QosInv /\ [QosNext]_qosVars => [BusQueue!Next]_(BusQueue!vars)
  BY QosStepsMap
<1>4. QosInit => BusQueue!Init
  BY QosStart
<1> QED BY <1>1, <1>2, <1>3, <1>4, PTL DEF QosSpec, BusImplementsQueue, BusQueue!Spec

-----------------------------------------------------------------------------
(* What every handler of the bus hears of an event. *)

HeardRecords == [calls : Nat, won : BOOLEAN]

\* Handler h has what its QoS promises of an event it is done with: r is what it
\* heard, owes that its goroutine has not run, ended that the bus was closed.
Served(async, r, owes, ended, h) ==
  IF QoSOf[h] = 0
    THEN IF owes THEN r.calls = 0 ELSE r.calls = 1
    ELSE /\ r.calls \in 1..(MaxRetries + 1)
         /\ async => r.won \/ r.calls = MaxRetries + 1 \/ ended

\* An event's loop through the handlers: those before the current one are served, the
\* current one has been tried as often as the loop counts, the others know nothing.
HeardOK(v, r, owes, ended, h) ==
  /\ owes => QoSOf[h] = 0
  /\ IF v.at = "done" \/ (v.at \in {"deliver", "pause"} /\ h < v.handler)
       THEN Served(v.async, r, owes, ended, h)
       ELSE /\ ~owes
            /\ r.calls = IF v.at \in {"deliver", "pause"} /\ h = v.handler
                           THEN v.tries + (IF v.at = "pause" THEN 1 ELSE 0) ELSE 0

\* The loop's own variables.
LoopOK(v) ==
  /\ v.at \in {"deliver", "pause"} => /\ v.handler \in Handlers /\ v.tries \in 0..MaxRetries
                                      /\ QoSOf[v.handler] = 0 => v.tries = 0
  /\ v.at = "pause" => v.tries < MaxRetries /\ QoSOf[v.handler] # 0
  /\ v.at \in {"new", "sending", "queued", "check"} => v.handler = 1 /\ v.tries = 0

HeardInv ==
  /\ heard \in [Happenings -> [Handlers -> HeardRecords]]
  /\ \A e \in Happenings : LoopOK(event[e])
  /\ \A e \in Happenings, h \in Handlers :
       HeardOK(event[e], heard[e][h], <<e, h>> \in spawned, qCtxDone, h)

LEMMA HandlersFacts ==
  /\ Len(QoSOf) \in Nat /\ Handlers = 1..Len(QoSOf)
  /\ \A h \in Handlers : h \in Nat /\ QoSOf[h] \in {0, 1}
  /\ MaxRetries \in Nat
  BY BusAssumption DEF Handlers

LEMMA HeardInitial == QosInit => HeardInv
<1> SUFFICES ASSUME QosInit PROVE HeardInv
  OBVIOUS
<1>1. heard \in [Happenings -> [Handlers -> HeardRecords]]
  BY DEF QosInit, HeardRecords
<1>2. \A e \in Happenings : event[e] = Fresh
  BY DEF QosInit
<1>3. \A e \in Happenings, h \in Handlers : heard[e][h].calls = 0 /\ <<e, h>> \notin spawned
  BY DEF QosInit
<1>4. \A e \in Happenings : LoopOK(event[e])
  BY <1>2 DEF Fresh, LoopOK
<1>5. \A e \in Happenings, h \in Handlers :
        HeardOK(event[e], heard[e][h], <<e, h>> \in spawned, qCtxDone, h)
  <2> SUFFICES ASSUME NEW e \in Happenings, NEW h \in Handlers
               PROVE  HeardOK(event[e], heard[e][h], <<e, h>> \in spawned, qCtxDone, h)
    OBVIOUS
  <2>1. event[e].at = "new"
    BY <1>2 DEF Fresh
  <2> QED BY <1>3, <2>1 DEF HeardOK
<1> QED BY <1>1, <1>4, <1>5 DEF HeardInv

LEMMA HeardImplied == HeardInv => DeliveredByQoS
<1> SUFFICES ASSUME HeardInv, NEW e \in Happenings, NEW h \in Handlers
             PROVE  LET calls == heard[e][h].calls
                        owed == IF <<e, h>> \in spawned THEN 1 ELSE 0
                    IN IF QoSOf[h] = 0
                         THEN calls + owed <= 1 /\ (event[e].at = "done" => calls + owed = 1)
                         ELSE event[e].at = "done" =>
                                /\ calls \in 1..(MaxRetries + 1)
                                /\ event[e].async =>
                                     heard[e][h].won \/ calls = MaxRetries + 1 \/ qCtxDone
  BY DEF DeliveredByQoS
<1>1. /\ LoopOK(event[e])
      /\ HeardOK(event[e], heard[e][h], <<e, h>> \in spawned, qCtxDone, h)
  BY DEF HeardInv
<1>2. CASE event[e].at = "done"
  BY <1>1, <1>2 DEF HeardOK, Served
<1>3. CASE event[e].at # "done" /\ QoSOf[h] = 0
  BY <1>1, <1>3 DEF HeardOK, Served, LoopOK
<1> QED BY <1>2, <1>3

\* Only event e moves, to record r.
Moves(e, r) == /\ event'[e] = r
               /\ \A x \in Happenings \ {e} : event'[x] = event[x]

\* What the step of an event must show: its loop, and what its handlers heard.
LEMMA EventStepKeeps ==
  ASSUME HeardInv, NEW e \in Happenings, NEW r, Moves(e, r), LoopOK(r),
         heard' \in [Happenings -> [Handlers -> HeardRecords]], UNCHANGED qCtxDone,
         \A x \in Happenings \ {e} : \A h \in Handlers :
           heard'[x][h] = heard[x][h] /\ (<<x, h>> \in spawned' <=> <<x, h>> \in spawned),
         \A h \in Handlers : HeardOK(r, heard'[e][h], <<e, h>> \in spawned', qCtxDone, h)
  PROVE  HeardInv'
<1>1. \A x \in Happenings : LoopOK(event'[x])
  BY DEF HeardInv, Moves
<1>2. ASSUME NEW x \in Happenings, NEW h \in Handlers
      PROVE  HeardOK(event'[x], heard'[x][h], <<x, h>> \in spawned', qCtxDone', h)
  <2>1. CASE x = e
    BY <2>1 DEF Moves
  <2>2. CASE x # e
    <3>1. /\ event'[x] = event[x] /\ heard'[x][h] = heard[x][h]
          /\ (<<x, h>> \in spawned') = (<<x, h>> \in spawned)
      BY <2>2 DEF Moves
    <3>2. HeardOK(event[x], heard[x][h], <<x, h>> \in spawned, qCtxDone, h)
      BY DEF HeardInv
    <3> QED BY <3>1, <3>2 DEF HeardOK, Served
  <2> QED BY <2>1, <2>2
<1> QED BY <1>1, <1>2 DEF HeardInv

\* Of events that no handler has been called for yet, none hears by their moving on.
LEMMA SilentStepKeeps ==
  ASSUME HeardInv, NEW e \in Happenings, NEW r \in EventRecords, Moves(e, r),
         UNCHANGED <<heard, spawned, qCtxDone>>,
         event[e].at \in {"new", "sending", "queued", "check"},
         \/ r.at \in {"sending", "queued", "check", "dropped", "canceled"}
         \/ r.at = "deliver" /\ Handlers # {}
         \/ r.at = "done" /\ Handlers = {},
         r.handler = event[e].handler, r.tries = event[e].tries
  PROVE  HeardInv'
<1>1. event[e].handler = 1 /\ event[e].tries = 0
  BY DEF HeardInv, LoopOK
<1>2. Handlers # {} => 1 \in Handlers
  BY HandlersFacts
<1>3. LoopOK(r)
  BY <1>1, <1>2, HandlersFacts DEF LoopOK
<1>4. ASSUME NEW h \in Handlers
      PROVE  HeardOK(r, heard'[e][h], <<e, h>> \in spawned', qCtxDone, h)
  <2>1. HeardOK(event[e], heard[e][h], <<e, h>> \in spawned, qCtxDone, h)
    BY DEF HeardInv
  <2>2. ~(h < 1) /\ <<e, h>> \notin spawned /\ heard[e][h].calls = 0
    BY <2>1, HandlersFacts DEF HeardOK
  <2> QED BY <1>1, <2>2 DEF HeardOK
<1>5. heard' \in [Happenings -> [Handlers -> HeardRecords]]
  BY DEF HeardInv
<1> QED BY <1>3, <1>4, <1>5, EventStepKeeps

\* The record of an event moved to another place.
LEMMA AtMoves ==
  ASSUME QosInv, NEW e \in Happenings, NEW place \in EventStates, At(e, place)
  PROVE  \E r \in EventRecords :
           /\ Moves(e, r) /\ r.at = place
           /\ r.handler = event[e].handler /\ r.tries = event[e].tries
           /\ r.async = event[e].async
<1> DEFINE r == [event[e] EXCEPT !.at = place]
<1>1. event[e] \in EventRecords
  BY DEF QosInv
<1>2. /\ r \in EventRecords /\ r.at = place /\ r.async = event[e].async
      /\ r.handler = event[e].handler /\ r.tries = event[e].tries
  BY <1>1 DEF EventRecords
<1>3. event' = [event EXCEPT ![e] = r]
  BY DEF At
<1> HIDE DEF r
<1>4. Moves(e, r)
  BY <1>3 DEF Moves, QosInv
<1> QED BY <1>2, <1>4

\* The record of an event whose loop goes to its next handler, or ends.
LEMMA NextMoves ==
  ASSUME QosInv, NEW e \in Happenings, NextHandler(e)
  PROVE  \E r \in EventRecords :
           /\ Moves(e, r) /\ r.async = event[e].async
           /\ \/ event[e].handler = Len(QoSOf) /\ r.at = "done"
              \/ /\ event[e].handler # Len(QoSOf) /\ r.at = "deliver"
                 /\ r.handler = event[e].handler + 1 /\ r.tries = 0
<1>1. CASE event[e].handler = Len(QoSOf) /\ At(e, "done")
  <2>1. "done" \in EventStates
    BY DEF EventStates
  <2> QED BY <1>1, <2>1, AtMoves
<1>2. CASE /\ event[e].handler # Len(QoSOf)
           /\ event' = [event EXCEPT ![e].at = "deliver", ![e].handler = @ + 1, ![e].tries = 0]
  <2> DEFINE r == [event[e] EXCEPT !.at = "deliver", !.handler = @ + 1, !.tries = 0]
  <2>1. event[e] \in EventRecords
    BY DEF QosInv
  <2>2. /\ r.at = "deliver" /\ r.async = event[e].async
        /\ r.handler = event[e].handler + 1 /\ r.tries = 0
    BY <2>1 DEF EventRecords
  <2>3. r \in EventRecords
    <3>1. event[e].handler + 1 \in Nat
      BY <2>1 DEF EventRecords
    <3>2. \A x \in EventRecords : \A n, m \in Nat :
            [x EXCEPT !.at = "deliver", !.handler = n, !.tries = m] \in EventRecords
      BY DEF EventRecords, EventStates
    <3> QED BY <2>1, <3>1, <3>2
  <2>4. event' = [event EXCEPT ![e] = r]
    BY <1>2 DEF QosInv
  <2> HIDE DEF r
  <2>5. Moves(e, r)
    BY <2>4 DEF Moves, QosInv
  <2> QED BY <1>2, <2>2, <2>3, <2>5
<1> QED BY <1>1, <1>2 DEF NextHandler

\* The loop leaves a handler that is served.
LEMMA HandlerLeft ==
  ASSUME QosInv, HeardInv, NEW e \in Happenings, NextHandler(e),
         event[e].at \in {"deliver", "pause"}, UNCHANGED qCtxDone,
         heard' \in [Happenings -> [Handlers -> HeardRecords]],
         \A x \in Happenings, h \in Handlers : <<x, h>> # <<e, event[e].handler>> =>
           heard'[x][h] = heard[x][h] /\ (<<x, h>> \in spawned' <=> <<x, h>> \in spawned),
         LET h == event[e].handler
         IN  /\ <<e, h>> \in spawned' => QoSOf[h] = 0
             /\ Served(event[e].async, heard'[e][h], <<e, h>> \in spawned', qCtxDone, h)
  PROVE  HeardInv'
<1>1. PICK r \in EventRecords :
        /\ Moves(e, r) /\ r.async = event[e].async
        /\ \/ event[e].handler = Len(QoSOf) /\ r.at = "done"
           \/ /\ event[e].handler # Len(QoSOf) /\ r.at = "deliver"
              /\ r.handler = event[e].handler + 1 /\ r.tries = 0
  BY NextMoves
<1> DEFINE c == event[e].handler
<1>2. c \in Handlers /\ c \in 1..Len(QoSOf)
  BY HandlersFacts DEF HeardInv, LoopOK
<1>3. LoopOK(r)
  BY <1>1, <1>2, HandlersFacts DEF LoopOK
<1>4. ASSUME NEW h \in Handlers
      PROVE  HeardOK(r, heard'[e][h], <<e, h>> \in spawned', qCtxDone, h)
  <2>0. HeardOK(event[e], heard[e][h], <<e, h>> \in spawned, qCtxDone, h)
    BY DEF HeardInv
  <2>1. CASE h = c
    <3>1. r.at = "done" \/ (r.at = "deliver" /\ h < r.handler)
      BY <1>1, <1>2, <2>1
    <3> QED BY <1>1, <2>1, <3>1 DEF HeardOK
  <2>2. CASE h # c
    <3>1. heard'[e][h] = heard[e][h] /\ (<<e, h>> \in spawned') = (<<e, h>> \in spawned)
      BY <2>2
    <3>2. CASE h < c
      <4>1. r.at = "done" \/ (r.at = "deliver" /\ h < r.handler)
        BY <1>1, <1>2, <3>2, HandlersFacts
      <4>2. Served(event[e].async, heard[e][h], <<e, h>> \in spawned, qCtxDone, h)
        BY <2>0, <3>2 DEF HeardOK
      <4> QED BY <1>1, <2>0, <3>1, <4>1, <4>2 DEF HeardOK
    <3>3. CASE h > c
      <4>1. c # Len(QoSOf) /\ ~(h < c)
        BY <1>2, <3>3, HandlersFacts
      <4>2. r.at = "deliver" /\ ~(h < r.handler) /\ r.tries = 0
        BY <1>1, <1>2, <3>3, <4>1, HandlersFacts
      <4>3. <<e, h>> \notin spawned /\ heard[e][h].calls = 0
        BY <2>0, <2>2, <4>1 DEF HeardOK
      <4> QED BY <3>1, <4>2, <4>3 DEF HeardOK
    <3> QED BY <1>2, <2>2, <3>2, <3>3, HandlersFacts
  <2> QED BY <2>1, <2>2
<1>5. \A x \in Happenings \ {e} : \A h \in Handlers :
        heard'[x][h] = heard[x][h] /\ (<<x, h>> \in spawned' <=> <<x, h>> \in spawned)
  OBVIOUS
<1> QED BY <1>1, <1>3, <1>4, <1>5, EventStepKeeps

\* A call of a handler is heard by that handler, for that event.
LEMMA CalledFacts ==
  ASSUME HeardInv, NEW e \in Happenings, NEW h \in Handlers, NEW success \in BOOLEAN,
         Called(e, h, success)
  PROVE  /\ heard' \in [Happenings -> [Handlers -> HeardRecords]]
         /\ heard'[e][h].calls = heard[e][h].calls + 1
         /\ heard'[e][h].won = (heard[e][h].won \/ success)
         /\ \A x \in Happenings, k \in Handlers :
              <<x, k>> # <<e, h>> => heard'[x][k] = heard[x][k]
<1> DEFINE n == heard[e][h].calls + 1
           b == heard[e][h].won \/ success
           r == [heard[e][h] EXCEPT !.calls = n, !.won = b]
<1>1. heard[e][h] \in HeardRecords /\ heard \in [Happenings -> [Handlers -> HeardRecords]]
  BY DEF HeardInv
<1>3. heard' = [heard EXCEPT ![e][h] = r]
  BY <1>1 DEF Called
<1>n. n \in Nat /\ b \in BOOLEAN
  BY <1>1 DEF HeardRecords
<1> HIDE DEF n, b
<1>2. r \in HeardRecords /\ r.calls = n /\ r.won = b
  BY <1>1, <1>n DEF HeardRecords
<1> HIDE DEF r
<1>4. heard' \in [Happenings -> [Handlers -> HeardRecords]] /\ heard'[e][h] = r
  BY <1>1, <1>2, <1>3
<1>5. ASSUME NEW x \in Happenings, NEW k \in Handlers, <<x, k>> # <<e, h>>
      PROVE  heard'[x][k] = heard[x][k]
  BY <1>1, <1>3, <1>5
<1> QED BY <1>2, <1>4, <1>5 DEF n, b

\* The loop starts a goroutine of a QoS0 handler.
LEMMA DeliverKeeps ==
  ASSUME QosInv, HeardInv, NEW e \in Happenings, DeliverQoS0(e)
  PROVE  HeardInv'
<1> DEFINE c == event[e].handler
<1>1. /\ event[e].at = "deliver" /\ QoSOf[c] = 0 /\ spawned' = spawned \cup {<<e, c>>}
      /\ NextHandler(e) /\ UNCHANGED <<qCtxDone, heard>>
  BY DEF DeliverQoS0
<1>2. c \in Handlers /\ event[e].tries = 0
  BY <1>1 DEF HeardInv, LoopOK
<1>3. HeardOK(event[e], heard[e][c], <<e, c>> \in spawned, qCtxDone, c)
  BY <1>2 DEF HeardInv
<1>4. heard[e][c].calls = 0
  BY <1>1, <1>2, <1>3, HandlersFacts DEF HeardOK
<1>5. Served(event[e].async, heard'[e][c], <<e, c>> \in spawned', qCtxDone, c)
  BY <1>1, <1>4 DEF Served
<1>6. heard' \in [Happenings -> [Handlers -> HeardRecords]]
  BY <1>1 DEF HeardInv
<1> QED BY <1>1, <1>5, <1>6, HandlerLeft

\* The goroutine of a QoS0 delivery runs: what was owed is heard.
LEMMA HandleKeeps ==
  ASSUME HeardInv, NEW e \in Happenings, NEW h \in Handlers, HandleQoS0(e, h)
  PROVE  HeardInv'
<1>1. PICK success \in BOOLEAN : Called(e, h, success)
  BY DEF HandleQoS0
<1>2. /\ <<e, h>> \in spawned /\ spawned' = spawned \ {<<e, h>>}
      /\ UNCHANGED <<event, qCtxDone>>
  BY DEF HandleQoS0
<1>3. /\ heard' \in [Happenings -> [Handlers -> HeardRecords]]
      /\ heard'[e][h].calls = heard[e][h].calls + 1
      /\ \A x \in Happenings, k \in Handlers :
           <<x, k>> # <<e, h>> => heard'[x][k] = heard[x][k]
  BY <1>1, CalledFacts
<1>4. ASSUME NEW x \in Happenings, NEW k \in Handlers
      PROVE  HeardOK(event[x], heard'[x][k], <<x, k>> \in spawned', qCtxDone, k)
  <2>1. HeardOK(event[x], heard[x][k], <<x, k>> \in spawned, qCtxDone, k)
    BY DEF HeardInv
  <2>2. CASE <<x, k>> # <<e, h>>
    <3>1. heard'[x][k] = heard[x][k] /\ (<<x, k>> \in spawned') = (<<x, k>> \in spawned)
      BY <1>2, <1>3, <2>2
    <3> QED BY <2>1, <3>1
  <2>3. CASE x = e /\ k = h
    <3>1. heard'[e][h].calls = 1 /\ QoSOf[h] = 0
      BY <1>2, <1>3, <2>1, <2>3 DEF HeardOK, Served
    <3> QED BY <1>2, <2>1, <2>3, <3>1 DEF HeardOK, Served
  <2> QED BY <2>2, <2>3
<1> QED BY <1>2, <1>3, <1>4 DEF HeardInv

\* One attempt at a QoS1 handler.
LEMMA AttemptKeeps ==
  ASSUME QosInv, HeardInv, NEW e \in Happenings, HandleQoS1(e)
  PROVE  HeardInv'
<1> DEFINE c == event[e].handler
<1>1. event[e].at = "deliver" /\ QoSOf[c] = 1 /\ UNCHANGED <<qCtxDone, spawned>>
  BY DEF HandleQoS1
<1>2. c \in Handlers /\ event[e].tries \in 0..MaxRetries
  BY <1>1 DEF HeardInv, LoopOK
<1>3. HeardOK(event[e], heard[e][c], <<e, c>> \in spawned, qCtxDone, c)
  BY <1>2 DEF HeardInv
<1>4. <<e, c>> \notin spawned /\ heard[e][c].calls = event[e].tries
  BY <1>1, <1>2, <1>3, HandlersFacts DEF HeardOK
<1> HIDE DEF c
<1>5. ASSUME NEW success \in BOOLEAN, Called(e, c, success), NextHandler(e),
             success \/ event[e].tries = MaxRetries
      PROVE  HeardInv'
  <2>1. /\ heard' \in [Happenings -> [Handlers -> HeardRecords]]
        /\ heard'[e][c].calls = heard[e][c].calls + 1
        /\ heard'[e][c].won = (heard[e][c].won \/ success)
        /\ \A x \in Happenings, k \in Handlers :
             <<x, k>> # <<e, c>> => heard'[x][k] = heard[x][k]
    BY <1>2, <1>5, CalledFacts
  <2>2. Served(event[e].async, heard'[e][c], <<e, c>> \in spawned', qCtxDone, c)
    BY <1>1, <1>2, <1>4, <1>5, <2>1, HandlersFacts DEF Served
  <2> QED BY <1>1, <1>4, <1>5, <2>1, <2>2, HandlerLeft DEF c
<1>6. CASE Called(e, c, FALSE) /\ event[e].tries < MaxRetries /\ At(e, "pause")
  <2>1. /\ heard' \in [Happenings -> [Handlers -> HeardRecords]]
        /\ heard'[e][c].calls = heard[e][c].calls + 1
        /\ \A x \in Happenings, k \in Handlers :
             <<x, k>> # <<e, c>> => heard'[x][k] = heard[x][k]
    BY <1>2, <1>6, CalledFacts
  <2>2. PICK r \in EventRecords :
          /\ Moves(e, r) /\ r.at = "pause"
          /\ r.handler = c /\ r.tries = event[e].tries /\ r.async = event[e].async
    <3>1. "pause" \in EventStates
      BY DEF EventStates
    <3> QED BY <1>6, <3>1, AtMoves DEF c
  <2>3. LoopOK(r)
    BY <1>1, <1>2, <1>6, <2>2 DEF LoopOK
  <2>4. ASSUME NEW h \in Handlers
        PROVE  HeardOK(r, heard'[e][h], <<e, h>> \in spawned', qCtxDone, h)
    <3>1. HeardOK(event[e], heard[e][h], <<e, h>> \in spawned, qCtxDone, h)
      BY DEF HeardInv
    <3>2. CASE h = c
      <4>1. ~(h < r.handler)
        BY <1>2, <2>2, <3>2, HandlersFacts
      <4> QED BY <1>1, <1>2, <1>4, <2>1, <2>2, <3>2, <4>1, HandlersFacts DEF HeardOK
    <3>3. CASE h # c
      <4>1. heard'[e][h] = heard[e][h]
        BY <2>1, <3>3
      <4>2. CASE h < c
        <5>1. Served(event[e].async, heard[e][h], <<e, h>> \in spawned, qCtxDone, h)
              /\ (<<e, h>> \in spawned => QoSOf[h] = 0)
          BY <1>1, <3>1, <4>2 DEF HeardOK, c
        <5>2. r.async = event[e].async
          BY <2>2
        <5> QED BY <1>1, <2>2, <4>1, <4>2, <5>1, <5>2 DEF HeardOK
      <4>3. CASE ~(h < c)
        BY <1>1, <2>2, <3>1, <3>3, <4>1, <4>3 DEF HeardOK, c
      <4> QED BY <4>2, <4>3
    <3> QED BY <3>2, <3>3
  <2>5. \A x \in Happenings \ {e} : \A h \in Handlers :
          heard'[x][h] = heard[x][h] /\ (<<x, h>> \in spawned' <=> <<x, h>> \in spawned)
    BY <1>1, <2>1
  <2> QED BY <1>1, <2>1, <2>2, <2>3, <2>4, <2>5, EventStepKeeps
<1>7. \/ Called(e, c, TRUE) /\ NextHandler(e)
      \/ Called(e, c, FALSE) /\ event[e].tries < MaxRetries /\ At(e, "pause")
      \/ Called(e, c, FALSE) /\ ~(event[e].tries < MaxRetries) /\ NextHandler(e)
  BY DEF HandleQoS1, c
<1>8. ~(event[e].tries < MaxRetries) => event[e].tries = MaxRetries
  BY <1>2, HandlersFacts
<1> QED BY <1>5, <1>6, <1>7, <1>8

\* The pause before a retry ends.
LEMMA RetryKeeps ==
  ASSUME QosInv, HeardInv, NEW e \in Happenings, Retry(e)
  PROVE  HeardInv'
<1> DEFINE r == [event[e] EXCEPT !.at = "deliver", !.tries = @ + 1]
<1>1. event[e].at = "pause" /\ UNCHANGED <<heard, spawned, qCtxDone>>
  BY DEF Retry
<1>2. event[e] \in EventRecords
  BY DEF QosInv
<1>3. /\ r.at = "deliver" /\ r.tries = event[e].tries + 1
      /\ r.handler = event[e].handler /\ r.async = event[e].async
  BY <1>2 DEF EventRecords
<1>4. event' = [event EXCEPT ![e] = r]
  BY DEF Retry, QosInv
<1> HIDE DEF r
<1>5. Moves(e, r)
  BY <1>4 DEF Moves, QosInv
<1>6. LoopOK(event[e])
  BY DEF HeardInv
<1>7. LoopOK(r)
  BY <1>1, <1>3, <1>6, HandlersFacts DEF LoopOK
<1>8. ASSUME NEW h \in Handlers
      PROVE  HeardOK(r, heard'[e][h], <<e, h>> \in spawned', qCtxDone, h)
  <2>1. HeardOK(event[e], heard[e][h], <<e, h>> \in spawned, qCtxDone, h)
    BY DEF HeardInv
  <2>2. event[e].handler \in Handlers /\ event[e].tries \in 0..MaxRetries
    BY <1>1, <1>6 DEF LoopOK
  <2> QED BY <1>1, <1>3, <2>1, <2>2, HandlersFacts DEF HeardOK
<1>9. heard' \in [Happenings -> [Handlers -> HeardRecords]]
  BY <1>1 DEF HeardInv
<1> QED BY <1>1, <1>5, <1>7, <1>8, <1>9, EventStepKeeps

\* The pause is broken off, because the bus is closed or its caller's context is done.
LEMMA GiveUpKeeps ==
  ASSUME QosInv, HeardInv, NEW e \in Happenings, GiveUpRetry(e)
  PROVE  HeardInv'
<1> DEFINE c == event[e].handler
<1>1. /\ event[e].at = "pause" /\ (qCtxDone \/ ~event[e].async) /\ NextHandler(e)
      /\ UNCHANGED <<heard, spawned, qCtxDone>>
  BY DEF GiveUpRetry
<1>2. LoopOK(event[e])
  BY DEF HeardInv
<1>3. c \in Handlers /\ event[e].tries \in 0..MaxRetries /\ event[e].tries < MaxRetries
      /\ QoSOf[c] # 0
  BY <1>1, <1>2 DEF LoopOK
<1>4. HeardOK(event[e], heard[e][c], <<e, c>> \in spawned, qCtxDone, c)
  BY <1>3 DEF HeardInv
<1>5. heard[e][c].calls = event[e].tries + 1 /\ <<e, c>> \notin spawned
  BY <1>1, <1>3, <1>4, HandlersFacts DEF HeardOK
<1>6. Served(event[e].async, heard'[e][c], <<e, c>> \in spawned', qCtxDone, c)
  BY <1>1, <1>3, <1>5, HandlersFacts DEF Served
<1>7. heard' \in [Happenings -> [Handlers -> HeardRecords]]
  BY <1>1 DEF HeardInv
<1> QED BY <1>1, <1>5, <1>6, <1>7, HandlerLeft

\* An event on its way to its publication, and the check that begins it.
LEMMA SilentKeeps ==
  ASSUME QosInv, HeardInv, NEW e \in Happenings,
         \/ CheckAsync(e) \/ SendAsync(e) \/ PublishSync(e) \/ StartPublish(e)
         \/ TakeAsync /\ e = Head(asyncCh)
  PROVE  HeardInv'
<1>a. UNCHANGED <<heard, spawned, qCtxDone>>
  BY DEF CheckAsync, SendAsync, PublishSync, StartPublish, TakeAsync
<1>1. CASE CheckAsync(e)
  <2>1. PICK place \in {"sending", "dropped"} :
          event' = [event EXCEPT ![e].at = place, ![e].async = TRUE]
    BY <1>1 DEF CheckAsync
  <2> DEFINE r == [event[e] EXCEPT !.at = place, !.async = TRUE]
  <2>2. event[e] \in EventRecords /\ event[e].at = "new"
    BY <1>1 DEF QosInv, CheckAsync
  <2>3. /\ r \in EventRecords /\ r.at = place
        /\ r.handler = event[e].handler /\ r.tries = event[e].tries
    <3>1. place \in EventStates
      BY DEF EventStates
    <3> QED BY <2>2, <3>1 DEF EventRecords
  <2>4. event' = [event EXCEPT ![e] = r]
    BY <2>1 DEF QosInv
  <2> HIDE DEF r
  <2>5. Moves(e, r)
    BY <2>4 DEF Moves, QosInv
  <2> QED BY <1>a, <2>2, <2>3, <2>5, SilentStepKeeps
<1>2. ASSUME NEW place \in {"queued", "check", "dropped", "canceled", "deliver", "done"},
             At(e, place), event[e].at \in {"new", "sending", "queued", "check"},
             place = "deliver" => Handlers # {}, place = "done" => Handlers = {}
      PROVE  HeardInv'
  <2>1. place \in EventStates
    BY DEF EventStates
  <2>2. PICK r \in EventRecords :
          /\ Moves(e, r) /\ r.at = place
          /\ r.handler = event[e].handler /\ r.tries = event[e].tries
    BY <1>2, <2>1, AtMoves
  <2> QED BY <1>a, <1>2, <2>2, SilentStepKeeps
<1>3. CASE SendAsync(e)
  BY <1>2, <1>3 DEF SendAsync
<1>4. CASE PublishSync(e)
  BY <1>2, <1>4 DEF PublishSync
<1>5. CASE StartPublish(e)
  BY <1>2, <1>5 DEF StartPublish
<1>6. CASE TakeAsync /\ e = Head(asyncCh)
  <2>1. event[e].at = "queued" /\ At(e, "check")
    BY <1>6, TailFacts DEF TakeAsync, QosInv
  <2> QED BY <1>2, <2>1
<1> QED BY <1>1, <1>3, <1>4, <1>5, <1>6

LEMMA HeardInductive == QosInv /\ HeardInv /\ [QosNext]_qosVars => HeardInv'
<1> SUFFICES ASSUME QosInv, HeardInv, [QosNext]_qosVars PROVE HeardInv'
  OBVIOUS
<1>1. ASSUME UNCHANGED <<event, heard, spawned>>, qCtxDone => qCtxDone' PROVE HeardInv'
  <2>1. ASSUME NEW e \in Happenings, NEW h \in Handlers
        PROVE  HeardOK(event[e], heard[e][h], <<e, h>> \in spawned, qCtxDone', h)
    <3>1. HeardOK(event[e], heard[e][h], <<e, h>> \in spawned, qCtxDone, h)
      BY DEF HeardInv
    <3> QED BY <1>1, <3>1 DEF HeardOK, Served
  <2> QED BY <1>1, <2>1 DEF HeardInv
<1>2. CASE AsyncStops \/ CloseQos \/ CloseStep \/ UNCHANGED qosVars
  BY <1>1, <1>2 DEF AsyncStops, CloseQos, CloseStep, CancelQos, StopQos, QosClosed, qosVars
<1>3. CASE TakeAsync
  <2>1. Head(asyncCh) \in Happenings
    BY <1>3, TailFacts DEF TakeAsync, QosInv
  <2> QED BY <1>3, <2>1, SilentKeeps
<1>4. ASSUME NEW e \in Happenings,
             CheckAsync(e) \/ SendAsync(e) \/ PublishSync(e) \/ PublishStep(e)
      PROVE  HeardInv'
  BY <1>4, SilentKeeps, DeliverKeeps, AttemptKeeps, RetryKeeps, GiveUpKeeps DEF PublishStep
<1> QED BY <1>2, <1>3, <1>4, HandleKeeps DEF QosNext

\* A handler hears of an event as often as its quality of service promises, whatever
\* the other handlers do, whoever publishes and wherever Close finds it
\* (qos/bus.go:96-256).
THEOREM DeliveryTheorem == QosSpec => []DeliveredByQoS
<1>1. QosInit => QosInv /\ HeardInv
  BY QosInitial, HeardInitial
<1>2. QosInv /\ HeardInv /\ [QosNext]_qosVars => QosInv' /\ HeardInv'
  BY QosInductive, HeardInductive
<1> QED BY <1>1, <1>2, HeardImplied, PTL DEF QosSpec

-----------------------------------------------------------------------------
(* A subscription *)

Wheres == {"new", "sent", "held", "passed", "read", "dropped"}

\* The updates in a channel are in the state that says so, and none is there twice.
HoldsOnce(ch, where) ==
  /\ ch \in Seq(Updates)
  /\ \A i \in 1..Len(ch) : update[ch[i]] = where
  /\ \A i, k \in 1..Len(ch) : ch[i] = ch[k] => i = k

StreamsInv ==
  /\ update \in [Updates -> Wheres]
  /\ subDone \in BOOLEAN
  /\ HoldsOnce(connCh, "sent")
  /\ HoldsOnce(relayCh, "passed")

\* An update that leaves a channel and changes its state leaves the channel sound.
LEMMA TakenOnce ==
  ASSUME StreamsInv, NEW ch, NEW where, HoldsOnce(ch, where), ch # <<>>,
         NEW to \in Wheres, update' = [update EXCEPT ![Head(ch)] = to]
  PROVE  /\ Tail(ch) \in Seq(Updates)
         /\ \A i \in 1..Len(Tail(ch)) : update'[Tail(ch)[i]] = where
         /\ \A i, k \in 1..Len(Tail(ch)) : Tail(ch)[i] = Tail(ch)[k] => i = k
<1>1. /\ Head(ch) \in Updates /\ Head(ch) = ch[1] /\ 1 \in 1..Len(ch)
      /\ Tail(ch) \in Seq(Updates) /\ Len(Tail(ch)) = Len(ch) - 1
      /\ \A i \in 1..Len(Tail(ch)) : Tail(ch)[i] = ch[i + 1] /\ i + 1 \in 1..Len(ch)
  BY TailFacts DEF HoldsOnce
<1>2. ASSUME NEW i \in 1..Len(Tail(ch)) PROVE update'[Tail(ch)[i]] = where
  <2>1. ch[i + 1] # ch[1] /\ ch[i + 1] \in Updates /\ i + 1 \in 1..Len(ch)
    BY <1>1, <1>2 DEF HoldsOnce
  <2>2. update'[ch[i + 1]] = update[ch[i + 1]]
    BY <1>1, <2>1 DEF StreamsInv
  <2> QED BY <1>1, <1>2, <2>1, <2>2 DEF HoldsOnce
<1>3. ASSUME NEW i \in 1..Len(Tail(ch)), NEW k \in 1..Len(Tail(ch)), Tail(ch)[i] = Tail(ch)[k]
      PROVE  i = k
  <2>1. i + 1 = k + 1
    BY <1>1, <1>3 DEF HoldsOnce
  <2> QED BY <1>3, <2>1
<1> QED BY <1>1, <1>2, <1>3

\* A channel stays sound when an update that is in another state changes its own.
LEMMA OthersKept ==
  ASSUME StreamsInv, NEW ch, NEW where, HoldsOnce(ch, where),
         NEW u \in Updates, update[u] # where,
         NEW to \in Wheres, update' = [update EXCEPT ![u] = to]
  PROVE  \A i \in 1..Len(ch) : update'[ch[i]] = where
<1>1. SUFFICES ASSUME NEW i \in 1..Len(ch) PROVE update'[ch[i]] = where
  OBVIOUS
<1>2. ch[i] \in Updates /\ update[ch[i]] = where /\ ch[i] # u
  BY DEF HoldsOnce
<1> QED BY <1>2 DEF StreamsInv

\* An update that enters a channel in the state the channel has.
LEMMA SentOnce ==
  ASSUME StreamsInv, NEW ch, NEW where \in Wheres, HoldsOnce(ch, where),
         NEW u \in Updates, update[u] # where, update' = [update EXCEPT ![u] = where]
  PROVE  /\ Append(ch, u) \in Seq(Updates)
         /\ \A i \in 1..Len(Append(ch, u)) : update'[Append(ch, u)[i]] = where
         /\ \A i, k \in 1..Len(Append(ch, u)) : Append(ch, u)[i] = Append(ch, u)[k] => i = k
<1> DEFINE new == Append(ch, u)
<1>1. /\ new \in Seq(Updates) /\ Len(new) = Len(ch) + 1 /\ new[Len(ch) + 1] = u
      /\ \A i \in 1..Len(ch) : new[i] = ch[i]
      /\ Len(ch) \in Nat
  BY AppendFacts DEF HoldsOnce
<1>2. \A i \in 1..Len(ch) : update'[ch[i]] = where /\ ch[i] # u
  BY OthersKept DEF HoldsOnce
<1>3. update'[u] = where
  BY DEF StreamsInv
<1>4. \A i \in 1..Len(new) : i \in 1..Len(ch) \/ i = Len(ch) + 1
  BY <1>1
<1>5. \A i \in 1..Len(new) : update'[new[i]] = where
  BY <1>1, <1>2, <1>3, <1>4
<1>6. \A i, k \in 1..Len(new) : new[i] = new[k] => i = k
  BY <1>1, <1>2, <1>4 DEF HoldsOnce
<1> QED BY <1>1, <1>5, <1>6

\* Every step keeps the channels sound.
LEMMA StreamsInductive == StreamsInv /\ [StreamsNext]_streamsVars => StreamsInv'
<1> SUFFICES ASSUME StreamsInv, [StreamsNext]_streamsVars PROVE StreamsInv'
  OBVIOUS
<1>1. CASE SubscribeStream \/ CloseConnector \/ RelayExits \/ Leave \/ UNCHANGED streamsVars
  BY <1>1 DEF SubscribeStream, CloseConnector, RelayExits, Leave, streamsVars, StreamsInv, HoldsOnce
<1>2. ASSUME NEW u \in Updates, Emit(u) PROVE StreamsInv'
  <2>1. /\ update[u] = "new" /\ update' = [update EXCEPT ![u] = "sent"]
        /\ connCh' = Append(connCh, u) /\ UNCHANGED <<relayCh, subDone>>
    BY <1>2 DEF Emit, Becomes
  <2>2. HoldsOnce(connCh, "sent")'
    BY <2>1, SentOnce DEF StreamsInv, HoldsOnce, Wheres
  <2>3. HoldsOnce(relayCh, "passed")'
    BY <2>1, OthersKept DEF StreamsInv, HoldsOnce, Wheres
  <2> QED BY <2>1, <2>2, <2>3 DEF StreamsInv, Wheres
<1>3. CASE TakeUpdate
  <2>1. /\ connCh # <<>> /\ update' = [update EXCEPT ![Head(connCh)] = "held"]
        /\ connCh' = Tail(connCh) /\ UNCHANGED <<relayCh, subDone>>
    BY <1>3 DEF TakeUpdate, Becomes
  <2>2. Head(connCh) \in Updates /\ update[Head(connCh)] = "sent"
    BY <2>1, TailFacts DEF StreamsInv, HoldsOnce
  <2>3. HoldsOnce(connCh, "sent")'
    BY <2>1, TakenOnce DEF StreamsInv, HoldsOnce, Wheres
  <2>4. HoldsOnce(relayCh, "passed")'
    BY <2>1, <2>2, OthersKept DEF StreamsInv, HoldsOnce, Wheres
  <2> QED BY <2>1, <2>3, <2>4 DEF StreamsInv, Wheres
<1>4. ASSUME NEW u \in Updates, Forward(u) PROVE StreamsInv'
  <2>1. /\ update[u] = "held" /\ update' = [update EXCEPT ![u] = "passed"]
        /\ relayCh' = Append(relayCh, u) /\ UNCHANGED <<connCh, subDone>>
    BY <1>4 DEF Forward, Becomes
  <2>2. HoldsOnce(relayCh, "passed")'
    BY <2>1, SentOnce DEF StreamsInv, HoldsOnce, Wheres
  <2>3. HoldsOnce(connCh, "sent")'
    BY <2>1, OthersKept DEF StreamsInv, HoldsOnce, Wheres
  <2> QED BY <2>1, <2>2, <2>3 DEF StreamsInv, Wheres
<1>5. ASSUME NEW u \in Updates, GiveUp(u) PROVE StreamsInv'
  <2>1. /\ update[u] = "held" /\ update' = [update EXCEPT ![u] = "dropped"]
        /\ UNCHANGED <<connCh, relayCh, subDone>>
    BY <1>5 DEF GiveUp, Becomes
  <2>2. HoldsOnce(connCh, "sent")' /\ HoldsOnce(relayCh, "passed")'
    BY <2>1, OthersKept DEF StreamsInv, HoldsOnce, Wheres
  <2> QED BY <2>1, <2>2 DEF StreamsInv, Wheres
<1>6. CASE Read
  <2>1. /\ relayCh # <<>> /\ update' = [update EXCEPT ![Head(relayCh)] = "read"]
        /\ relayCh' = Tail(relayCh) /\ UNCHANGED <<connCh, subDone>>
    BY <1>6 DEF Read, Becomes
  <2>2. Head(relayCh) \in Updates /\ update[Head(relayCh)] = "passed"
    BY <2>1, TailFacts DEF StreamsInv, HoldsOnce
  <2>3. HoldsOnce(relayCh, "passed")'
    BY <2>1, TakenOnce DEF StreamsInv, HoldsOnce, Wheres
  <2>4. HoldsOnce(connCh, "sent")'
    BY <2>1, <2>2, OthersKept DEF StreamsInv, HoldsOnce, Wheres
  <2> QED BY <2>1, <2>3, <2>4 DEF StreamsInv, Wheres
<1> QED BY <1>1, <1>2, <1>3, <1>4, <1>5, <1>6 DEF StreamsNext, RelayStep

LEMMA StreamsInitial == StreamsInit => StreamsInv
<1> SUFFICES ASSUME StreamsInit PROVE StreamsInv
  OBVIOUS
<1>1. update \in [Updates -> Wheres] /\ subDone \in BOOLEAN
  BY DEF StreamsInit, Wheres
<1>2. connCh = <<>> /\ relayCh = <<>>
  BY DEF StreamsInit
<1>3. <<>> \in Seq(Updates) /\ Len(<<>>) = 0
  OBVIOUS
<1>4. ~ \E i \in 1..0 : TRUE
  OBVIOUS
<1>5. HoldsOnce(connCh, "sent") /\ HoldsOnce(relayCh, "passed")
  BY <1>2, <1>3, <1>4 DEF HoldsOnce
<1> QED BY <1>1, <1>5 DEF StreamsInv

-----------------------------------------------------------------------------
\* The abstract item an update is.
AbstractItem(where) ==
  CASE where \in {"new", "sent"} -> "new"
    [] where \in {"held", "passed"} -> "accepted"
    [] where = "read" -> "handled"
    [] OTHER -> "discarded"

LEMMA AbstractValues ==
  /\ AbstractItem("new") = "new" /\ AbstractItem("sent") = "new"
  /\ AbstractItem("held") = "accepted" /\ AbstractItem("passed") = "accepted"
  /\ AbstractItem("read") = "handled" /\ AbstractItem("dropped") = "discarded"
  BY DEF AbstractItem

Mapped == [u \in Updates |-> AbstractItem(update[u])]

\* An update that changes state changes the abstract item it is, and no other.
LEMMA MappedChanges ==
  ASSUME StreamsInv, NEW u \in Updates, NEW to \in Wheres,
         update' = [update EXCEPT ![u] = to]
  PROVE  Mapped' = [Mapped EXCEPT ![u] = AbstractItem(to)]
<1>1. \A x \in Updates : update'[x] = IF x = u THEN to ELSE update[x]
  BY DEF StreamsInv
<1>2. Mapped' = [x \in Updates |-> AbstractItem(update'[x])]
  BY DEF Mapped, AbstractItem
<1>3. \A x \in Updates : AbstractItem(update'[x]) = IF x = u THEN AbstractItem(to) ELSE AbstractItem(update[x])
  BY <1>1
<1>4. [Mapped EXCEPT ![u] = AbstractItem(to)]
        = [x \in Updates |-> IF x = u THEN AbstractItem(to) ELSE AbstractItem(update[x])]
  BY DEF Mapped
<1> QED BY <1>2, <1>3, <1>4

\* A change that the abstract queue does not see.
LEMMA MappedKept ==
  ASSUME StreamsInv, NEW u \in Updates, NEW to \in Wheres, update' = [update EXCEPT ![u] = to],
         AbstractItem(to) = AbstractItem(update[u])
  PROVE  Mapped' = Mapped
<1>1. \A x \in Updates : update'[x] = IF x = u THEN to ELSE update[x]
  BY DEF StreamsInv
<1>2. Mapped' = [x \in Updates |-> AbstractItem(update'[x])]
  BY DEF Mapped, AbstractItem
<1>3. \A x \in Updates : AbstractItem(update'[x]) = AbstractItem(update[x])
  BY <1>1
<1> QED BY <1>2, <1>3 DEF Mapped

LEMMA MappedAt == ASSUME NEW u \in Updates PROVE Mapped[u] = AbstractItem(update[u])
  BY DEF Mapped

LEMMA StreamsStart == StreamsInit => StreamsQueue!Init
  BY AbstractValues DEF StreamsInit, StreamsQueue!Init, Mapped, AbstractItem

\* Every step of a subscription is a step of the abstract queue, or none of it.
LEMMA StreamsStepsMap ==
  StreamsInv /\ [StreamsNext]_streamsVars => [StreamsQueue!Next]_(StreamsQueue!vars)
<1> SUFFICES ASSUME StreamsInv, [StreamsNext]_streamsVars
             PROVE  [StreamsQueue!Next]_(StreamsQueue!vars)
  OBVIOUS
<1> USE DEF StreamsQueue!vars
<1> DEFINE still == Mapped' = Mapped /\ subDone' = subDone
<1>0. still => UNCHANGED StreamsQueue!vars
  BY DEF Mapped, AbstractItem
<1>1. CASE SubscribeStream \/ CloseConnector \/ RelayExits \/ UNCHANGED streamsVars
  BY <1>1 DEF SubscribeStream, CloseConnector, RelayExits, streamsVars
<1>2. ASSUME NEW u \in Updates, Emit(u) PROVE still
  <2>1. update[u] = "new" /\ update' = [update EXCEPT ![u] = "sent"] /\ subDone' = subDone
    BY <1>2 DEF Emit, Becomes
  <2> QED BY <2>1, MappedKept, AbstractValues DEF Wheres
<1>3. ASSUME NEW u \in Updates, Forward(u) PROVE still
  <2>1. update[u] = "held" /\ update' = [update EXCEPT ![u] = "passed"] /\ subDone' = subDone
    BY <1>3 DEF Forward, Becomes
  <2> QED BY <2>1, MappedKept, AbstractValues DEF Wheres
<1>4. CASE TakeUpdate
  <2>1. PICK u \in Updates : u = Head(connCh) /\ update[u] = "sent"
    BY <1>4, TailFacts DEF TakeUpdate, StreamsInv, HoldsOnce
  <2>2. update' = [update EXCEPT ![u] = "held"] /\ subDone' = subDone
    BY <1>4, <2>1 DEF TakeUpdate, Becomes
  <2>3. Mapped[u] = "new" /\ Mapped' = [Mapped EXCEPT ![u] = "accepted"]
    BY <2>1, <2>2, MappedAt, MappedChanges, AbstractValues DEF Wheres
  <2>4. StreamsQueue!Accept(u)
    BY <2>2, <2>3 DEF StreamsQueue!Accept, Mapped, AbstractItem
  <2> QED BY <2>4 DEF StreamsQueue!Next
<1>5. CASE Read
  <2>1. PICK u \in Updates : u = Head(relayCh) /\ update[u] = "passed"
    BY <1>5, TailFacts DEF Read, StreamsInv, HoldsOnce
  <2>2. update' = [update EXCEPT ![u] = "read"] /\ subDone' = subDone
    BY <1>5, <2>1 DEF Read, Becomes
  <2>3. Mapped[u] = "accepted" /\ Mapped' = [Mapped EXCEPT ![u] = "handled"]
    BY <2>1, <2>2, MappedAt, MappedChanges, AbstractValues DEF Wheres
  <2>4. StreamsQueue!Handle(u)
    BY <2>2, <2>3 DEF StreamsQueue!Handle, Mapped, AbstractItem
  <2> QED BY <2>4 DEF StreamsQueue!Next
<1>6. ASSUME NEW u \in Updates, GiveUp(u) PROVE StreamsQueue!Next
  <2>1. /\ update[u] = "held" /\ update' = [update EXCEPT ![u] = "dropped"]
        /\ subDone /\ subDone' = subDone
    BY <1>6 DEF GiveUp, Becomes
  <2>2. Mapped[u] = "accepted" /\ Mapped' = [Mapped EXCEPT ![u] = "discarded"]
    BY <2>1, MappedAt, MappedChanges, AbstractValues DEF Wheres
  <2>3. Mapped' = [x \in Updates |-> IF x \in {u} THEN "discarded" ELSE Mapped[x]]
    BY <2>2 DEF Mapped
  <2>4. StreamsQueue!Discard({u})
    BY <2>1, <2>2, <2>3 DEF StreamsQueue!Discard, Mapped, AbstractItem
  <2> QED BY <2>4 DEF StreamsQueue!Next
<1>7. CASE Leave
  <2>1. UNCHANGED update /\ ~subDone /\ subDone'
    BY <1>7 DEF Leave
  <2>2. StreamsQueue!Close
    BY <2>1 DEF StreamsQueue!Close
  <2> QED BY <2>2 DEF StreamsQueue!Next
<1> QED BY <1>0, <1>1, <1>2, <1>3, <1>4, <1>5, <1>6, <1>7 DEF StreamsNext, RelayStep

\* The goroutine of a subscription loses no update it has taken while its consumer
\* stays, and hands none over twice: it implements the work queue (adapter.go:202-397).
THEOREM StreamsRefinement == StreamsSpec => StreamsImplementQueue
<1>1. StreamsInit => StreamsInv
  BY StreamsInitial
<1>2. StreamsInv /\ [StreamsNext]_streamsVars => StreamsInv'
  BY StreamsInductive
<1>3. StreamsInv /\ [StreamsNext]_streamsVars => [StreamsQueue!Next]_(StreamsQueue!vars)
  BY StreamsStepsMap
<1>4. StreamsInit => StreamsQueue!Init
  BY StreamsStart
<1> QED BY <1>1, <1>2, <1>3, <1>4, PTL DEF StreamsSpec, StreamsImplementQueue, StreamsQueue!Spec

-----------------------------------------------------------------------------
\* The background services side by side implement the work queue, each its own: no
\* interleaving of submitters, workers, handlers and closers loses an item before the
\* close, or has it handled twice.
THEOREM QueuesTheorem == BackgroundSpec => QueuesImplementWorkQueue
  BY JobsRefinement, WriterRefinement, BusRefinement, StreamsRefinement
     DEF BackgroundSpec, QueuesImplementWorkQueue
-----------------------------------------------------------------------------
(* Types *)

\* No pool has more jobs than its channel holds, and an id is listed with a job of it.
JobsBounds ==
  /\ queue \in [Classes -> Seq(Jobs)]
  /\ \A c \in Classes : Len(queue[c]) <= QueueSize
  /\ stopCall \in [Stoppers -> {"idle", "waiting", "returned", "late"}]
  /\ DOMAIN listed \subseteq {IdOf[j] : j \in Jobs}

LEMMA JobsTyped == JobsSpec => []JobsTypeOK
<1>1. JobsInit => JobsInv /\ ListedInv /\ JobsBounds
  <2> SUFFICES ASSUME JobsInit PROVE ListedInv /\ JobsBounds
    BY JobsInitial
  <2>1. DOMAIN listed = {} /\ \A c \in Classes : Len(queue[c]) = 0
    BY DEF JobsInit
  <2>2. queue \in [Classes -> Seq(Jobs)]
    BY DEF JobsInit
  <2> QED BY <2>1, <2>2, JobsAssumption DEF JobsInit, ListedInv, ActiveJobsAreActive, JobsBounds
<1>2. JobsInv /\ JobsBounds /\ [JobsNext]_jobsVars => JobsBounds'
  <2> SUFFICES ASSUME JobsInv, JobsBounds, [JobsNext]_jobsVars PROVE JobsBounds'
    OBVIOUS
  <2>1. queue' \in [Classes -> Seq(Jobs)] /\ \A c \in Classes : Len(queue'[c]) <= QueueSize
    <3> DEFINE Bounded == queue' \in [Classes -> Seq(Jobs)]
                            /\ \A c \in Classes : Len(queue'[c]) <= QueueSize
    <3>1. ASSUME NEW c \in Classes, NEW j \in Jobs, Len(queue[c]) < QueueSize,
                 queue' = [queue EXCEPT ![c] = Append(@, j)]
          PROVE  Bounded
      <4>1. queue[c] \in Seq(Jobs) /\ QueueSize \in Nat
        BY JobsAssumption DEF JobsInv, QueueSound
      <4>2. Append(queue[c], j) \in Seq(Jobs) /\ Len(Append(queue[c], j)) <= QueueSize
        BY <3>1, <4>1
      <4> QED BY <3>1, <4>2 DEF JobsBounds
    <3>2. ASSUME NEW c \in Classes, queue[c] # <<>>, queue' = [queue EXCEPT ![c] = Tail(@)]
          PROVE  Bounded
      <4>1. queue[c] \in Seq(Jobs) /\ QueueSize \in Nat /\ Len(queue[c]) <= QueueSize
        BY JobsAssumption DEF JobsInv, QueueSound, JobsBounds
      <4>2. Tail(queue[c]) \in Seq(Jobs) /\ Len(Tail(queue[c])) <= QueueSize
        BY <3>2, <4>1
      <4> QED BY <3>2, <4>2 DEF JobsBounds
    <3>3. \/ UNCHANGED queue
          \/ \E c \in Classes, j \in Jobs : /\ Len(queue[c]) < QueueSize
                                            /\ queue' = [queue EXCEPT ![c] = Append(@, j)]
          \/ \E c \in Classes : queue[c] # <<>> /\ queue' = [queue EXCEPT ![c] = Tail(@)]
      BY JobsAssumption
         DEF JobsNext, Start, Submit, JobWorkerStep, TakeJob, FinishJob, WorkerLeaves, Stop,
             StopReturns, CancelJobsParent, jobsVars
    <3> QED BY <3>1, <3>2, <3>3 DEF JobsBounds
  <2>2. stopCall' \in [Stoppers -> {"idle", "waiting", "returned", "late"}]
    <3>1. UNCHANGED stopCall
             \/ \E s \in Stoppers, to \in {"waiting", "returned", "late"} :
                   stopCall' = [stopCall EXCEPT ![s] = to]
      BY DEF JobsNext, Start, Submit, JobWorkerStep, TakeJob, FinishJob, WorkerLeaves, Stop,
             StopReturns, CancelJobsParent, jobsVars
    <3> QED BY <3>1 DEF JobsBounds
  <2>3. DOMAIN listed' \subseteq {IdOf[j] : j \in Jobs}
    <3>1. DOMAIN listed' \subseteq DOMAIN listed
             \/ \E j \in Jobs : DOMAIN listed' = DOMAIN listed \cup {IdOf[j]}
      BY DEF JobsNext, Start, Submit, Listing, JobWorkerStep, TakeJob, FinishJob, WorkerLeaves,
             Stop, StopReturns, CancelJobsParent, jobsVars
    <3> QED BY <3>1 DEF JobsBounds
  <2> QED BY <2>1, <2>2, <2>3 DEF JobsBounds
<1>3. JobsInv /\ ListedInv /\ [JobsNext]_jobsVars => JobsInv' /\ ListedInv'
  BY JobsInductive, ListInductive
<1>4. JobsInv /\ ListedInv /\ JobsBounds => JobsTypeOK
  <2> SUFFICES ASSUME JobsInv, ListedInv, JobsBounds PROVE JobsTypeOK
    OBVIOUS
  <2> QED BY DEF JobsInv, JobStates, WorkersSound, ListedInv, JobsBounds, JobsTypeOK
<1> QED BY <1>1, <1>2, <1>3, <1>4, PTL DEF JobsSpec

\* The channel of a writer holds no more than it can, and only what was sent is counted.
WriterBounds ==
  /\ Len(channel) <= BufferSize
  /\ critical \in 0..MaxCritical /\ counted \in Nat
  /\ uncounted \subseteq Records

LEMMA WriterTyped == WriterSpec => []WriterTypeOK
<1>1. WriterInit => WriterBounds
  BY WriterAssumption DEF WriterInit, WriterBounds
<1>2. WriterInv /\ WriterBounds /\ [WriterNext]_writerVars => WriterBounds'
  <2> SUFFICES ASSUME WriterInv, WriterBounds, [WriterNext]_writerVars PROVE WriterBounds'
    OBVIOUS
  <2>t. channel \in Seq(Records) /\ Len(channel) \in Nat /\ BufferSize \in Nat /\ MaxCritical \in Nat
    BY WriterAssumption DEF WriterInv
  <2>1. \/ UNCHANGED channel
        \/ \E e \in Records : channel' = Append(channel, e) /\ ~(Len(channel) >= BufferSize)
        \/ channel # <<>> /\ channel' = Tail(channel)
    BY DEF WriterNext, WriteAnalytics, CountSent, InserterStep, InserterWrites, InsertHead,
           InserterStops, InserterDrained, WriteCritical, CloseWriter, CloserStep, SignalStop,
           WaitForInserter, CloserDrains, CloseDatabase, writerVars
  <2>2. Len(channel') <= BufferSize
    BY <2>t, <2>1 DEF WriterBounds
  <2>3. /\ UNCHANGED critical \/ (critical < MaxCritical /\ critical' = critical + 1)
        /\ UNCHANGED counted \/ counted' = counted + 1
        /\ uncounted' \subseteq uncounted \/ \E e \in Records : uncounted' = uncounted \cup {e}
    BY DEF WriterNext, WriteAnalytics, CountSent, InserterStep, InserterWrites, InsertHead,
           InserterStops, InserterDrained, WriteCritical, CloseWriter, CloserStep, SignalStop,
           WaitForInserter, CloserDrains, CloseDatabase, writerVars
  <2> QED BY <2>t, <2>2, <2>3 DEF WriterBounds
<1>3. WriterInv /\ CloseInv /\ WriterBounds => WriterTypeOK
  BY DEF WriterInv, RecordStates, CloseInv, CallStates, WriterBounds, WriterTypeOK
<1> QED BY <1>1, <1>2, <1>3, WriterInitial, CloseInitial, WriterInductive, CloseInductive, PTL
        DEF WriterSpec

\* The bus' goroutine holds an event or none, and a loop ends with the last handler.
LoopBounds(v) == v.handler \in 1..(Len(QoSOf) + 1) /\ v.tries \in 0..MaxRetries
QosBounds ==
  /\ \A e \in Happenings : LoopBounds(event[e])
  /\ Len(asyncCh) <= AsyncBuffer
  /\ asyncAt \in Happenings \cup {"select", "exited"}
  /\ qCtxDone \in BOOLEAN /\ qStopped \in BOOLEAN
  /\ qClose \in {"idle", "cancel", "stop", "wait", "returned"}
  /\ spawned \subseteq Happenings \X Handlers

\* A loop that is left stands at its handler still.
LEMMA LoopMoves ==
  ASSUME QosInv, HeardInv, QosBounds, NEW e \in Happenings, NEW r, LoopBounds(r),
         event' = [event EXCEPT ![e] = r]
  PROVE  \A f \in Happenings : LoopBounds(event'[f])
<1>1. \A f \in Happenings : event'[f] = IF f = e THEN r ELSE event[f]
  BY DEF QosInv
<1> QED BY <1>1 DEF QosBounds

LEMMA AtBounded ==
  ASSUME QosInv, HeardInv, QosBounds, NEW e \in Happenings, NEW place, At(e, place)
  PROVE  \A f \in Happenings : LoopBounds(event'[f])
<1> DEFINE r == [event[e] EXCEPT !.at = place]
<1>1. event' = [event EXCEPT ![e] = r]
  BY DEF At
<1>2. r.handler = event[e].handler /\ r.tries = event[e].tries
  BY DEF QosInv, EventRecords
<1>3. LoopBounds(r)
  BY <1>2 DEF QosBounds, LoopBounds
<1> HIDE DEF r
<1> QED BY <1>1, <1>3, LoopMoves

LEMMA NextBounded ==
  ASSUME QosInv, HeardInv, QosBounds, NEW e \in Happenings, event[e].at \in {"deliver", "pause"},
         NextHandler(e)
  PROVE  \A f \in Happenings : LoopBounds(event'[f])
<1>1. CASE event[e].handler = Len(QoSOf)
  BY <1>1, AtBounded DEF NextHandler
<1>2. CASE event[e].handler # Len(QoSOf)
  <2> DEFINE r == [event[e] EXCEPT !.at = "deliver", !.handler = @ + 1, !.tries = 0]
  <2>1. event' = [event EXCEPT ![e] = r]
    BY <1>2 DEF NextHandler
  <2>2. r.handler = event[e].handler + 1 /\ r.tries = 0
    BY DEF QosInv, EventRecords
  <2>3. event[e].handler \in Handlers
    BY DEF HeardInv, LoopOK
  <2>4. LoopBounds(r)
    BY <2>2, <2>3, HandlersFacts DEF LoopBounds
  <2> HIDE DEF r
  <2> QED BY <2>1, <2>4, LoopMoves
<1> QED BY <1>1, <1>2

LEMMA LoopsBounded ==
  ASSUME QosInv, HeardInv, QosBounds, [QosNext]_qosVars
  PROVE  \A f \in Happenings : LoopBounds(event'[f])
<1>1. ASSUME NEW e \in Happenings, CheckAsync(e) PROVE \A f \in Happenings : LoopBounds(event'[f])
  <2>1. PICK place : event' = [event EXCEPT ![e] = [event[e] EXCEPT !.at = place, !.async = TRUE]]
    BY <1>1 DEF CheckAsync
  <2> DEFINE r == [event[e] EXCEPT !.at = place, !.async = TRUE]
  <2>2. r.handler = event[e].handler /\ r.tries = event[e].tries
    BY DEF QosInv, EventRecords
  <2>3. LoopBounds(r)
    BY <2>2 DEF QosBounds, LoopBounds
  <2> QED BY <2>1, <2>3, LoopMoves
<1>2. ASSUME NEW e \in Happenings, SendAsync(e) \/ PublishSync(e) \/ StartPublish(e)
      PROVE  \A f \in Happenings : LoopBounds(event'[f])
  BY <1>2, AtBounded DEF SendAsync, PublishSync, StartPublish
<1>3. ASSUME NEW e \in Happenings, DeliverQoS0(e) \/ HandleQoS1(e) \/ GiveUpRetry(e)
      PROVE  \A f \in Happenings : LoopBounds(event'[f])
  BY <1>3, AtBounded, NextBounded DEF DeliverQoS0, HandleQoS1, GiveUpRetry
<1>4. ASSUME NEW e \in Happenings, Retry(e) PROVE \A f \in Happenings : LoopBounds(event'[f])
  <2> DEFINE r == [event[e] EXCEPT !.at = "deliver", !.tries = @ + 1]
  <2>1. event' = [event EXCEPT ![e] = r] /\ event[e].at = "pause"
    BY <1>4 DEF Retry
  <2>2. r.handler = event[e].handler /\ r.tries = event[e].tries + 1
    BY DEF QosInv, EventRecords
  <2>3. event[e].tries < MaxRetries /\ event[e].tries \in Nat
    BY <2>1 DEF HeardInv, LoopOK, QosInv, EventRecords
  <2>4. LoopBounds(r)
    BY <2>2, <2>3, HandlersFacts DEF QosBounds, LoopBounds
  <2> HIDE DEF r
  <2> QED BY <2>1, <2>4, LoopMoves
<1>5. CASE TakeAsync
  <2>1. Head(asyncCh) \in Happenings /\ At(Head(asyncCh), "check")
    BY <1>5, TailFacts DEF TakeAsync, QosInv
  <2> QED BY <2>1, AtBounded
<1>6. CASE UNCHANGED event
  BY <1>6 DEF QosBounds
<1> QED BY <1>1, <1>2, <1>3, <1>4, <1>5, <1>6
        DEF QosNext, PublishStep, HandleQoS0, AsyncStops, CloseQos, CloseStep, CancelQos, StopQos,
            QosClosed, qosVars

LEMMA QosBoundsKept ==
  ASSUME QosInv, HeardInv, QosBounds, [QosNext]_qosVars
  PROVE  QosBounds'
<1>t. asyncCh \in Seq(Happenings) /\ Len(asyncCh) \in Nat /\ AsyncBuffer \in Nat
  BY BusAssumption DEF QosInv
<1>1. \/ UNCHANGED asyncCh
      \/ \E e \in Happenings : Len(asyncCh) < AsyncBuffer /\ asyncCh' = Append(asyncCh, e)
      \/ asyncCh # <<>> /\ asyncCh' = Tail(asyncCh) /\ asyncAt' = Head(asyncCh)
  BY DEF QosNext, CheckAsync, SendAsync, PublishSync, PublishStep, StartPublish, DeliverQoS0,
         HandleQoS1, Retry, GiveUpRetry, HandleQoS0, TakeAsync, AsyncStops, CloseQos, CloseStep,
         CancelQos, StopQos, QosClosed, qosVars
<1>2. Len(asyncCh') <= AsyncBuffer
  BY <1>t, <1>1 DEF QosBounds
<1>3. asyncAt' \in Happenings \cup {"select", "exited"}
  <2>1. \/ UNCHANGED asyncAt
        \/ asyncAt' \in {"select", "exited"}
        \/ asyncCh # <<>> /\ asyncAt' = Head(asyncCh)
    BY DEF QosNext, CheckAsync, SendAsync, PublishSync, PublishStep, StartPublish, DeliverQoS0,
           HandleQoS1, Retry, GiveUpRetry, NextHandler, PublishEnds, HandleQoS0, TakeAsync,
           AsyncStops, CloseQos, CloseStep, CancelQos, StopQos, QosClosed, qosVars
  <2>2. asyncCh # <<>> => Head(asyncCh) \in Happenings
    BY <1>t, TailFacts
  <2>3. asyncAt \in Happenings \cup {"select", "exited"}
    BY DEF QosBounds
  <2> QED BY <2>1, <2>2, <2>3
<1>4. /\ qCtxDone' \in BOOLEAN /\ qStopped' \in BOOLEAN
      /\ qClose' \in {"idle", "cancel", "stop", "wait", "returned"}
  <2>1. /\ \/ UNCHANGED qCtxDone
           \/ qCtxDone' = TRUE
        /\ \/ UNCHANGED qStopped
           \/ qStopped' = TRUE
        /\ \/ UNCHANGED qClose
           \/ qClose' \in {"cancel", "stop", "wait", "returned"}
    BY DEF QosNext, CheckAsync, SendAsync, PublishSync, PublishStep, StartPublish, DeliverQoS0,
           HandleQoS1, Retry, GiveUpRetry, HandleQoS0, TakeAsync, AsyncStops, CloseQos, CloseStep,
           CancelQos, StopQos, QosClosed, qosVars
  <2> QED BY <2>1 DEF QosBounds
<1>5. spawned' \subseteq Happenings \X Handlers
  <2>1. ASSUME NEW e \in Happenings, DeliverQoS0(e) PROVE spawned' \subseteq Happenings \X Handlers
    <3>1. event[e].handler \in Handlers
      BY <2>1 DEF DeliverQoS0, HeardInv, LoopOK
    <3> QED BY <2>1, <3>1 DEF DeliverQoS0, QosBounds
  <2>2. CASE spawned' \subseteq spawned
    BY <2>2 DEF QosBounds
  <2>3. ASSUME NEW e \in Happenings, NEW h \in Handlers, HandleQoS0(e, h)
        PROVE  spawned' \subseteq spawned
    BY <2>3 DEF HandleQoS0
  <2>4. ASSUME UNCHANGED spawned PROVE spawned' \subseteq spawned
    BY <2>4
  <2> QED BY <2>1, <2>2, <2>3, <2>4
          DEF QosNext, CheckAsync, SendAsync, PublishSync, PublishStep, StartPublish, HandleQoS1,
              Retry, GiveUpRetry, TakeAsync, AsyncStops, CloseQos, CloseStep, CancelQos, StopQos,
              QosClosed, qosVars
<1> QED BY <1>2, <1>3, <1>4, <1>5, LoopsBounded DEF QosBounds

LEMMA QosTyped == QosSpec => []QosTypeOK
<1>1. QosInit => QosBounds
  <2> SUFFICES ASSUME QosInit PROVE QosBounds
    OBVIOUS
  <2>1. LoopBounds(Fresh)
    BY HandlersFacts DEF LoopBounds, Fresh
  <2>2. \A e \in Happenings : event[e] = Fresh
    BY DEF QosInit
  <2>3. asyncCh = <<>> /\ Len(asyncCh) <= AsyncBuffer
    BY BusAssumption DEF QosInit
  <2>4. /\ asyncAt = "select" /\ qClose = "idle" /\ spawned = {}
        /\ qCtxDone = FALSE /\ qStopped = FALSE
    BY DEF QosInit
  <2> QED BY <2>1, <2>2, <2>3, <2>4 DEF QosBounds
<1>2. QosInv /\ HeardInv /\ QosBounds => QosTypeOK
  <2> SUFFICES ASSUME QosInv, HeardInv, QosBounds PROVE QosTypeOK
    OBVIOUS
  <2>1. \A e \in Happenings :
          event[e] \in [at : EventStates, async : BOOLEAN, handler : 1..(Len(QoSOf) + 1),
                        tries : 0..MaxRetries]
    BY DEF QosInv, EventRecords, QosBounds, LoopBounds
  <2>2. event \in [Happenings -> [at : EventStates, async : BOOLEAN,
                                  handler : 1..(Len(QoSOf) + 1), tries : 0..MaxRetries]]
    BY <2>1 DEF QosInv
  <2> QED BY <2>2 DEF QosInv, QosBounds, EventStates, QosTypeOK
<1> QED BY <1>1, <1>2, QosInitial, HeardInitial, QosInductive, HeardInductive, QosBoundsKept, PTL
        DEF QosSpec

\* What the job manager, the writers and the QoS bus keep has its types, for any
\* capacities: no channel ever holds more than it was made for, and what is started for
\* an event is started for a handler there is (service/jobs/manager.go,
\* storage/dual/writer.go, domain/events/qos/bus.go).
THEOREM QueueTypesTheorem ==
  /\ JobsSpec => []JobsTypeOK
  /\ WriterSpec => []WriterTypeOK
  /\ QosSpec => []QosTypeOK
BY JobsTyped, WriterTyped, QosTyped
=============================================================================
