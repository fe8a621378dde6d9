--------------------------- MODULE MCConcurrency ---------------------------
(***************************************************************************)
(* The concurrency primitives of the agent, which do not interact: a       *)
(* behaviour picks one of them and runs it, the others stay as they are.   *)
(***************************************************************************)
EXTENDS CircuitBreaker, BackgroundServices, TLC

CONSTANTS j1, j2, j3, j4

VARIABLE part   \* the primitive that runs

\* Two jobs have one id, the last a priority no pool serves.
MCId == (j1 :> 1) @@ (j2 :> 1) @@ (j3 :> 2) @@ (j4 :> 3)
MCClass == [j \in Jobs |-> IF j = j4 THEN "scan" ELSE "live"]
MCPool == [w \in JobWorkers |-> "live"]
MCQoS == <<0, 1>>

concurrencyVars == <<part, vars, jobsVars, writerVars, qosVars, streamsVars>>

ConcurrencyInit ==
    /\ part \in {"breaker", "jobs", "writer", "bus", "streams"}
    /\ Init /\ JobsInit /\ WriterInit /\ QosInit /\ StreamsInit
    \* Of the two writers only a part that runs needs the second.
    /\ part # "writer" => kind = "dual"

ConcurrencyNext ==
    /\ UNCHANGED part
    /\ IF part = "breaker" THEN Next ELSE UNCHANGED vars
    /\ IF part = "jobs" THEN JobsNext ELSE UNCHANGED jobsVars
    /\ IF part = "writer" THEN WriterNext ELSE UNCHANGED writerVars
    /\ IF part = "bus" THEN QosNext ELSE UNCHANGED qosVars
    /\ IF part = "streams" THEN StreamsNext ELSE UNCHANGED streamsVars

\* Somebody's next step in the queues: a worker's, a closer's, a handler's.
QueuesProgress ==
    /\ part # "breaker"
    /\ UNCHANGED <<part, vars>>
    /\ IF part = "jobs" THEN JobsProgress ELSE UNCHANGED jobsVars
    /\ IF part = "writer" THEN WriterProgress ELSE UNCHANGED writerVars
    /\ IF part = "bus" THEN QosProgress ELSE UNCHANGED qosVars
    /\ IF part = "streams" THEN RelayStep ELSE UNCHANGED streamsVars

\* The fairness of each part, while it is the one that runs.
ConcurrencySpec ==
    /\ ConcurrencyInit /\ [][ConcurrencyNext]_concurrencyVars
    /\ WF_vars(part = "breaker" /\ Expire)
    /\ \A g \in Goroutines : /\ WF_vars(part = "breaker" /\ Attempt(g))
                             /\ WF_vars(part = "breaker" /\ Progress(g))
    /\ WF_concurrencyVars(QueuesProgress)

-----------------------------------------------------------------------------
\* Every call of Stop and Close returns, and a queue that stays open is emptied,
\* whatever handlers fail, jobs panic and other closers do meanwhile; and a
\* subscription whose context is done ends, although nobody reads its channel.
QueuesSettle == []<>(JobsSettled /\ WriterSettled /\ QosSettled /\ StreamsSettled)
=============================================================================
