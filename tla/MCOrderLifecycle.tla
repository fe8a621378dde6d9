-------------------------- MODULE MCOrderLifecycle -------------------------
(***************************************************************************)
(* Instances of OrderLifecycle with two workers: one of them submits, or   *)
(* both do.                                                                *)
(***************************************************************************)
EXTENDS OrderLifecycle

CONSTANTS o1, o2, w1, w2

BothSubmit == [o \in Orders |-> {w1, w2}]
OneSubmitter == [o \in Orders |-> {w1}]
OtherCancels == [o \in Orders |-> {w2}]

\* Some answer has called an order pending.
Doubted ==
  \/ \E o \in Orders : reverted'[o] > 0
  \/ query'.at = "store" /\ query'.copy.status = "pending"
  \/ sweep'.at = "each" /\ \E x \in DOMAIN sweep'.open : sweep'.open[x].status = "pending"

\* Bounds on what one behaviour combines: while and after two goroutines submit an
\* order together nothing crashes and no sweep runs, after a crash only one goroutine
\* and the queries go on, and an answer that says pending, or an order the exchange
\* rejects after it has accepted it, comes without any of these and without the other.
\* The steps under Fairness keep to them.
OneTrouble ==
  /\ raced' # {} => crashes' = 0 /\ sweep'.at = "idle"
  /\ crashes' > 0 => worker'[w2] = IdleWorker /\ sweep'.at = "idle"
  /\ Doubted => crashes' = 0 /\ raced' = {}
  /\ (\E x \in ExchangeIds : exch'[x].status = "rejected") =>
       crashes' = 0 /\ raced' = {} /\ ~Doubted

\* The engine trades all the time; no round starts once a row was made pending again.
RaceInit == Init /\ trades
RaceSpec ==
  RaceInit /\ [][/\ Next /\ OneTrouble /\ UNCHANGED trades
                 /\ (\E o \in Orders : reverted[o] > 0) => ~QueryList /\ ~SweepList]_vars

\* The rounds of the queries come and go with the engine's state.
RoundsSpec == Init /\ [][Next /\ OneTrouble]_vars /\ Fairness
=============================================================================
