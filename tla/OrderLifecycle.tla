--------------------------- MODULE OrderLifecycle --------------------------
(***************************************************************************)
(* Orders between the local database and the exchange: the order service   *)
(* (service/agent/order_service.go) called by several goroutines, its own  *)
(* ReconcileOrders, which queries the exchange order by order, and the     *)
(* reconciliation service, which compares with the list of open orders.    *)
(*                                                                         *)
(* No lock is held between reading a row, talking to the exchange and      *)
(* writing the row back, so each of these is a step, and a write replaces  *)
(* the whole row by a copy read earlier. The exchange fills orders at any  *)
(* time; its answers and the database's may be errors; the process may     *)
(* crash between any two steps. The rows and the exchange survive.         *)
(*                                                                         *)
(* A definition marked "Slip" is not part of the specification: it is a    *)
(* mistake the definition after it could hold, and PROJECT.json names the  *)
(* property that catches it.                                               *)
(***************************************************************************)
EXTENDS Integers, FiniteSets

CONSTANTS
  Orders,      \* local order ids
  Workers,     \* goroutines that call the order service
  Submitters,  \* the workers that may create and submit an order
  Cancelers,   \* the workers that may cancel it
  MaxSends,    \* bound: exchange orders made of one local order
  MaxReverts,  \* bound: of one order's rows made pending again, no more answers say pending
  MaxCrashes   \* bound: crashes of the process

ASSUME CallersAssumption ==
  Submitters \in [Orders -> SUBSET Workers] /\ Cancelers \in [Orders -> SUBSET Workers]
ASSUME BoundsAssumption == MaxSends \in Nat /\ MaxReverts \in Nat /\ MaxCrashes \in Nat

VARIABLES
  gate,     \* the trading gate lets new entries through
  row,      \* the orders table
  exch,     \* the orders the exchange has accepted
  worker,   \* the call each worker is in
  query,    \* ReconcileOrders of the order service
  sweep,    \* ReconcileOrders of the reconciliation service
  crashes,  \* crashes so far
  lost,     \* history: exchange orders whose id the process never stored
  raced,    \* history: orders two goroutines have submitted at the same time
  late,     \* history: entries each worker sent since the gate closed
  trades,   \* the engine is in paper or live trading
  reverted  \* history: order -> times a reconciliation made its row pending again

vars == <<gate, row, exch, worker, query, sweep, crashes, lost, raced, late, trades, reverted>>

-----------------------------------------------------------------------------
(* Values. A quantity is 0, 1 (part of the order) or 2 (all of it). *)

OpenStatus == {"submitted", "partial"}
DoneStatus == {"filled", "canceled", "rejected"}

\* The n-th exchange order made of order o.
ExchangeIds == Orders \X (1..MaxSends)
NoId == <<>>

Rows == [status: {"pending"} \cup OpenStatus \cup DoneStatus,
         xid: ExchangeIds \cup {NoId}, filled: 0..2]
ExchangeOrders == [status: OpenStatus \cup DoneStatus, filled: 0..2]

\* What a query or GetOpenOrders may say of one: the adapter maps every status it does
\* not know to "pending", and so one that the exchange itself calls that.
Answers == [status: {"pending"} \cup OpenStatus \cup DoneStatus, filled: 0..2]

NoRow == [status |-> "absent"]
NoOrder == [status |-> "absent"]

PendingRow == [status |-> "pending", xid |-> NoId, filled |-> 0]

IdleWorker == [at |-> "idle"]
IdleReconciler == [at |-> "idle"]

\* The exchange orders made of order o.
SentFor(o) == {x \in ExchangeIds : x[1] = o /\ exch[x] # NoOrder}

\* Slip: partially filled rows are left out.
SubmittedRows == [o \in {o \in Orders : row[o].status = "submitted"} |-> row[o]]

\* ListActive: the rows a reconciliation starts from.
ActiveRows ==
  [o \in {o \in Orders : row[o].status \in OpenStatus} |-> row[o]]

\* QueryOrder of exchange order x: its state, or that state under the name "pending".
Reads(x) ==
  IF reverted[x[1]] < MaxReverts
    THEN {exch[x], [exch[x] EXCEPT !.status = "pending"]} ELSE {exch[x]}

\* GetOpenOrders: the open orders, each as it reads.
OpenIds == {x \in ExchangeIds : exch[x].status \in OpenStatus}
OpenOrders ==
  {f \in [OpenIds -> UNION {Reads(x) : x \in OpenIds}] : \A x \in OpenIds : f[x] \in Reads(x)}

\* A map without key k.
Without(f, k) == [j \in DOMAIN f \ {k} |-> f[j]]

\* A local copy of a row takes over what the exchange says of the order.
Adopt(r, x) == [r EXCEPT !.status = x.status, !.filled = x.filled]

\* A reconciliation that writes copy r over the row of order o.
Writes(o, r) ==
  /\ row' = [row EXCEPT ![o] = r]
  /\ reverted' = IF r.status = "pending" THEN [reverted EXCEPT ![o] = @ + 1] ELSE reverted

\* The exchange id worker w has been given and has not stored yet.
Unstored(w) ==
  IF worker[w].at = "store" /\ worker[w].copy.status = "submitted"
    THEN {worker[w].copy.xid} ELSE {}

\* Worker w has loaded order o as pending and not written its outcome yet.
Submitting(w, o) ==
  /\ worker[w].at \in {"send", "store", "reject"}
  /\ worker[w].order = o
  /\ worker[w].copy.status \in {"pending", "submitted", "rejected"}

Init ==
  /\ gate \in BOOLEAN
  /\ row = [o \in Orders |-> NoRow]
  /\ exch = [x \in ExchangeIds |-> NoOrder]
  /\ worker = [w \in Workers |-> IdleWorker]
  /\ query = IdleReconciler
  /\ sweep = IdleReconciler
  /\ crashes = 0
  /\ lost = {}
  /\ raced = {}
  /\ late = [w \in Workers |-> 0]
  /\ trades \in BOOLEAN
  /\ reverted = [o \in Orders |-> 0]

-----------------------------------------------------------------------------
(* Calls of the order service. *)

DoReturn(w) == worker' = [worker EXCEPT ![w] = IdleWorker]

\* CreateOrder and SubmitOrder look at the gate first (checkNewEntry).
EnterCreate(w) ==
  /\ worker[w].at = "idle"
  /\ \E o \in Orders : w \in Submitters[o]
  /\ gate
  /\ worker' = [worker EXCEPT ![w] = [at |-> "create"]]
  /\ UNCHANGED <<gate, row, exch, query, sweep, crashes, lost, raced, late, trades, reverted>>

\* Slip: an id that exists already replaces the row.
CreateOrReplace(w, o) ==
  /\ worker[w].at = "create"
  /\ row' = [row EXCEPT ![o] = PendingRow]
  /\ DoReturn(w)
  /\ UNCHANGED <<gate, exch, query, sweep, crashes, lost, raced, late, trades, reverted>>

\* The order passes the risk checks and is inserted as pending; else, or if the
\* insert fails, the call ends with an error.
Create(w, o) ==
  /\ worker[w].at = "create"
  /\ \/ row[o] = NoRow /\ row' = [row EXCEPT ![o] = PendingRow]
     \/ UNCHANGED row
  /\ DoReturn(w)
  /\ UNCHANGED <<gate, exch, query, sweep, crashes, lost, raced, late, trades, reverted>>

\* Slip: only CreateOrder looks at the gate.
EnterSubmitUngated(w, o) ==
  /\ worker[w].at = "idle"
  /\ w \in Submitters[o]
  /\ worker' = [worker EXCEPT ![w] = [at |-> "load", order |-> o]]
  /\ UNCHANGED <<gate, row, exch, query, sweep, crashes, lost, raced, late, trades, reverted>>

\* SubmitOrder looks at the gate.
EnterSubmit(w, o) ==
  /\ worker[w].at = "idle"
  /\ w \in Submitters[o]
  /\ gate
  /\ worker' = [worker EXCEPT ![w] = [at |-> "load", order |-> o]]
  /\ UNCHANGED <<gate, row, exch, query, sweep, crashes, lost, raced, late, trades, reverted>>

\* GetByID; only a pending order is submitted. The row stays pending until the
\* exchange has answered, so another goroutine's submission may be under way.
LoadPending(w) ==
  /\ worker[w].at = "load"
  /\ LET o == worker[w].order IN
     IF row[o].status = "pending"
       THEN /\ worker' = [worker EXCEPT ![w] = [at |-> "send", order |-> o, copy |-> row[o]]]
            /\ raced' = raced \cup {i \in {o} : \E v \in Workers \ {w} : Submitting(v, i)}
       ELSE DoReturn(w) /\ UNCHANGED raced
  /\ UNCHANGED <<gate, row, exch, query, sweep, crashes, lost, late, trades, reverted>>

\* The exchange accepts the order, and its answer arrives or not.
SendAccepted(w, answered) ==
  LET o == worker[w].order
      x == <<o, Cardinality(SentFor(o)) + 1>>
  IN
  /\ worker[w].at = "send"
  /\ Cardinality(SentFor(o)) < MaxSends
  /\ exch' = [exch EXCEPT ![x] = [status |-> "submitted", filled |-> 0]]
  /\ worker' = [worker EXCEPT ![w] =
       [at |-> IF answered THEN "store" ELSE "reject", order |-> o,
        copy |-> IF answered
                   THEN [worker[w].copy EXCEPT !.status = "submitted", !.xid = x]
                   ELSE [worker[w].copy EXCEPT !.status = "rejected"]]]
  /\ lost' = IF answered THEN lost ELSE lost \cup {x}
  /\ late' = IF gate THEN late ELSE [late EXCEPT ![w] = @ + 1]
  /\ UNCHANGED <<gate, row, query, sweep, crashes, raced, trades, reverted>>

\* The exchange refuses the order, or the request never reaches it.
SendRefused(w) ==
  /\ worker[w].at = "send"
  /\ worker' = [worker EXCEPT ![w] =
       [at |-> "reject", order |-> @.order, copy |-> [@.copy EXCEPT !.status = "rejected"]]]
  /\ UNCHANGED <<gate, row, exch, query, sweep, crashes, lost, raced, late, trades, reverted>>

EnterCancel(w, o) ==
  /\ worker[w].at = "idle"
  /\ w \in Cancelers[o]
  /\ row[o].status \in OpenStatus
  /\ worker' = [worker EXCEPT ![w] = [at |-> "cancel", order |-> o, copy |-> row[o]]]
  /\ UNCHANGED <<gate, row, exch, query, sweep, crashes, lost, raced, late, trades, reverted>>

\* Slip: an error of the exchange does not end the call.
CancelAnyway(w) ==
  LET x == worker[w].copy.xid IN
  /\ worker[w].at = "cancel"
  /\ \/ exch[x].status \in OpenStatus /\ exch' = [exch EXCEPT ![x].status = "canceled"]
     \/ UNCHANGED exch
  /\ worker' = [worker EXCEPT ![w].at = "store", ![w].copy.status = "canceled"]
  /\ UNCHANGED <<gate, row, query, sweep, crashes, lost, raced, late, trades, reverted>>

\* The exchange cancels an open order; if its answer does not arrive, or the
\* order is closed already, the call ends with an error.
Cancel(w) ==
  LET x == worker[w].copy.xid IN
  /\ worker[w].at = "cancel"
  /\ \/ /\ exch[x].status \in OpenStatus
        /\ exch' = [exch EXCEPT ![x].status = "canceled"]
        /\ \/ worker' = [worker EXCEPT ![w].at = "store", ![w].copy.status = "canceled"]
           \/ DoReturn(w)
     \/ /\ UNCHANGED exch
        /\ DoReturn(w)
  /\ UNCHANGED <<gate, row, query, sweep, crashes, lost, raced, late, trades, reverted>>

\* Update writes the whole copy over the row.
Store(w) ==
  /\ worker[w].at \in {"store", "reject"}
  /\ row' = [row EXCEPT ![worker[w].order] = worker[w].copy]
  /\ DoReturn(w)
  /\ UNCHANGED <<gate, exch, query, sweep, crashes, lost, raced, late, trades, reverted>>

\* Update fails and the call ends: after a submission the id is gone.
StoreFails(w) ==
  /\ worker[w].at \in {"store", "reject"}
  /\ lost' = lost \cup Unstored(w)
  /\ DoReturn(w)
  /\ UNCHANGED <<gate, row, exch, query, sweep, crashes, raced, late, trades, reverted>>

-----------------------------------------------------------------------------
(* ReconcileOrders of the order service: query every active order. *)

\* Called by the engine's worker, and after stream events.
QueryList ==
  /\ query.at = "idle"
  /\ query' = [at |-> "each", todo |-> ActiveRows]
  /\ UNCHANGED <<gate, row, exch, worker, sweep, crashes, lost, raced, late, trades, reverted>>

\* The ticker of the engine's worker, which looks at the engine's state first.
QueryTick == trades /\ QueryList

\* The copy takes over whatever status the answer has.
Query(o) ==
  /\ query.at = "each"
  /\ o \in DOMAIN query.todo
  /\ query.todo[o].xid # NoId
  /\ \E seen \in Reads(query.todo[o].xid) :
       query' = [at |-> "store", todo |-> Without(query.todo, o), order |-> o,
                 copy |-> Adopt(query.todo[o], seen)]
  /\ UNCHANGED <<gate, row, exch, worker, sweep, crashes, lost, raced, late, trades, reverted>>

\* Slip: an order the exchange says nothing about is taken for canceled.
QueryFailsCancels(o) ==
  /\ query.at = "each"
  /\ o \in DOMAIN query.todo
  /\ query' = [at |-> "store", todo |-> Without(query.todo, o), order |-> o,
               copy |-> [query.todo[o] EXCEPT !.status = "canceled"]]
  /\ UNCHANGED <<gate, row, exch, worker, sweep, crashes, lost, raced, late, trades, reverted>>

\* The query fails, or the row has no exchange id: it is left as it is.
QueryFails(o) ==
  /\ query.at = "each"
  /\ o \in DOMAIN query.todo
  /\ query' = [query EXCEPT !.todo = Without(@, o)]
  /\ UNCHANGED <<gate, row, exch, worker, sweep, crashes, lost, raced, late, trades, reverted>>

QueryStore ==
  /\ query.at = "store"
  /\ Writes(query.order, query.copy)
  /\ query' = [at |-> "each", todo |-> query.todo]
  /\ UNCHANGED <<gate, exch, worker, sweep, crashes, lost, raced, late, trades>>

\* The list is done, or an Update failed: the call returns.
QueryEnds ==
  /\ query.at = "store" \/ (query.at = "each" /\ DOMAIN query.todo = {})
  /\ query' = IdleReconciler
  /\ UNCHANGED <<gate, row, exch, worker, sweep, crashes, lost, raced, late, trades, reverted>>

-----------------------------------------------------------------------------
(* ReconcileOrders of the reconciliation service: compare with the open     *)
(* orders of the exchange.                                                  *)

SweepList ==
  /\ sweep.at = "idle"
  /\ sweep' = [at |-> "open", todo |-> ActiveRows]
  /\ UNCHANGED <<gate, row, exch, worker, query, crashes, lost, raced, late, trades, reverted>>

SweepOpen ==
  /\ sweep.at = "open"
  /\ \E open \in OpenOrders : sweep' = [at |-> "each", todo |-> sweep.todo, open |-> open]
  /\ UNCHANGED <<gate, row, exch, worker, query, crashes, lost, raced, late, trades, reverted>>

\* A row whose order is not open any more is a zombie and becomes canceled, one
\* that differs takes over the exchange's state.
Swept(r, open) ==
  IF r.xid \in DOMAIN open THEN Adopt(r, open[r.xid]) ELSE [r EXCEPT !.status = "canceled"]

SweepStore(o) ==
  /\ sweep.at = "each"
  /\ o \in DOMAIN sweep.todo
  /\ sweep.todo[o].xid # NoId
  /\ LET swept == Swept(sweep.todo[o], sweep.open) IN
     IF swept = sweep.todo[o] THEN UNCHANGED <<row, reverted>> ELSE Writes(o, swept)
  /\ sweep' = [sweep EXCEPT !.todo = Without(@, o)]
  /\ UNCHANGED <<gate, exch, worker, query, crashes, lost, raced, late, trades>>

\* Update fails, or the row has no exchange id: on to the next row.
SweepStoreFails(o) ==
  /\ sweep.at = "each"
  /\ o \in DOMAIN sweep.todo
  /\ sweep' = [sweep EXCEPT !.todo = Without(@, o)]
  /\ UNCHANGED <<gate, row, exch, worker, query, crashes, lost, raced, late, trades, reverted>>

\* The list is done, or GetOpenOrders failed: the sweep returns.
SweepEnds ==
  /\ sweep.at = "open" \/ (sweep.at = "each" /\ DOMAIN sweep.todo = {})
  /\ sweep' = IdleReconciler
  /\ UNCHANGED <<gate, row, exch, worker, query, crashes, lost, raced, late, trades, reverted>>

-----------------------------------------------------------------------------
(* The environment. *)

\* The exchange fills an open order, in part or in full.
Fill(x) ==
  /\ \/ /\ exch[x].status = "submitted"
        /\ exch' = [exch EXCEPT ![x] = [status |-> "partial", filled |-> 1]]
     \/ /\ exch[x].status \in OpenStatus
        /\ exch' = [exch EXCEPT ![x] = [status |-> "filled", filled |-> 2]]
  /\ UNCHANGED <<gate, row, worker, query, sweep, crashes, lost, raced, late, trades, reverted>>

\* The exchange cancels an open order on its own, or rejects it after all.
ExchangeCloses(x) ==
  /\ exch[x].status \in OpenStatus
  /\ \E status \in {"canceled", "rejected"} : exch' = [exch EXCEPT ![x].status = status]
  /\ UNCHANGED <<gate, row, worker, query, sweep, crashes, lost, raced, late, trades, reverted>>

\* The engine goes into paper or live trading, or leaves it.
SwitchTrading ==
  /\ trades' = ~trades
  /\ UNCHANGED <<gate, row, exch, worker, query, sweep, crashes, lost, raced, late, reverted>>

\* The runtime opens or closes the gate (RuntimeSafety!GateOpen).
SwitchGate ==
  /\ gate' = ~gate
  /\ late' = [w \in Workers |-> 0]
  /\ UNCHANGED <<row, exch, worker, query, sweep, crashes, lost, raced, trades, reverted>>

\* The process crashes: every call in progress is gone, and with it the ids the
\* exchange gave to submissions that were not stored yet.
Crash ==
  /\ crashes < MaxCrashes
  /\ crashes' = crashes + 1
  /\ worker' = [w \in Workers |-> IdleWorker]
  /\ query' = IdleReconciler
  /\ sweep' = IdleReconciler
  /\ lost' = lost \cup UNION {Unstored(w) : w \in Workers}
  /\ UNCHANGED <<gate, row, exch, raced, late, trades, reverted>>

WorkerStep(w) ==
  \/ EnterCreate(w)
  \/ \E o \in Orders : w \in Submitters[o] /\ Create(w, o)
  \/ \E o \in Orders : EnterSubmit(w, o) \/ EnterCancel(w, o)
  \/ LoadPending(w)
  \/ \E answered \in BOOLEAN : SendAccepted(w, answered)
  \/ SendRefused(w)
  \/ Cancel(w)
  \/ Store(w)
  \/ StoreFails(w)

QueryStep ==
  \/ QueryList
  \/ \E o \in Orders : Query(o) \/ QueryFails(o)
  \/ QueryStore
  \/ QueryEnds

SweepStep ==
  \/ SweepList
  \/ SweepOpen
  \/ \E o \in Orders : SweepStore(o) \/ SweepStoreFails(o)
  \/ SweepEnds

Next ==
  \/ \E w \in Workers : WorkerStep(w)
  \/ QueryStep
  \/ SweepStep
  \/ \E x \in ExchangeIds : Fill(x) \/ ExchangeCloses(x)
  \/ SwitchGate
  \/ SwitchTrading
  \/ Crash

Spec == Init /\ [][Next]_vars

\* The engine's worker calls ReconcileOrders of the order service every five
\* minutes while the agent trades: a round comes for certain only if it stays in paper
\* or live trading.  A round that has begun ends, and neither the exchange's answers nor
\* the database's writes fail for ever. Nothing runs the sweep regularly: the
\* engine calls it after stream events only.
Fairness ==
  /\ WF_vars(QueryTick)
  /\ WF_vars(QueryEnds)
  /\ SF_vars(QueryStore)
  /\ \A o \in Orders : SF_vars(Query(o))

FairSpec == Spec /\ Fairness

-----------------------------------------------------------------------------
(* Properties. *)

\* Rows by order, for some of the orders.
Todos == UNION {[S -> Rows] : S \in SUBSET Orders}

WorkerStates ==
  {IdleWorker, [at |-> "create"]}
    \cup [at: {"load"}, order: Orders]
    \cup [at: {"send", "cancel", "store", "reject"}, order: Orders, copy: Rows]

QueryStates ==
  {IdleReconciler}
    \cup [at: {"each"}, todo: Todos]
    \cup [at: {"store"}, todo: Todos, order: Orders, copy: Rows]

SweepStates ==
  {IdleReconciler}
    \cup [at: {"open"}, todo: Todos]
    \cup [at: {"each"}, todo: Todos, open: UNION {[S -> Answers] : S \in SUBSET ExchangeIds}]

\* The values of every variable.
TypeOK ==
  /\ gate \in BOOLEAN
  /\ row \in [Orders -> Rows \cup {NoRow}]
  /\ exch \in [ExchangeIds -> ExchangeOrders \cup {NoOrder}]
  /\ worker \in [Workers -> WorkerStates]
  /\ query \in QueryStates
  /\ sweep \in SweepStates
  /\ crashes \in 0..MaxCrashes
  /\ lost \subseteq ExchangeIds
  /\ raced \subseteq Orders
  /\ late \in [Workers -> Nat]
  /\ trades \in BOOLEAN
  /\ reverted \in [Orders -> Nat]

\* A row the agent has closed has no live order behind it on the exchange, and a
\* filled row is filled there: nobody looks at a closed row again (ListActive),
\* so a wrong one stays wrong. It must hold although every writer replaces the
\* row by a copy read before it talked to the exchange, whatever the other
\* goroutines wrote or the exchange did since. Only a row that a reconciliation has
\* made pending again may be rejected over a live order: its resubmission may fail.
ClosedRowsAreClosed ==
  \A o \in Orders :
    row[o].status \in DoneStatus /\ row[o].xid # NoId =>
      /\ \/ exch[row[o].xid].status \in DoneStatus
         \/ row[o].status = "rejected" /\ reverted[o] > 0
      /\ row[o].status = "filled" => exch[row[o].xid] = [status |-> "filled", filled |-> 2]

\* However many goroutines submit an order, it reaches the exchange once, and once
\* more for each time a reconciliation has made its row pending again; and while none
\* has, the agent knows what became of it, by the id in its row or in a call in
\* progress.  It fails to only where an answer, an Update or a crash came between
\* exchange and database, or where two goroutines loaded the pending row together:
\* never by a retry, nor by the copies CancelOrder and the two reconciliations write
\* (SubmitOrder; order_service.go:285-290, adapter.go:509-526).
LiveOrdersKnown ==
  \A o \in Orders \ raced :
    /\ reverted[o] = 0 =>
         \A x \in SentFor(o) \ lost :
           exch[x].status \in OpenStatus =>
             row[o].xid = x \/ \E w \in Workers : x \in Unstored(w)
    /\ Cardinality(SentFor(o) \ lost) <= 1 + reverted[o]

\* SubmitOrder checks the gate and sends later: when the gate closes, each
\* goroutine sends at most the one entry it had checked before.
LateEntriesBounded == \A w \in Workers : late[w] <= 1

\* If the engine stays in paper or live trading from some time on, then once the
\* exchange has closed an order, its row is closed in the end and stays so: a
\* goroutine may still write an old copy over it and bring it back to life, but the
\* next queries close it again and no fresh copy can. Only an order that two
\* goroutines submitted together may come to stand for another one, and one that was
\* read as pending leaves the list of the queries (engine.go:577-580, ListActive).
RowsSettle ==
  <>[]trades =>
    \A o \in Orders :
      (\E x \in SentFor(o) : exch[x].status \in DoneStatus /\ row[o].xid = x)
        ~> [](row[o].status \in DoneStatus \/ o \in raced \/ reverted[o] > 0)

\* A row that has left "pending" keeps the exchange order it stands for, or its
\* refusal, whatever copy is written over it, unless two goroutines submitted it
\* together or a reconciliation has made it pending again; and it is marked canceled
\* only when that order is, except by the reconciliation service, which marks every
\* order that is missing from the open ones (Update replaces the whole row:
\* CancelOrder, SubmitOrder, both ReconcileOrders).
RowsKeepTheirOrder ==
  [][\A o \in Orders :
       /\ row[o].status \notin {"absent", "pending"} =>
            row'[o].xid = row[o].xid \/ o \in raced' \/ reverted[o] > 0
       /\ row[o].status # "canceled" /\ row'[o].status = "canceled" =>
            exch[row'[o].xid].status = "canceled" \/ sweep' # sweep]_vars

\* A row is canceled only if its exchange order is: the reconciliation service
\* cancels "zombie orders", which reconciliation.go:99 describes as "exists
\* locally but not on exchange".
CanceledRowsAreCanceled ==
  \A o \in Orders :
    row[o].status = "canceled" /\ row[o].xid # NoId =>
      exch[row[o].xid].status = "canceled"

=============================================================================
