------------------------ MODULE OrderLifecycleProofs -----------------------
(***************************************************************************)
(* Theorems about OrderLifecycle for any number of orders, goroutines,     *)
(* exchange orders and crashes, and without the bounds of its run on what  *)
(* one behaviour combines.                                                 *)
(***************************************************************************)
EXTENDS OrderLifecycle, FiniteSetTheorems, FunctionTheorems, TLAPS

-----------------------------------------------------------------------------
(* The inductive invariant. *)

\* What a copy r of the row of order o says of the exchange order it names is so
\* while the exchange is in state e:
\* every writer replaces the row by such a copy.
CopyOK(e, o, r) ==
  /\ r.status \in OpenStatus => r.xid # NoId
  /\ r.xid # NoId => r.xid[1] = o /\ e[r.xid] # NoOrder
  /\ r.status \in {"filled", "canceled"} /\ r.xid # NoId =>
       /\ e[r.xid].status \in DoneStatus
       /\ r.status = "filled" => e[r.xid] = [status |-> "filled", filled |-> 2]

RowCopies == \A o \in Orders : row[o] # NoRow => CopyOK(exch, o, row[o])

\* The copies the three writers hold: a worker in the middle of a call, ...
WorkerCopy(e, u) ==
  u.at \in {"send", "cancel", "store", "reject"} =>
    /\ CopyOK(e, u.order, u.copy)
    /\ u.at = "send" => u.copy.status = "pending"
    /\ u.at = "cancel" => u.copy.status \in OpenStatus
    /\ u.at = "store" => u.copy.status \in {"submitted", "canceled"} /\ u.copy.xid # NoId
    /\ u.at = "reject" => u.copy.status = "rejected"

WorkerCopies == \A w \in Workers : WorkerCopy(exch, worker[w])

\* ... the reconciliations, whose lists hold open rows only, ...
TodoCopies(e, todo) ==
  \A o \in DOMAIN todo : todo[o].status \in OpenStatus /\ CopyOK(e, o, todo[o])

QueryCopies ==
  /\ query.at # "idle" => TodoCopies(exch, query.todo)
  /\ query.at = "store" => CopyOK(exch, query.order, query.copy) /\ query.copy.xid # NoId

\* ... and the answer of GetOpenOrders: an order missing from it is closed.
SweepCopies ==
  /\ sweep.at # "idle" => TodoCopies(exch, sweep.todo)
  /\ sweep.at = "each" =>
       /\ \A x \in DOMAIN sweep.open : sweep.open[x].status \in {"pending"} \cup OpenStatus
       /\ \A o \in DOMAIN sweep.todo :
            sweep.todo[o].xid \notin DOMAIN sweep.open =>
              exch[sweep.todo[o].xid].status \in DoneStatus

\* The exchange numbers the orders made of a local order one after the other,
\* and a filled order is filled in full.
ExchangeOK ==
  /\ \A x \in ExchangeIds : exch[x].status = "filled" => exch[x].filled = 2
  /\ \A o \in Orders : \E k \in 0..MaxSends :
       \A i \in 1..MaxSends : exch[<<o, i>>] # NoOrder <=> i <= k

CopiesInv == RowCopies /\ WorkerCopies /\ QueryCopies /\ SweepCopies /\ ExchangeOK

-----------------------------------------------------------------------------
(* Rows, lists of rows and records. *)

\* A list of rows is a function from some of the orders to rows.
LEMMA TodosType ==
  /\ \A f \in Todos : DOMAIN f \subseteq Orders /\ \A o \in DOMAIN f : f[o] \in Rows
  /\ \A S \in SUBSET Orders : [S -> Rows] \subseteq Todos
BY DEF Todos

\* Dropping one row from a list leaves a list, and the other rows in it.
LEMMA WithoutType ==
  ASSUME NEW f \in Todos, NEW k
  PROVE  /\ Without(f, k) \in Todos
         /\ DOMAIN Without(f, k) = DOMAIN f \ {k}
         /\ \A o \in DOMAIN f \ {k} : Without(f, k)[o] = f[o]
<1>1. DOMAIN f \subseteq Orders /\ \A o \in DOMAIN f : f[o] \in Rows
  BY TodosType
<1>2. Without(f, k) \in [DOMAIN f \ {k} -> Rows]
  BY <1>1 DEF Without
<1>3. DOMAIN f \ {k} \in SUBSET Orders
  BY <1>1
<1> QED BY <1>2, <1>3, TodosType DEF Without

\* ListActive yields the rows that are open.
LEMMA ActiveType ==
  ASSUME TypeOK
  PROVE  /\ ActiveRows \in Todos
         /\ \A o \in DOMAIN ActiveRows : /\ o \in Orders /\ ActiveRows[o] = row[o]
                                         /\ row[o].status \in OpenStatus /\ row[o] # NoRow
<1> DEFINE S == {o \in Orders : row[o].status \in OpenStatus}
<1>1. \A o \in S : row[o] \in Rows /\ row[o] # NoRow
  BY DEF TypeOK, NoRow, OpenStatus
<1>2. ActiveRows \in [S -> Rows] /\ S \in SUBSET Orders
  BY <1>1 DEF ActiveRows
<1> QED BY <1>1, <1>2, TodosType DEF ActiveRows

\* Taking over the state of an exchange order yields a row with the same id.
LEMMA AdoptType ==
  ASSUME NEW r \in Rows, NEW x \in Answers
  PROVE  /\ Adopt(r, x) \in Rows
         /\ Adopt(r, x).xid = r.xid
         /\ Adopt(r, x).status = x.status
BY DEF Adopt, Rows, Answers, OpenStatus, DoneStatus

\* An order reads as it is, or as pending.
LEMMA ReadsType ==
  ASSUME NEW x, exch[x] \in ExchangeOrders, NEW y \in Reads(x)
  PROVE  y \in Answers /\ (y = exch[x] \/ y.status = "pending")
<1>1. exch[x] \in Answers
  BY DEF ExchangeOrders, Answers
<1>2. /\ [exch[x] EXCEPT !.status = "pending"] \in Answers
      /\ [exch[x] EXCEPT !.status = "pending"].status = "pending"
  BY DEF ExchangeOrders, Answers
<1>3. y = exch[x] \/ y = [exch[x] EXCEPT !.status = "pending"]
  BY DEF Reads
<1> QED BY <1>1, <1>2, <1>3

\* So does a change of the status or, for a pending row, of status and id.
LEMMA RowFields ==
  ASSUME NEW r \in Rows
  PROVE  /\ \A s \in {"rejected", "canceled"} :
              /\ [r EXCEPT !.status = s] \in Rows
              /\ [r EXCEPT !.status = s].xid = r.xid
              /\ [r EXCEPT !.status = s].status = s
         /\ \A x \in ExchangeIds :
              /\ [r EXCEPT !.status = "submitted", !.xid = x] \in Rows
              /\ [r EXCEPT !.status = "submitted", !.xid = x].xid = x
              /\ [r EXCEPT !.status = "submitted", !.xid = x].status = "submitted"
BY DEF Rows, OpenStatus, DoneStatus

\* A pending row has no exchange id; a row is not the absence of one.
LEMMA PendingType ==
  /\ PendingRow \in Rows /\ PendingRow # NoRow
  /\ PendingRow.status = "pending" /\ PendingRow.xid = NoId
  /\ \A r \in Rows : r # NoRow
  /\ \A x \in ExchangeIds : x # NoId
  /\ \A x \in ExchangeOrders : x # NoOrder
<1>1. PendingRow \in Rows /\ PendingRow.status = "pending" /\ PendingRow.xid = NoId
  BY DEF PendingRow, Rows
<1>2. \A r \in Rows : r # NoRow
  <2>1. NoRow.status = "absent"
    BY DEF NoRow
  <2> QED BY <2>1 DEF Rows, OpenStatus, DoneStatus
<1>3. \A x \in ExchangeIds : x # NoId
  BY DEF ExchangeIds, NoId
<1>4. \A x \in ExchangeOrders : x # NoOrder
  <2>1. NoOrder.status = "absent"
    BY DEF NoOrder
  <2> QED BY <2>1 DEF ExchangeOrders, OpenStatus, DoneStatus
<1> QED BY <1>1, <1>2, <1>3, <1>4

\* The copies the states of the workers and of the reconciliations hold are rows.
LEMMA StatesType ==
  ASSUME TypeOK
  PROVE  /\ \A w \in Workers :
              /\ worker[w].at \in {"idle", "create", "load", "send", "cancel", "store", "reject"}
              /\ worker[w].at = "load" => worker[w].order \in Orders
              /\ worker[w].at \in {"send", "cancel", "store", "reject"} =>
                   worker[w].order \in Orders /\ worker[w].copy \in Rows
         /\ query.at \in {"idle", "each", "store"}
         /\ query.at # "idle" => query.todo \in Todos
         /\ query.at = "store" => query.order \in Orders /\ query.copy \in Rows
         /\ sweep.at \in {"idle", "open", "each"}
         /\ sweep.at # "idle" => sweep.todo \in Todos
         /\ sweep.at = "each" =>
              /\ DOMAIN sweep.open \subseteq ExchangeIds
              /\ \A x \in DOMAIN sweep.open : sweep.open[x] \in Answers
BY DEF TypeOK, WorkerStates, QueryStates, SweepStates, IdleWorker, IdleReconciler

\* Every state a call builds is one of the states of its kind.
LEMMA StatesMade ==
  /\ IdleWorker \in WorkerStates /\ [at |-> "create"] \in WorkerStates
  /\ \A o \in Orders : [at |-> "load", order |-> o] \in WorkerStates
  /\ \A a \in {"send", "cancel", "store", "reject"}, o \in Orders, r \in Rows :
       [at |-> a, order |-> o, copy |-> r] \in WorkerStates
  /\ IdleReconciler \in QueryStates /\ IdleReconciler \in SweepStates
  /\ \A f \in Todos : [at |-> "each", todo |-> f] \in QueryStates
  /\ \A f \in Todos, o \in Orders, r \in Rows :
       [at |-> "store", todo |-> f, order |-> o, copy |-> r] \in QueryStates
  /\ \A f \in Todos : [at |-> "open", todo |-> f] \in SweepStates
BY DEF WorkerStates, QueryStates, SweepStates

-----------------------------------------------------------------------------
(* The exchange. *)

Exchanges == [ExchangeIds -> ExchangeOrders \cup {NoOrder}]

\* The exchange only moves on from e to f: it forgets no order, reopens none and
\* takes no fill back.
Grows(e, f) ==
  \A x \in ExchangeIds :
    /\ e[x] # NoOrder => f[x] # NoOrder
    /\ e[x].status \in DoneStatus => f[x].status \in DoneStatus
    /\ e[x] = [status |-> "filled", filled |-> 2] => f[x] = [status |-> "filled", filled |-> 2]

\* A copy that says what is so keeps doing so while the exchange moves on.
LEMMA CopyKept ==
  ASSUME NEW e, NEW f, Grows(e, f), NEW o, NEW r \in Rows, CopyOK(e, o, r)
  PROVE  CopyOK(f, o, r)
<1>1. r.xid \in ExchangeIds \cup {NoId}
  BY DEF Rows
<1> QED BY <1>1 DEF CopyOK, Grows

\* So do the copies of a worker and those of a list.
LEMMA WorkerCopyKept ==
  ASSUME NEW e, NEW f, Grows(e, f), NEW u \in WorkerStates, WorkerCopy(e, u)
  PROVE  WorkerCopy(f, u)
<1> SUFFICES ASSUME u.at \in {"send", "cancel", "store", "reject"} PROVE WorkerCopy(f, u)
  BY DEF WorkerCopy
<1>1. u.copy \in Rows
  BY DEF WorkerStates, IdleWorker
<1> QED BY <1>1, CopyKept DEF WorkerCopy

LEMMA TodoKept ==
  ASSUME NEW e, NEW f, Grows(e, f), NEW todo \in Todos, TodoCopies(e, todo)
  PROVE  TodoCopies(f, todo)
BY TodosType, CopyKept DEF TodoCopies

\* An exchange that does not change has moved on, and so has one that accepts a
\* new order, fills an open one or cancels it.
LEMMA GrowsSame == \A e : Grows(e, e)
BY DEF Grows

LEMMA GrowsNew ==
  ASSUME NEW e \in Exchanges, NEW x \in ExchangeIds, e[x] = NoOrder,
         NEW y \in ExchangeOrders
  PROVE  Grows(e, [e EXCEPT ![x] = y])
BY PendingType DEF Grows, Exchanges, NoOrder, DoneStatus

LEMMA GrowsOpen ==
  ASSUME NEW e \in Exchanges, NEW x \in ExchangeIds, e[x].status \in OpenStatus,
         NEW y \in ExchangeOrders
  PROVE  Grows(e, [e EXCEPT ![x] = y])
<1>1. e[x].status \notin DoneStatus /\ e[x] # [status |-> "filled", filled |-> 2]
  BY DEF OpenStatus, DoneStatus
<1> QED BY <1>1, PendingType DEF Grows, Exchanges

\* The states a fill, a cancellation and an acceptance leave an order in.
LEMMA ExchangeOrdersMade ==
  /\ [status |-> "submitted", filled |-> 0] \in ExchangeOrders
  /\ [status |-> "partial", filled |-> 1] \in ExchangeOrders
  /\ [status |-> "filled", filled |-> 2] \in ExchangeOrders
  /\ \A y \in ExchangeOrders, status \in {"canceled", "rejected"} :
       /\ [y EXCEPT !.status = status] \in ExchangeOrders
       /\ [y EXCEPT !.status = status].status = status
BY DEF ExchangeOrders, OpenStatus, DoneStatus

\* As many exchange orders were made of order o as the last one's number says.
LEMMA SentCount ==
  ASSUME NEW o \in Orders, NEW k \in 0..MaxSends,
         \A i \in 1..MaxSends : exch[<<o, i>>] # NoOrder <=> i <= k
  PROVE  /\ IsFiniteSet(SentFor(o))
         /\ Cardinality(SentFor(o)) = k
<1> USE BoundsAssumption
<1> DEFINE nth == [i \in 1..k |-> <<o, i>>]
<1>1. \A i \in 1..k : nth[i] \in SentFor(o)
  BY DEF SentFor, ExchangeIds
<1>2. \A x \in SentFor(o) : x[2] \in 1..k /\ x = nth[x[2]]
  BY DEF SentFor, ExchangeIds
<1>3. \A i, j \in 1..k : nth[i] = nth[j] => i = j
  OBVIOUS
<1> HIDE DEF nth
<1>4. nth \in [1..k -> SentFor(o)]
  BY <1>1 DEF nth
<1>5. nth \in Bijection(1..k, SentFor(o))
  <2>1. \A x \in SentFor(o) : \E i \in 1..k : nth[i] = x
    BY <1>2
  <2> QED BY <1>3, <1>4, <2>1, Fun_IsBij
<1>6. ExistsBijection(1..k, SentFor(o))
  BY <1>5 DEF ExistsBijection
<1>7. IsFiniteSet(1..k) /\ Cardinality(1..k) = k
  BY FS_Interval
<1> QED BY <1>6, <1>7, FS_Bijection

-----------------------------------------------------------------------------
(* What a step that leaves a writer alone, or writes one copy, keeps. *)

\* Rows nobody writes, and the row a writer replaces by a true copy.
LEMMA RowsFrame ==
  ASSUME TypeOK, RowCopies, Grows(exch, exch'), row' = row
  PROVE  RowCopies'
<1> SUFFICES ASSUME NEW o \in Orders, row[o] # NoRow PROVE CopyOK(exch', o, row[o])
  BY DEF RowCopies
<1> QED BY CopyKept DEF TypeOK, RowCopies

LEMMA RowsWrite ==
  ASSUME TypeOK, RowCopies, Grows(exch, exch'),
         NEW o \in Orders, NEW r \in Rows, CopyOK(exch', o, r),
         row' = [row EXCEPT ![o] = r]
  PROVE  /\ RowCopies'
         /\ row' \in [Orders -> Rows \cup {NoRow}]
<1> SUFFICES ASSUME NEW i \in Orders, row'[i] # NoRow PROVE CopyOK(exch', i, row'[i])
  BY DEF RowCopies, TypeOK
<1>1. CASE i = o
  BY <1>1 DEF TypeOK
<1>2. CASE i # o
  <2>1. row'[i] = row[i]
    BY <1>2 DEF TypeOK
  <2> QED BY <2>1, CopyKept DEF TypeOK, RowCopies
<1> QED BY <1>1, <1>2

\* Workers nobody moves, and a worker that goes on to state u.
LEMMA WorkersFrame ==
  ASSUME TypeOK, WorkerCopies, Grows(exch, exch'), worker' = worker
  PROVE  WorkerCopies'
BY WorkerCopyKept DEF TypeOK, WorkerCopies

LEMMA WorkersWrite ==
  ASSUME TypeOK, WorkerCopies, Grows(exch, exch'),
         NEW w \in Workers, NEW u \in WorkerStates, WorkerCopy(exch', u),
         worker' = [worker EXCEPT ![w] = u]
  PROVE  WorkerCopies' /\ worker' \in [Workers -> WorkerStates]
<1>1. \A v \in Workers : worker'[v] = IF v = w THEN u ELSE worker[v]
  BY DEF TypeOK
<1>2. \A v \in Workers \ {w} : WorkerCopy(exch', worker[v])
  BY WorkerCopyKept DEF TypeOK, WorkerCopies
<1> QED BY <1>1, <1>2 DEF TypeOK, WorkerCopies

\* Reconciliations that are where they were.
LEMMA QueryFrame ==
  ASSUME TypeOK, QueryCopies, Grows(exch, exch'), query' = query
  PROVE  QueryCopies'
<1>1. query.at # "idle" => TodoCopies(exch', query.todo)
  BY StatesType, TodoKept DEF QueryCopies
<1>2. query.at = "store" => CopyOK(exch', query.order, query.copy)
  BY StatesType, CopyKept DEF QueryCopies
<1> QED BY <1>1, <1>2 DEF QueryCopies

LEMMA SweepFrame ==
  ASSUME TypeOK, SweepCopies, Grows(exch, exch'), sweep' = sweep
  PROVE  SweepCopies'
<1>1. sweep.at # "idle" => TodoCopies(exch', sweep.todo)
  BY StatesType, TodoKept DEF SweepCopies
<1>2. sweep.at = "each" =>
        \A o \in DOMAIN sweep.todo :
          sweep.todo[o].xid \notin DOMAIN sweep.open =>
            exch'[sweep.todo[o].xid].status \in DoneStatus
  <2> SUFFICES ASSUME sweep.at = "each", NEW o \in DOMAIN sweep.todo,
                      sweep.todo[o].xid \notin DOMAIN sweep.open
               PROVE  exch'[sweep.todo[o].xid].status \in DoneStatus
    OBVIOUS
  <2>1. exch[sweep.todo[o].xid].status \in DoneStatus /\ sweep.todo[o].xid # NoId
    BY DEF SweepCopies, TodoCopies, CopyOK
  <2>2. sweep.todo[o].xid \in ExchangeIds
    BY <2>1, StatesType, TodosType DEF Rows
  <2> QED BY <2>1, <2>2 DEF Grows
<1> QED BY <1>1, <1>2 DEF SweepCopies

\* The exchange as it was.
LEMMA ExchangeFrame ==
  ASSUME ExchangeOK, exch' = exch
  PROVE  ExchangeOK'
BY DEF ExchangeOK

-----------------------------------------------------------------------------
(* Steps of the order service. *)

LEMMA WorkerStepKeeps ==
  ASSUME TypeOK, CopiesInv, NEW w \in Workers, WorkerStep(w)
  PROVE  TypeOK' /\ CopiesInv'
<1> USE CallersAssumption, BoundsAssumption, GrowsSame
<1>a. ASSUME NEW u \in WorkerStates, WorkerCopy(exch, u),
             worker' = [worker EXCEPT ![w] = u],
             UNCHANGED <<gate, row, exch, query, sweep, crashes, late, trades, reverted>>,
             lost' \subseteq ExchangeIds, raced' \subseteq Orders
      PROVE  TypeOK' /\ CopiesInv'
  BY <1>a, RowsFrame, WorkersWrite, QueryFrame, SweepFrame, ExchangeFrame DEF TypeOK, CopiesInv
<1>b. WorkerCopy(exch, IdleWorker)
  BY DEF WorkerCopy, IdleWorker
<1>c. ASSUME NEW o \in Orders, NEW r \in Rows, CopyOK(exch, o, r),
             row' = [row EXCEPT ![o] = r], DoReturn(w),
             UNCHANGED <<gate, exch, query, sweep, crashes, lost, raced, late, trades, reverted>>
      PROVE  TypeOK' /\ CopiesInv'
  BY <1>b, <1>c, StatesMade, RowsWrite, WorkersWrite, QueryFrame, SweepFrame, ExchangeFrame
     DEF TypeOK, CopiesInv, DoReturn
<1>d. ASSUME DoReturn(w), UNCHANGED <<gate, row, exch, query, sweep, crashes, raced, late, trades, reverted>>,
             lost' \subseteq ExchangeIds
      PROVE  TypeOK' /\ CopiesInv'
  BY <1>a, <1>b, <1>d, StatesMade DEF DoReturn, TypeOK
<1>e. ASSUME NEW x \in ExchangeIds, NEW y \in ExchangeOrders,
             exch' = [exch EXCEPT ![x] = y], Grows(exch, exch'), ExchangeOK',
             NEW u \in WorkerStates, WorkerCopy(exch', u),
             worker' = [worker EXCEPT ![w] = u],
             UNCHANGED <<gate, row, query, sweep, crashes, raced, trades, reverted>>,
             lost' \subseteq ExchangeIds, late' \in [Workers -> Nat]
      PROVE  TypeOK' /\ CopiesInv'
  BY <1>e, RowsFrame, WorkersWrite, QueryFrame, SweepFrame DEF TypeOK, CopiesInv
<1>1. CASE EnterCreate(w)
  <2>1. WorkerCopy(exch, [at |-> "create"])
    BY DEF WorkerCopy
  <2> QED BY <1>1, <1>a, <2>1, StatesMade DEF EnterCreate, TypeOK
<1>2. ASSUME NEW o \in Orders, Create(w, o) PROVE TypeOK' /\ CopiesInv'
  <2>1. CASE row' = [row EXCEPT ![o] = PendingRow]
    <3>1. CopyOK(exch, o, PendingRow)
      BY PendingType DEF CopyOK, OpenStatus, DoneStatus
    <3> QED BY <1>2, <1>c, <2>1, <3>1, PendingType DEF Create
  <2>2. CASE UNCHANGED row
    BY <1>2, <1>d, <2>2 DEF Create, TypeOK
  <2> QED BY <1>2, <2>1, <2>2 DEF Create
<1>3. ASSUME NEW o \in Orders, EnterSubmit(w, o) PROVE TypeOK' /\ CopiesInv'
  <2>1. WorkerCopy(exch, [at |-> "load", order |-> o])
    BY DEF WorkerCopy
  <2> QED BY <1>3, <1>a, <2>1, StatesMade DEF EnterSubmit, TypeOK
<1>4. ASSUME NEW o \in Orders, EnterCancel(w, o) PROVE TypeOK' /\ CopiesInv'
  <2> DEFINE u == [at |-> "cancel", order |-> o, copy |-> row[o]]
  <2>1. row[o].status \in OpenStatus /\ row[o] # NoRow /\ row[o] \in Rows
    BY <1>4 DEF EnterCancel, TypeOK, NoRow, OpenStatus
  <2>2. CopyOK(exch, o, row[o])
    BY <2>1 DEF CopiesInv, RowCopies
  <2>3. WorkerCopy(exch, u)
    BY <2>1, <2>2 DEF WorkerCopy
  <2>4. u \in WorkerStates
    BY <2>1, StatesMade
  <2> QED BY <1>4, <1>a, <2>3, <2>4 DEF EnterCancel, TypeOK
<1>5. CASE LoadPending(w)
  <2> DEFINE o == worker[w].order
  <2>1. o \in Orders
    BY <1>5, StatesType DEF LoadPending
  <2>2. CASE row[o].status = "pending"
    <3> DEFINE u == [at |-> "send", order |-> o, copy |-> row[o]]
    <3>1. row[o] # NoRow /\ row[o] \in Rows
      BY <2>1, <2>2 DEF TypeOK, NoRow
    <3>2. WorkerCopy(exch, u)
      BY <2>1, <2>2, <3>1 DEF CopiesInv, RowCopies, WorkerCopy
    <3>3. u \in WorkerStates
      BY <2>1, <3>1, StatesMade
    <3>4. raced' \subseteq Orders
      BY <1>5, <2>1, <2>2 DEF LoadPending, TypeOK
    <3>5. worker' = [worker EXCEPT ![w] = u]
      BY <1>5, <2>2 DEF LoadPending
    <3>6. UNCHANGED <<gate, row, exch, query, sweep, crashes, lost, late, trades, reverted>>
      BY <1>5 DEF LoadPending
    <3> HIDE DEF u
    <3> QED BY <1>a, <3>2, <3>3, <3>4, <3>5, <3>6 DEF TypeOK
  <2>3. CASE row[o].status # "pending"
    BY <1>5, <1>d, <2>3 DEF LoadPending, TypeOK
  <2> QED BY <2>2, <2>3
<1>6. ASSUME NEW answered \in BOOLEAN, SendAccepted(w, answered) PROVE TypeOK' /\ CopiesInv'
  <2> DEFINE o == worker[w].order
             r == worker[w].copy
             x == <<o, Cardinality(SentFor(o)) + 1>>
             y == [status |-> "submitted", filled |-> 0]
             sent == [r EXCEPT !.status = "submitted", !.xid = x]
             refused == [r EXCEPT !.status = "rejected"]
             u == [at |-> IF answered THEN "store" ELSE "reject", order |-> o,
                   copy |-> IF answered THEN sent ELSE refused]
  <2>1. o \in Orders /\ r \in Rows /\ CopyOK(exch, o, r)
    BY <1>6, StatesType DEF SendAccepted, CopiesInv, WorkerCopies, WorkerCopy
  <2>2. PICK k \in 0..MaxSends : \A i \in 1..MaxSends : exch[<<o, i>>] # NoOrder <=> i <= k
    BY <2>1 DEF CopiesInv, ExchangeOK
  <2>3. Cardinality(SentFor(o)) = k
    BY <2>1, <2>2, SentCount
  <2>4. k < MaxSends /\ x = <<o, k + 1>>
    BY <1>6, <2>3 DEF SendAccepted
  <2>5. x \in ExchangeIds /\ exch[x] = NoOrder
    BY <2>1, <2>2, <2>4 DEF ExchangeIds
  <2>6. y \in ExchangeOrders
    BY ExchangeOrdersMade
  <2>7. exch' = [exch EXCEPT ![x] = y]
    BY <1>6 DEF SendAccepted
  <2>8. exch \in Exchanges
    BY DEF TypeOK, Exchanges
  <2>9. Grows(exch, exch')
    BY <2>5, <2>6, <2>7, <2>8, GrowsNew
  <2>10. \A z \in ExchangeIds : exch'[z] = IF z = x THEN y ELSE exch[z]
    BY <2>7, <2>8 DEF Exchanges
  <2>11. y # NoOrder /\ y.status # "filled"
    BY <2>6, PendingType
  <2>12. ExchangeOK'
    <3>1. \A z \in ExchangeIds : exch'[z].status = "filled" => exch'[z].filled = 2
      BY <2>10, <2>11 DEF CopiesInv, ExchangeOK
    <3>2. ASSUME NEW i \in Orders
          PROVE  \E n \in 0..MaxSends : \A j \in 1..MaxSends : exch'[<<i, j>>] # NoOrder <=> j <= n
      <4>1. CASE i = o
        <5>1. \A j \in 1..MaxSends : exch'[<<i, j>>] # NoOrder <=> j <= k + 1
          BY <2>2, <2>4, <2>10, <2>11, <4>1 DEF ExchangeIds
        <5>2. k + 1 \in 0..MaxSends
          BY <2>2, <2>4, BoundsAssumption
        <5> QED BY <5>1, <5>2
      <4>2. CASE i # o
        <5>1. \A j \in 1..MaxSends : exch'[<<i, j>>] = exch[<<i, j>>]
          BY <2>4, <2>10, <4>2 DEF ExchangeIds
        <5> QED BY <5>1 DEF CopiesInv, ExchangeOK
      <4> QED BY <4>1, <4>2
    <3> QED BY <3>1, <3>2 DEF ExchangeOK
  <2>13. /\ sent \in Rows /\ sent.status = "submitted" /\ sent.xid = x
         /\ refused \in Rows /\ refused.status = "rejected" /\ refused.xid = r.xid
    <3> HIDE DEF r, x
    <3>1. r \in Rows /\ x \in ExchangeIds
      BY <2>1, <2>5
    <3>2. sent \in Rows /\ sent.status = "submitted" /\ sent.xid = x
      BY ONLY <3>1 DEF sent, Rows, OpenStatus, DoneStatus
    <3>3. refused \in Rows /\ refused.status = "rejected" /\ refused.xid = r.xid
      BY ONLY <3>1 DEF refused, Rows, OpenStatus, DoneStatus
    <3> QED BY <3>2, <3>3
  <2>14. CopyOK(exch', o, sent) /\ CopyOK(exch', o, refused)
    <3>1. x # NoId /\ x[1] = o /\ exch'[x] # NoOrder
      BY <2>5, <2>10, <2>11, PendingType
    <3>2. CopyOK(exch', o, r)
      BY <2>1, <2>9, CopyKept
    <3> HIDE DEF sent, refused
    <3> QED BY <2>13, <3>1, <3>2 DEF CopyOK, OpenStatus, DoneStatus
  <2>15. worker' = [worker EXCEPT ![w] = u]
    BY <1>6 DEF SendAccepted
  <2>16. u \in WorkerStates /\ WorkerCopy(exch', u)
    <3> HIDE DEF sent, refused, x
    <3>1. x # NoId
      BY <2>5, PendingType
    <3> QED BY <2>1, <2>13, <2>14, <3>1, StatesMade DEF WorkerCopy
  <2>17. lost' \subseteq ExchangeIds /\ late' \in [Workers -> Nat]
    BY <1>6, <2>5 DEF SendAccepted, TypeOK
  <2>18. UNCHANGED <<gate, row, query, sweep, crashes, raced, trades, reverted>>
    BY <1>6 DEF SendAccepted
  <2> HIDE DEF x, y, u
  <2> QED BY <1>e, <2>5, <2>6, <2>7, <2>9, <2>12, <2>15, <2>16, <2>17, <2>18
<1>7. CASE SendRefused(w)
  <2> DEFINE o == worker[w].order
             r == [worker[w].copy EXCEPT !.status = "rejected"]
             u == [at |-> "reject", order |-> o, copy |-> r]
  <2>1. /\ o \in Orders /\ worker[w].copy \in Rows
        /\ CopyOK(exch, o, worker[w].copy)
    BY <1>7, StatesType DEF SendRefused, CopiesInv, WorkerCopies, WorkerCopy
  <2>2. r \in Rows /\ r.status = "rejected" /\ r.xid = worker[w].copy.xid
    BY <2>1, RowFields
  <2>6. CopyOK(exch, o, r)
    BY <2>1, <2>2 DEF CopyOK, OpenStatus
  <2> HIDE DEF r
  <2>3. u \in WorkerStates
    BY <2>1, <2>2, StatesMade
  <2>4. WorkerCopy(exch, u)
    BY <2>2, <2>6 DEF WorkerCopy
  <2>5. worker' = [worker EXCEPT ![w] = u]
    BY <1>7 DEF SendRefused, r
  <2> QED BY <1>7, <1>a, <2>3, <2>4, <2>5 DEF SendRefused, TypeOK
<1>8. CASE Cancel(w)
  <2> DEFINE o == worker[w].order
             r == worker[w].copy
             x == r.xid
             y == [exch[x] EXCEPT !.status = "canceled"]
             done == [r EXCEPT !.status = "canceled"]
             u == [at |-> "store", order |-> o, copy |-> done]
  <2>0. CASE UNCHANGED exch /\ DoReturn(w)
    BY <1>8, <1>d, <2>0 DEF Cancel, TypeOK
  <2>1. CASE exch[x].status \in OpenStatus /\ exch' = [exch EXCEPT ![x].status = "canceled"]
    <3>1. /\ o \in Orders /\ r \in Rows /\ CopyOK(exch, o, r) /\ r.status \in OpenStatus
          /\ worker[w] = [at |-> "cancel", order |-> o, copy |-> r]
      <4>1. worker[w].at = "cancel" /\ worker[w] \in WorkerStates /\ WorkerCopy(exch, worker[w])
        BY <1>8 DEF Cancel, TypeOK, CopiesInv, WorkerCopies
      <4>2. /\ o \in Orders /\ r \in Rows
            /\ worker[w] = [at |-> "cancel", order |-> o, copy |-> r]
        BY <4>1 DEF WorkerStates, IdleWorker
      <4> QED BY <4>1, <4>2 DEF WorkerCopy
    <3>2. x \in ExchangeIds /\ x # NoId /\ x[1] = o
      BY <3>1 DEF CopyOK, Rows
    <3>3. exch \in Exchanges /\ exch[x] \in ExchangeOrders
      BY <2>1, <3>2 DEF TypeOK, Exchanges, NoOrder, OpenStatus
    <3>4. y \in ExchangeOrders /\ y.status = "canceled"
      BY <3>3, ExchangeOrdersMade
    <3>5. exch' = [exch EXCEPT ![x] = y]
      BY <2>1, <3>2, <3>3 DEF Exchanges
    <3>6. Grows(exch, exch')
      <4>1. exch[x].status \in OpenStatus
        BY <2>1
      <4> HIDE DEF x, y
      <4>2. Grows(exch, [exch EXCEPT ![x] = y])
        BY <3>2, <3>3, <3>4, <4>1, GrowsOpen
      <4> QED BY <3>5, <4>2
    <3>7. \A z \in ExchangeIds : exch'[z] = IF z = x THEN y ELSE exch[z]
      BY <3>3, <3>5 DEF Exchanges
    <3>8. exch[x] # NoOrder /\ y # NoOrder
      BY <3>3, <3>4, PendingType
    <3>9. ExchangeOK'
      <4>1. \A z \in ExchangeIds : exch'[z].status = "filled" => exch'[z].filled = 2
        BY <3>4, <3>7 DEF CopiesInv, ExchangeOK
      <4>2. \A z \in ExchangeIds : exch'[z] # NoOrder <=> exch[z] # NoOrder
        BY <3>7, <3>8
      <4>3. \A i \in Orders, j \in 1..MaxSends : <<i, j>> \in ExchangeIds
        BY DEF ExchangeIds
      <4> QED BY <4>1, <4>2, <4>3 DEF CopiesInv, ExchangeOK
    <3>10. done \in Rows /\ done.status = "canceled" /\ done.xid = x
      BY <3>1, RowFields
    <3>11. CopyOK(exch', o, done)
      <4> HIDE DEF done, x, y
      <4> QED BY <3>2, <3>4, <3>7, <3>8, <3>10 DEF CopyOK, OpenStatus, DoneStatus
    <3>12. u \in WorkerStates /\ WorkerCopy(exch', u)
      <4> HIDE DEF done, x, y
      <4> QED BY <3>1, <3>2, <3>10, <3>11, StatesMade DEF WorkerCopy
    <3>13. UNCHANGED <<gate, row, query, sweep, crashes, raced, lost, late, trades, reverted>>
      BY <1>8 DEF Cancel
    <3>14. WorkerCopy(exch', IdleWorker)
      BY DEF WorkerCopy, IdleWorker
    <3>15. CASE worker' = [worker EXCEPT ![w].at = "store", ![w].copy.status = "canceled"]
      <4>1. worker' = [worker EXCEPT ![w] = u]
        <5>1. worker' = [worker EXCEPT ![w] =
                [worker[w] EXCEPT !.at = "store", !.copy.status = "canceled"]]
          BY <3>15 DEF TypeOK
        <5>2. [worker[w] EXCEPT !.at = "store", !.copy.status = "canceled"] = u
          <6> DEFINE v == [worker[w] EXCEPT !.at = "store", !.copy.status = "canceled"]
          <6>1. worker[w] \in [at: {"cancel"}, order: Orders, copy: Rows]
            BY <3>1
          <6>2. v \in [at: {"store"}, order: Orders, copy: {done}] /\ v.order = o
            BY <6>1
          <6> HIDE DEF v
          <6>3. v = u
            BY <6>2
          <6> QED BY <6>3 DEF v
        <5> QED BY <5>1, <5>2
      <4> HIDE DEF x, y, u
      <4> QED BY <1>e, <3>2, <3>4, <3>5, <3>6, <3>9, <3>12, <3>13, <4>1 DEF TypeOK
    <3>16. CASE DoReturn(w)
      <4> HIDE DEF x, y
      <4> QED BY <1>e, <3>2, <3>4, <3>5, <3>6, <3>9, <3>13, <3>14, <3>16, StatesMade
              DEF TypeOK, DoReturn
    <3> QED BY <1>8, <3>13, <3>15, <3>16, <2>0, <2>1 DEF Cancel
  <2> QED BY <1>8, <2>0, <2>1 DEF Cancel
<1>9. CASE Store(w)
  <2>1. /\ worker[w].order \in Orders /\ worker[w].copy \in Rows
        /\ CopyOK(exch, worker[w].order, worker[w].copy)
    BY <1>9, StatesType DEF Store, CopiesInv, WorkerCopies, WorkerCopy
  <2> QED BY <1>9, <1>c, <2>1 DEF Store
<1>10. CASE StoreFails(w)
  <2>1. Unstored(w) \subseteq ExchangeIds
    <3>1. worker[w].copy \in Rows /\ WorkerCopy(exch, worker[w])
      BY <1>10, StatesType DEF StoreFails, CopiesInv, WorkerCopies
    <3> QED BY <3>1 DEF Unstored, WorkerCopy, Rows
  <2> QED BY <1>10, <1>d, <2>1 DEF StoreFails, TypeOK
<1> QED BY <1>1, <1>2, <1>3, <1>4, <1>5, <1>6, <1>7, <1>8, <1>9, <1>10 DEF WorkerStep

-----------------------------------------------------------------------------
(* Steps of the two reconciliations. *)

\* A list that loses a row holds true copies still.
LEMMA TodoShrinks ==
  ASSUME NEW e, NEW f \in Todos, NEW k, TodoCopies(e, f)
  PROVE  TodoCopies(e, Without(f, k))
<1>1. \A o \in DOMAIN Without(f, k) : o \in DOMAIN f /\ Without(f, k)[o] = f[o]
  BY WithoutType
<1> QED BY <1>1 DEF TodoCopies

\* ListActive yields true copies of open rows.
LEMMA ActiveCopies ==
  ASSUME TypeOK, RowCopies
  PROVE  TodoCopies(exch, ActiveRows)
BY ActiveType DEF TodoCopies, RowCopies

\* The answer of the exchange makes a copy of the row true, or pending.
LEMMA AdoptCopy ==
  ASSUME TypeOK, ExchangeOK, NEW o \in Orders, NEW r \in Rows, CopyOK(exch, o, r), r.xid # NoId,
         NEW seen \in Reads(r.xid)
  PROVE  /\ Adopt(r, seen) \in Rows
         /\ Adopt(r, seen).xid = r.xid
         /\ Adopt(r, seen).status = "pending" \/ Adopt(r, seen).status = exch[r.xid].status
         /\ CopyOK(exch, o, Adopt(r, seen))
<1> DEFINE x == r.xid
<1>1. x \in ExchangeIds /\ exch[x] # NoOrder /\ x[1] = o
  BY DEF CopyOK, Rows
<1>2. exch[x] \in ExchangeOrders
  BY <1>1 DEF TypeOK
<1>a. seen \in Answers /\ (seen = exch[x] \/ seen.status = "pending")
  BY <1>2, ReadsType
<1>3. /\ Adopt(r, seen) \in Rows /\ Adopt(r, seen).xid = x
      /\ Adopt(r, seen).status = seen.status
  BY <1>a, AdoptType
<1>4. exch[x].status \in OpenStatus \cup DoneStatus
  BY <1>2 DEF ExchangeOrders
<1>5. exch[x].status = "filled" => exch[x] = [status |-> "filled", filled |-> 2]
  BY <1>1, <1>2 DEF ExchangeOK, ExchangeOrders
<1> HIDE DEF x
<1>6. CopyOK(exch, o, Adopt(r, seen))
  BY <1>1, <1>a, <1>3, <1>4, <1>5 DEF CopyOK, OpenStatus, DoneStatus, x
<1> QED BY <1>a, <1>3, <1>6 DEF x

\* A reconciliation that writes a copy counts the ones that are pending.
LEMMA WritesCount ==
  ASSUME TypeOK, NEW o \in Orders, NEW r \in Rows, Writes(o, r)
  PROVE  /\ row' = [row EXCEPT ![o] = r] /\ reverted' \in [Orders -> Nat]
         /\ r.status = "pending" => reverted'[o] > 0 /\ reverted'[o] = reverted[o] + 1
         /\ \A i \in Orders : i # o \/ r.status # "pending" => reverted'[i] = reverted[i]
BY DEF Writes, TypeOK

LEMMA QueryStepKeeps ==
  ASSUME TypeOK, CopiesInv, QueryStep
  PROVE  TypeOK' /\ CopiesInv'
<1> USE GrowsSame
<1>a. ASSUME query' \in QueryStates, QueryCopies',
             UNCHANGED <<gate, row, exch, worker, sweep, crashes, lost, raced, late, trades, reverted>>
      PROVE  TypeOK' /\ CopiesInv'
  BY <1>a, RowsFrame, WorkersFrame, SweepFrame, ExchangeFrame DEF TypeOK, CopiesInv
<1>b. ASSUME query' = IdleReconciler PROVE query' \in QueryStates /\ QueryCopies'
  BY <1>b, StatesMade DEF QueryCopies, IdleReconciler
<1>c. ASSUME NEW f \in Todos, TodoCopies(exch, f), query' = [at |-> "each", todo |-> f], exch' = exch
      PROVE  query' \in QueryStates /\ QueryCopies'
  BY <1>c, StatesMade DEF QueryCopies
<1>1. CASE QueryList
  <2>1. ActiveRows \in Todos /\ TodoCopies(exch, ActiveRows)
    BY ActiveType, ActiveCopies DEF CopiesInv
  <2> HIDE DEF ActiveRows
  <2> QED BY <1>1, <1>a, <1>c, <2>1 DEF QueryList
<1>2. ASSUME NEW o \in Orders, Query(o) PROVE TypeOK' /\ CopiesInv'
  <2> DEFINE r == query.todo[o]
             rest == Without(query.todo, o)
  <2>0. PICK seen \in Reads(r.xid) :
          query' = [at |-> "store", todo |-> rest, order |-> o, copy |-> Adopt(r, seen)]
    BY <1>2 DEF Query
  <2> DEFINE new == Adopt(r, seen)
  <2>1. query.todo \in Todos /\ TodoCopies(exch, query.todo)
    BY <1>2, StatesType DEF Query, CopiesInv, QueryCopies
  <2>2. r \in Rows /\ CopyOK(exch, o, r) /\ r.xid # NoId
    BY <1>2, <2>1, TodosType DEF Query, TodoCopies
  <2>3. rest \in Todos /\ TodoCopies(exch, rest)
    BY <2>1, WithoutType, TodoShrinks
  <2>4. new \in Rows /\ new.xid = r.xid /\ CopyOK(exch, o, new)
    BY <2>2, AdoptCopy DEF CopiesInv
  <2>5. /\ query' = [at |-> "store", todo |-> rest, order |-> o, copy |-> new]
        /\ UNCHANGED <<gate, row, exch, worker, sweep, crashes, lost, raced, late, trades, reverted>>
    BY <1>2, <2>0 DEF Query
  <2> HIDE DEF rest, new, r
  <2>6. query' \in QueryStates
    BY <2>3, <2>4, <2>5, StatesMade
  <2>7. QueryCopies'
    BY <2>2, <2>3, <2>4, <2>5 DEF QueryCopies
  <2> QED BY <1>a, <2>5, <2>6, <2>7
<1>3. ASSUME NEW o \in Orders, QueryFails(o) PROVE TypeOK' /\ CopiesInv'
  <2> DEFINE rest == Without(query.todo, o)
  <2>1. query.at = "each" /\ query.todo \in Todos /\ TodoCopies(exch, query.todo)
    BY <1>3, StatesType DEF QueryFails, CopiesInv, QueryCopies
  <2>2. rest \in Todos /\ TodoCopies(exch, rest)
    BY <2>1, WithoutType, TodoShrinks
  <2>3. query \in [at: {"each"}, todo: Todos]
    BY <2>1 DEF TypeOK, QueryStates, IdleReconciler
  <2>4. query' = [query EXCEPT !.todo = rest]
    BY <1>3 DEF QueryFails
  <2> HIDE DEF rest
  <2>5. query' \in [at: {"each"}, todo: Todos] /\ query'.todo = rest
    BY <2>2, <2>3, <2>4
  <2>6. query' = [at |-> "each", todo |-> rest]
    BY <2>5
  <2> QED BY <1>3, <1>a, <1>c, <2>2, <2>6 DEF QueryFails
<1>4. CASE QueryStore
  <2>1. /\ query.todo \in Todos /\ TodoCopies(exch, query.todo)
        /\ query.order \in Orders /\ query.copy \in Rows
        /\ CopyOK(exch, query.order, query.copy)
    BY <1>4, StatesType DEF QueryStore, CopiesInv, QueryCopies
  <2>a. /\ row' = [row EXCEPT ![query.order] = query.copy] /\ reverted' \in [Orders -> Nat]
        /\ exch' = exch
    BY <1>4, <2>1, WritesCount DEF QueryStore
  <2>2. RowCopies' /\ row' \in [Orders -> Rows \cup {NoRow}]
    BY <2>1, <2>a, RowsWrite DEF CopiesInv
  <2>3. query' \in QueryStates /\ QueryCopies'
    BY <1>4, <1>c, <2>1 DEF QueryStore
  <2> QED BY <1>4, <2>a, <2>2, <2>3, WorkersFrame, SweepFrame, ExchangeFrame
          DEF QueryStore, TypeOK, CopiesInv
<1>5. CASE QueryEnds
  BY <1>5, <1>a, <1>b DEF QueryEnds
<1> QED BY <1>1, <1>2, <1>3, <1>4, <1>5 DEF QueryStep

\* A row whose exchange order is missing from the open ones is rightly closed,
\* one that is among them takes over a state the order has had.
LEMMA SweptCopy ==
  ASSUME TypeOK, CopiesInv, sweep.at = "each", NEW o \in DOMAIN sweep.todo
  PROVE  /\ o \in Orders /\ sweep.todo[o].xid # NoId
         /\ Swept(sweep.todo[o], sweep.open) \in Rows
         /\ Swept(sweep.todo[o], sweep.open).xid = sweep.todo[o].xid
         /\ Swept(sweep.todo[o], sweep.open).status # "rejected"
         /\ CopyOK(exch, o, Swept(sweep.todo[o], sweep.open))
<1> DEFINE r == sweep.todo[o]
<1>1. /\ o \in Orders /\ r \in Rows /\ CopyOK(exch, o, r) /\ r.status \in OpenStatus
  BY StatesType, TodosType DEF CopiesInv, SweepCopies, TodoCopies
<1>2. r.xid \in ExchangeIds /\ r.xid # NoId /\ exch[r.xid] # NoOrder /\ r.xid[1] = o
  BY <1>1 DEF CopyOK, Rows
<1>3. CASE r.xid \in DOMAIN sweep.open
  <2>1. /\ sweep.open[r.xid] \in Answers
        /\ sweep.open[r.xid].status \in {"pending"} \cup OpenStatus
    BY <1>3, StatesType DEF CopiesInv, SweepCopies
  <2>2. /\ Adopt(r, sweep.open[r.xid]) \in Rows
        /\ Adopt(r, sweep.open[r.xid]).xid = r.xid
        /\ Adopt(r, sweep.open[r.xid]).status = sweep.open[r.xid].status
    BY <1>1, <2>1, AdoptType
  <2>3. Swept(r, sweep.open) = Adopt(r, sweep.open[r.xid])
    BY <1>3 DEF Swept
  <2> HIDE DEF r
  <2>4. CopyOK(exch, o, Adopt(r, sweep.open[r.xid]))
    BY <1>2, <2>1, <2>2 DEF CopyOK, OpenStatus, DoneStatus
  <2> QED BY <1>1, <1>2, <2>1, <2>2, <2>3, <2>4 DEF r, OpenStatus
<1>4. CASE r.xid \notin DOMAIN sweep.open
  <2>1. exch[r.xid].status \in DoneStatus
    BY <1>4 DEF CopiesInv, SweepCopies
  <2>2. Swept(r, sweep.open) = [r EXCEPT !.status = "canceled"]
    BY <1>4 DEF Swept
  <2> HIDE DEF r
  <2>3. /\ Swept(r, sweep.open) \in Rows /\ Swept(r, sweep.open).xid = r.xid
        /\ Swept(r, sweep.open).status = "canceled"
    <3>1. r \in Rows
      BY <1>1
    <3>2. /\ [r EXCEPT !.status = "canceled"] \in Rows
          /\ [r EXCEPT !.status = "canceled"].xid = r.xid
          /\ [r EXCEPT !.status = "canceled"].status = "canceled"
      BY <3>1, RowFields
    <3> QED BY <2>2, <3>2
  <2>4. CopyOK(exch, o, Swept(r, sweep.open))
    BY <1>2, <2>1, <2>3 DEF CopyOK, OpenStatus, DoneStatus
  <2> QED BY <1>1, <1>2, <2>3, <2>4 DEF r
<1> QED BY <1>3, <1>4

LEMMA SweepStepKeeps ==
  ASSUME TypeOK, CopiesInv, SweepStep
  PROVE  TypeOK' /\ CopiesInv'
<1> USE GrowsSame
<1>a. ASSUME sweep' \in SweepStates, SweepCopies',
             UNCHANGED <<gate, row, exch, worker, query, crashes, lost, raced, late, trades, reverted>>
      PROVE  TypeOK' /\ CopiesInv'
  BY <1>a, RowsFrame, WorkersFrame, QueryFrame, ExchangeFrame DEF TypeOK, CopiesInv
<1>b. ASSUME NEW o \in DOMAIN sweep.todo, sweep.at = "each", exch' = exch,
             sweep' = [sweep EXCEPT !.todo = Without(@, o)]
      PROVE  sweep' \in SweepStates /\ SweepCopies'
  <2> DEFINE rest == Without(sweep.todo, o)
             Opens == UNION {[S -> Answers] : S \in SUBSET ExchangeIds}
  <2>1. sweep.todo \in Todos /\ TodoCopies(exch, sweep.todo)
    BY <1>b, StatesType DEF CopiesInv, SweepCopies
  <2>2. /\ rest \in Todos /\ TodoCopies(exch, rest) /\ DOMAIN rest \subseteq DOMAIN sweep.todo
        /\ \A i \in DOMAIN rest : rest[i] = sweep.todo[i]
    BY <2>1, WithoutType, TodoShrinks
  <2>3. sweep \in [at: {"each"}, todo: Todos, open: Opens]
    BY <1>b DEF TypeOK, SweepStates, IdleReconciler
  <2>4. sweep' = [sweep EXCEPT !.todo = rest]
    BY <1>b
  <2> HIDE DEF rest, Opens
  <2>5. /\ sweep' \in [at: {"each"}, todo: Todos, open: Opens]
        /\ sweep'.todo = rest /\ sweep'.open = sweep.open
    BY <2>2, <2>3, <2>4
  <2>6. sweep' \in SweepStates
    BY <2>5 DEF SweepStates, Opens
  <2>7. SweepCopies'
    BY <1>b, <2>2, <2>5 DEF SweepCopies, CopiesInv
  <2> QED BY <2>6, <2>7
<1>1. CASE SweepList
  <2>1. ActiveRows \in Todos /\ TodoCopies(exch, ActiveRows)
    BY ActiveType, ActiveCopies DEF CopiesInv
  <2> HIDE DEF ActiveRows
  <2>2. sweep' = [at |-> "open", todo |-> ActiveRows] /\ exch' = exch
    BY <1>1 DEF SweepList
  <2>3. sweep' \in SweepStates /\ SweepCopies'
    BY <2>1, <2>2, StatesMade DEF SweepCopies
  <2> QED BY <1>1, <1>a, <2>3 DEF SweepList
<1>2. CASE SweepOpen
  <2> DEFINE Opens == UNION {[S -> Answers] : S \in SUBSET ExchangeIds}
             D == OpenIds
  <2>0. PICK open \in OpenOrders :
          sweep' = [at |-> "each", todo |-> sweep.todo, open |-> open]
    BY <1>2 DEF SweepOpen
  <2>1. sweep.todo \in Todos /\ TodoCopies(exch, sweep.todo)
    BY <1>2, StatesType DEF SweepOpen, CopiesInv, SweepCopies
  <2>2. \A x \in D : x \in ExchangeIds /\ exch[x] \in ExchangeOrders /\ exch[x].status \in OpenStatus
    BY DEF OpenIds, TypeOK, NoOrder, OpenStatus
  <2>3. /\ DOMAIN open = D /\ open = [x \in D |-> open[x]]
        /\ \A x \in D : open[x] \in Answers /\ open[x].status \in {"pending"} \cup OpenStatus
    <3>1. open \in [D -> UNION {Reads(x) : x \in D}] /\ \A x \in D : open[x] \in Reads(x)
      BY <2>0 DEF OpenOrders
    <3> QED BY <2>2, <3>1, ReadsType
  <2>4. open \in Opens
    <3>1. open \in [D -> Answers] /\ D \in SUBSET ExchangeIds
      BY <2>2, <2>3
    <3> QED BY <3>1
  <2>5. sweep' = [at |-> "each", todo |-> sweep.todo, open |-> open] /\ exch' = exch
    BY <1>2, <2>0 DEF SweepOpen
  <2>6. \A o \in DOMAIN sweep.todo :
          sweep.todo[o].xid \notin D => exch[sweep.todo[o].xid].status \in DoneStatus
    <3> SUFFICES ASSUME NEW o \in DOMAIN sweep.todo, sweep.todo[o].xid \notin D
                 PROVE  exch[sweep.todo[o].xid].status \in DoneStatus
      OBVIOUS
    <3>1. sweep.todo[o] \in Rows /\ CopyOK(exch, o, sweep.todo[o]) /\ sweep.todo[o].status \in OpenStatus
      BY <2>1, TodosType DEF TodoCopies
    <3>2. sweep.todo[o].xid \in ExchangeIds /\ exch[sweep.todo[o].xid] # NoOrder
      BY <3>1 DEF CopyOK, Rows
    <3>3. exch[sweep.todo[o].xid] \in ExchangeOrders
      BY <3>2 DEF TypeOK
    <3> QED BY <3>2, <3>3 DEF ExchangeOrders, OpenIds
  <2>7. sweep' \in SweepStates
    BY <2>1, <2>4, <2>5 DEF SweepStates
  <2>8. SweepCopies'
    BY <2>1, <2>3, <2>5, <2>6 DEF SweepCopies
  <2> QED BY <1>2, <1>a, <2>7, <2>8 DEF SweepOpen
<1>3. ASSUME NEW o \in Orders, SweepStore(o) PROVE TypeOK' /\ CopiesInv'
  <2> DEFINE swept == Swept(sweep.todo[o], sweep.open)
  <2>1. sweep' \in SweepStates /\ SweepCopies'
    BY <1>3, <1>b DEF SweepStore
  <2>2. swept \in Rows /\ CopyOK(exch, o, swept)
    BY <1>3, SweptCopy DEF SweepStore
  <2>3. UNCHANGED <<gate, exch, worker, query, crashes, lost, raced, late, trades>>
    BY <1>3 DEF SweepStore
  <2>4. CASE swept = sweep.todo[o]
    BY <1>3, <1>a, <2>1, <2>4 DEF SweepStore
  <2>5. CASE swept # sweep.todo[o]
    <3>0. Writes(o, swept)
      BY <1>3, <2>5 DEF SweepStore
    <3> HIDE DEF swept
    <3>1. row' = [row EXCEPT ![o] = swept] /\ reverted' \in [Orders -> Nat]
      BY <2>2, <3>0, WritesCount
    <3>2. RowCopies' /\ row' \in [Orders -> Rows \cup {NoRow}]
      BY <2>2, <2>3, <3>1, RowsWrite DEF CopiesInv
    <3> QED BY <2>1, <2>3, <3>1, <3>2, WorkersFrame, QueryFrame, ExchangeFrame DEF TypeOK, CopiesInv
  <2> QED BY <2>4, <2>5
<1>4. ASSUME NEW o \in Orders, SweepStoreFails(o) PROVE TypeOK' /\ CopiesInv'
  BY <1>4, <1>a, <1>b DEF SweepStoreFails
<1>5. CASE SweepEnds
  <2>1. sweep' \in SweepStates /\ SweepCopies'
    BY <1>5, StatesMade DEF SweepEnds, SweepCopies, IdleReconciler
  <2> QED BY <1>5, <1>a, <2>1 DEF SweepEnds
<1> QED BY <1>1, <1>2, <1>3, <1>4, <1>5 DEF SweepStep

-----------------------------------------------------------------------------
(* Every step keeps the copies true. *)

LEMMA CopiesStep == TypeOK /\ CopiesInv /\ [Next]_vars => TypeOK' /\ CopiesInv'
<1> SUFFICES ASSUME TypeOK, CopiesInv, [Next]_vars PROVE TypeOK' /\ CopiesInv'
  OBVIOUS
<1> USE GrowsSame, BoundsAssumption
<1>1. ASSUME NEW w \in Workers, WorkerStep(w) PROVE TypeOK' /\ CopiesInv'
  BY <1>1, WorkerStepKeeps
<1>2. CASE QueryStep
  BY <1>2, QueryStepKeeps
<1>3. CASE SweepStep
  BY <1>3, SweepStepKeeps
<1>4. ASSUME NEW x \in ExchangeIds, Fill(x) \/ ExchangeCloses(x) PROVE TypeOK' /\ CopiesInv'
  <2>2. exch[x].status \in OpenStatus
    BY <1>4 DEF Fill, ExchangeCloses, OpenStatus
  <2>1. PICK y \in ExchangeOrders : exch' = [exch EXCEPT ![x] = y] /\ (y.status = "filled" => y.filled = 2)
    <3>1. CASE Fill(x)
      BY <3>1, ExchangeOrdersMade DEF Fill
    <3>2. CASE ExchangeCloses(x)
      <4>1. PICK status \in {"canceled", "rejected"} : exch' = [exch EXCEPT ![x].status = status]
        BY <3>2 DEF ExchangeCloses
      <4>2. exch[x] \in ExchangeOrders
        BY <2>2 DEF TypeOK, NoOrder, OpenStatus
      <4> QED BY <4>1, <4>2, ExchangeOrdersMade
    <3> QED BY <1>4, <3>1, <3>2
  <2>3. exch \in Exchanges /\ exch[x] # NoOrder
    BY <2>2 DEF TypeOK, Exchanges, NoOrder, OpenStatus
  <2>4. Grows(exch, exch')
    BY <2>1, <2>2, <2>3, GrowsOpen
  <2>5. \A z \in ExchangeIds : exch'[z] = IF z = x THEN y ELSE exch[z]
    BY <2>1, <2>3 DEF Exchanges
  <2>6. ExchangeOK'
    <3>1. \A z \in ExchangeIds : exch'[z].status = "filled" => exch'[z].filled = 2
      BY <2>1, <2>5 DEF CopiesInv, ExchangeOK
    <3>2. \A z \in ExchangeIds : exch'[z] # NoOrder <=> exch[z] # NoOrder
      BY <2>1, <2>3, <2>5, PendingType
    <3>3. \A i \in Orders, j \in 1..MaxSends :
            exch'[<<i, j>>] # NoOrder <=> exch[<<i, j>>] # NoOrder
      BY <3>2 DEF ExchangeIds
    <3> QED BY <3>1, <3>3 DEF CopiesInv, ExchangeOK
  <2>7. UNCHANGED <<gate, row, worker, query, sweep, crashes, lost, raced, late, trades, reverted>>
    BY <1>4 DEF Fill, ExchangeCloses
  <2> QED BY <2>1, <2>3, <2>4, <2>6, <2>7, RowsFrame, WorkersFrame, QueryFrame, SweepFrame
          DEF TypeOK, CopiesInv
<1>5. CASE SwitchGate \/ SwitchTrading
  <2>a. gate' \in BOOLEAN /\ trades' \in BOOLEAN
    <3>1. gate \in BOOLEAN /\ trades \in BOOLEAN
      BY DEF TypeOK
    <3>2. (gate' = ~gate \/ gate' = gate) /\ (trades' = ~trades \/ trades' = trades)
      BY <1>5 DEF SwitchGate, SwitchTrading
    <3> QED BY ONLY <3>1, <3>2
  <2>b. late' \in [Workers -> Nat]
    BY <1>5 DEF SwitchGate, SwitchTrading, TypeOK
  <2>1. /\ gate' \in BOOLEAN /\ late' \in [Workers -> Nat] /\ trades' \in BOOLEAN
        /\ UNCHANGED <<row, exch, worker, query, sweep, crashes, lost, raced, reverted>>
    BY <1>5, <2>a, <2>b DEF SwitchGate, SwitchTrading
  <2> QED BY <2>1, RowsFrame, WorkersFrame, QueryFrame, SweepFrame, ExchangeFrame
          DEF TypeOK, CopiesInv
<1>6. CASE Crash
  <2>1. \A w \in Workers : Unstored(w) \subseteq ExchangeIds
    <3> SUFFICES ASSUME NEW w \in Workers, worker[w].at = "store" PROVE worker[w].copy.xid \in ExchangeIds
      BY DEF Unstored
    <3> QED BY StatesType DEF CopiesInv, WorkerCopies, WorkerCopy, Rows
  <2>2. WorkerCopies' /\ worker' \in [Workers -> WorkerStates]
    BY <1>6, StatesMade DEF Crash, WorkerCopies, WorkerCopy, IdleWorker
  <2>3. QueryCopies' /\ SweepCopies' /\ query' \in QueryStates /\ sweep' \in SweepStates
    BY <1>6, StatesMade DEF Crash, QueryCopies, SweepCopies, IdleReconciler
  <2>4. lost' \subseteq ExchangeIds
    BY <1>6, <2>1 DEF Crash, TypeOK
  <2>5. crashes' \in 0..MaxCrashes
    BY <1>6 DEF Crash, TypeOK
  <2> QED BY <1>6, <2>2, <2>3, <2>4, <2>5, RowsFrame, ExchangeFrame DEF Crash, TypeOK, CopiesInv
<1>7. CASE UNCHANGED vars
  BY <1>7, RowsFrame, WorkersFrame, QueryFrame, SweepFrame, ExchangeFrame
     DEF vars, TypeOK, CopiesInv
<1> QED BY <1>1, <1>2, <1>3, <1>4, <1>5, <1>6, <1>7 DEF Next

\* They are true throughout, and every variable has its type.
LEMMA CopiesInvariant == Spec => [](TypeOK /\ CopiesInv)
<1>1. Init => TypeOK /\ CopiesInv
  <2> SUFFICES ASSUME Init PROVE TypeOK /\ CopiesInv
    OBVIOUS
  <2> USE BoundsAssumption
  <2>1. \A x \in ExchangeIds : exch[x] = NoOrder
    BY DEF Init
  <2>2. ExchangeOK
    <3>1. \A i \in Orders : 0 \in 0..MaxSends /\ \A j \in 1..MaxSends : ~(exch[<<i, j>>] # NoOrder) /\ ~(j <= 0)
      BY <2>1 DEF ExchangeIds
    <3> QED BY <2>1, <3>1 DEF ExchangeOK, NoOrder
  <2>3. RowCopies /\ WorkerCopies /\ QueryCopies /\ SweepCopies
    BY DEF Init, RowCopies, WorkerCopies, WorkerCopy, QueryCopies, SweepCopies, IdleWorker, IdleReconciler
  <2>4. TypeOK
    BY StatesMade DEF Init, TypeOK
  <2> QED BY <2>2, <2>3, <2>4 DEF CopiesInv
<1> QED BY <1>1, CopiesStep, PTL DEF Spec

\* The rows, the exchange and every call in progress keep their types, for any
\* number of orders and goroutines: no interleaving makes a list or a copy a call
\* holds stand for no row, and an adopted state is always one the exchange has
\* for the order.
THEOREM TypeCorrect == Spec => []TypeOK
BY CopiesInvariant, PTL

-----------------------------------------------------------------------------
(* What a step does to rows, counts and closed orders. *)

\* Two submissions that met have met for good.
LEMMA RacedGrows == ASSUME [Next]_vars PROVE raced \subseteq raced'
<1>1. ASSUME NEW w \in Workers, WorkerStep(w) PROVE raced \subseteq raced'
  BY <1>1 DEF WorkerStep, EnterCreate, Create, EnterSubmit, EnterCancel, LoadPending,
              SendAccepted, SendRefused, Cancel, Store, StoreFails
<1>2. CASE QueryStep
  BY <1>2 DEF QueryStep, QueryList, Query, QueryFails, QueryStore, QueryEnds
<1>3. CASE SweepStep
  BY <1>3 DEF SweepStep, SweepList, SweepOpen, SweepStore, SweepStoreFails, SweepEnds
<1> QED BY <1>1, <1>2, <1>3 DEF Next, Fill, ExchangeCloses, SwitchGate, SwitchTrading, Crash, vars

\* A count of how often a row was made pending again only grows.
LEMMA RevertedGrows ==
  ASSUME TypeOK, CopiesInv, [Next]_vars, NEW o \in Orders
  PROVE  reverted[o] \in Nat /\ reverted'[o] \in {reverted[o], reverted[o] + 1}
<1>t. reverted \in [Orders -> Nat]
  BY DEF TypeOK
<1>1. ASSUME NEW w \in Workers, WorkerStep(w) PROVE reverted' = reverted
  BY <1>1 DEF WorkerStep, EnterCreate, Create, EnterSubmit, EnterCancel, LoadPending,
              SendAccepted, SendRefused, Cancel, Store, StoreFails
<1>2. ASSUME NEW i \in Orders, NEW r, Writes(i, r)
      PROVE  reverted'[o] \in {reverted[o], reverted[o] + 1}
  BY <1>t, <1>2 DEF Writes
<1>3. CASE QueryStep
  <2>1. QueryStore \/ reverted' = reverted
    BY <1>3 DEF QueryStep, QueryList, Query, QueryFails, QueryEnds
  <2>2. CASE QueryStore
    <3>1. query.order \in Orders /\ Writes(query.order, query.copy)
      BY <2>2, StatesType DEF QueryStore
    <3> QED BY <1>t, <1>2, <3>1
  <2> QED BY <1>t, <2>1, <2>2
<1>4. CASE SweepStep
  <2>1. (\E i \in Orders : SweepStore(i)) \/ reverted' = reverted
    BY <1>4 DEF SweepStep, SweepList, SweepOpen, SweepStoreFails, SweepEnds
  <2>2. ASSUME NEW i \in Orders, SweepStore(i)
        PROVE  reverted'[o] \in {reverted[o], reverted[o] + 1}
    <3>1. reverted' = reverted \/ Writes(i, Swept(sweep.todo[i], sweep.open))
      BY <2>2 DEF SweepStore
    <3> QED BY <1>2, <1>t, <3>1
  <2> QED BY <1>t, <2>1, <2>2
<1> QED BY <1>t, <1>1, <1>3, <1>4
        DEF Next, Fill, ExchangeCloses, SwitchGate, SwitchTrading, Crash, vars

\* The four ways a row changes: it is inserted, a goroutine writes its copy over it,
\* the queries write theirs, or the sweep does, and these two count what they make
\* pending.
LEMMA RowWrites ==
  ASSUME TypeOK, CopiesInv, [Next]_vars, NEW o \in Orders, row'[o] # row[o]
  PROVE  \/ row[o] = NoRow /\ row'[o] = PendingRow
         \/ \E w \in Workers : /\ worker[w].at \in {"store", "reject"} /\ worker[w].order = o
                               /\ row'[o] = worker[w].copy
         \/ /\ query.at = "store" /\ query.order = o /\ row'[o] = query.copy
            /\ row'[o].status = "pending" => reverted'[o] > 0
         \/ /\ sweep.at = "each" /\ o \in DOMAIN sweep.todo /\ sweep' # sweep
            /\ row'[o] = Swept(sweep.todo[o], sweep.open)
            /\ row'[o].status = "pending" => reverted'[o] > 0
<1>t. row \in [Orders -> Rows \cup {NoRow}]
  BY DEF TypeOK
<1>1. ASSUME NEW w \in Workers, WorkerStep(w)
      PROVE  \/ row[o] = NoRow /\ row'[o] = PendingRow
             \/ /\ worker[w].at \in {"store", "reject"} /\ worker[w].order = o
                /\ row'[o] = worker[w].copy
  <2>1. ASSUME NEW i \in Orders, Create(w, i) PROVE row[o] = NoRow /\ row'[o] = PendingRow
    BY <1>t, <2>1 DEF Create
  <2>2. CASE Store(w)
    BY <1>t, <2>2 DEF Store
  <2>3. CASE row' = row
    BY <2>3
  <2> QED BY <1>1, <2>1, <2>2, <2>3
          DEF WorkerStep, EnterCreate, EnterSubmit, EnterCancel, LoadPending, SendAccepted,
              SendRefused, Cancel, StoreFails
<1>2. ASSUME QueryStep
      PROVE  /\ query.at = "store" /\ query.order = o /\ row'[o] = query.copy
             /\ row'[o].status = "pending" => reverted'[o] > 0
  <2>1. QueryStore
    BY <1>2 DEF QueryStep, QueryList, Query, QueryFails, QueryEnds
  <2>2. /\ query.at = "store" /\ query.order \in Orders /\ query.copy \in Rows
        /\ Writes(query.order, query.copy)
    BY <2>1, StatesType DEF QueryStore
  <2>3. /\ row' = [row EXCEPT ![query.order] = query.copy]
        /\ query.copy.status = "pending" => reverted'[query.order] > 0
    BY <2>2, WritesCount
  <2>4. query.order = o /\ row'[o] = query.copy
    BY <1>t, <2>3
  <2> QED BY <2>2, <2>3, <2>4
<1>3. ASSUME SweepStep
      PROVE  /\ sweep.at = "each" /\ o \in DOMAIN sweep.todo /\ sweep' # sweep
             /\ row'[o] = Swept(sweep.todo[o], sweep.open)
             /\ row'[o].status = "pending" => reverted'[o] > 0
  <2>1. PICK i \in Orders : SweepStore(i)
    BY <1>3 DEF SweepStep, SweepList, SweepOpen, SweepStoreFails, SweepEnds
  <2> DEFINE swept == Swept(sweep.todo[i], sweep.open)
  <2>a. /\ sweep.at = "each" /\ i \in DOMAIN sweep.todo
        /\ sweep' = [sweep EXCEPT !.todo = Without(sweep.todo, i)]
        /\ row' = row \/ Writes(i, swept)
    BY <2>1 DEF SweepStore
  <2>b. swept \in Rows
    BY <2>a, SweptCopy
  <2>c. Writes(i, swept)
    BY <2>a
  <2> HIDE DEF swept
  <2>d. /\ row' = [row EXCEPT ![i] = swept]
        /\ swept.status = "pending" => reverted'[i] > 0
    BY <2>b, <2>c, WritesCount
  <2>e. i = o /\ row'[o] = swept
    BY <1>t, <2>d
  <2>2. /\ sweep.at = "each" /\ o \in DOMAIN sweep.todo
        /\ row'[o] = Swept(sweep.todo[o], sweep.open)
        /\ row'[o].status = "pending" => reverted'[o] > 0
        /\ sweep' = [sweep EXCEPT !.todo = Without(sweep.todo, o)]
    BY <2>a, <2>d, <2>e DEF swept
  <2>3. DOMAIN Without(sweep.todo, o) = DOMAIN sweep.todo \ {o}
    BY <2>2, StatesType, WithoutType
  <2>4. sweep'.todo = Without(sweep.todo, o)
    BY <2>2 DEF TypeOK, SweepStates, IdleReconciler
  <2> QED BY <2>2, <2>3, <2>4
<1>4. row' = row \/ (\E w \in Workers : WorkerStep(w)) \/ QueryStep \/ SweepStep
  BY DEF Next, Fill, ExchangeCloses, SwitchGate, SwitchTrading, Crash, vars
<1> QED BY <1>1, <1>2, <1>3, <1>4

\* A submission makes an exchange order that did not exist.
LEMMA SendsNew ==
  ASSUME TypeOK, CopiesInv, NEW w \in Workers, NEW answered \in BOOLEAN,
         SendAccepted(w, answered)
  PROVE  LET x == <<worker[w].order, Cardinality(SentFor(worker[w].order)) + 1>> IN
         x \in ExchangeIds /\ exch[x] = NoOrder
<1> DEFINE o == worker[w].order
<1>1. o \in Orders
  BY StatesType DEF SendAccepted
<1> HIDE DEF o
<1>2. PICK k \in 0..MaxSends : \A i \in 1..MaxSends : exch[<<o, i>>] # NoOrder <=> i <= k
  BY <1>1 DEF CopiesInv, ExchangeOK
<1>3. Cardinality(SentFor(o)) = k
  BY <1>1, <1>2, SentCount
<1>4. k < MaxSends
  BY <1>3 DEF SendAccepted, o
<1>5. k + 1 \in 1..MaxSends /\ ~(k + 1 <= k)
  BY <1>4, BoundsAssumption
<1>6. <<o, k + 1>> \in ExchangeIds /\ exch[<<o, k + 1>>] = NoOrder
  BY <1>1, <1>2, <1>5 DEF ExchangeIds
<1> QED BY <1>3, <1>6 DEF o

\* The exchange leaves a closed order as it is.
LEMMA ClosedStays ==
  ASSUME TypeOK, CopiesInv, [Next]_vars, NEW x \in ExchangeIds, exch[x].status \in DoneStatus
  PROVE  exch'[x] = exch[x]
<1>t. exch \in [ExchangeIds -> ExchangeOrders \cup {NoOrder}]
  BY DEF TypeOK
<1>1. ASSUME NEW w \in Workers, WorkerStep(w) PROVE exch'[x] = exch[x]
  <2>1. ASSUME NEW answered \in BOOLEAN, SendAccepted(w, answered)
        PROVE  exch'[x] = exch[x]
    <3> DEFINE z == <<worker[w].order, Cardinality(SentFor(worker[w].order)) + 1>>
    <3>1. z \in ExchangeIds /\ exch[z] = NoOrder
      BY <2>1, SendsNew
    <3>2. exch' = [exch EXCEPT ![z] = [status |-> "submitted", filled |-> 0]]
      BY <2>1 DEF SendAccepted
    <3> HIDE DEF z
    <3>3. x # z
      BY <3>1 DEF NoOrder, DoneStatus
    <3> QED BY <1>t, <3>2, <3>3
  <2>2. CASE Cancel(w)
    <3>1. CASE exch' = exch
      BY <3>1
    <3>2. CASE /\ exch[worker[w].copy.xid].status \in OpenStatus
               /\ exch' = [exch EXCEPT ![worker[w].copy.xid].status = "canceled"]
      <4>1. x # worker[w].copy.xid
        BY <3>2 DEF OpenStatus, DoneStatus
      <4> QED BY <1>t, <3>2, <4>1
    <3> QED BY <2>2, <3>1, <3>2 DEF Cancel
  <2>3. CASE exch' = exch
    BY <2>3
  <2> QED BY <1>1, <2>1, <2>2, <2>3
          DEF WorkerStep, EnterCreate, Create, EnterSubmit, EnterCancel, LoadPending,
              SendRefused, Store, StoreFails
<1>2. ASSUME NEW z \in ExchangeIds, Fill(z) \/ ExchangeCloses(z) PROVE exch'[x] = exch[x]
  <2>1. x # z
    BY <1>2 DEF Fill, ExchangeCloses, OpenStatus, DoneStatus
  <2> QED BY <1>2, <1>t, <2>1 DEF Fill, ExchangeCloses
<1>3. CASE exch' = exch
  BY <1>3
<1> QED BY <1>1, <1>2, <1>3
        DEF Next, QueryStep, QueryList, Query, QueryFails, QueryStore, QueryEnds, SweepStep,
            SweepList, SweepOpen, SweepStore, SweepStoreFails, SweepEnds, SwitchGate, SwitchTrading,
            Crash, vars

-----------------------------------------------------------------------------
(* Closed rows are closed. *)

\* Strengthening for an order whose row no reconciliation has made pending again: while
\* it is pending it names no exchange order, so that a refused submission names none, and
\* a row or a query's copy that is rejected over an exchange order says what is so.
FreshInv(o) ==
  /\ row[o] # NoRow =>
       /\ row[o].status = "pending" => row[o].xid = NoId
       /\ row[o].status = "rejected" /\ row[o].xid # NoId => exch[row[o].xid].status \in DoneStatus
  /\ \A w \in Workers :
       worker[w].at \in {"send", "reject"} /\ worker[w].order = o => worker[w].copy.xid = NoId
  /\ query.at = "store" /\ query.order = o /\ query.copy.status = "rejected" =>
       exch[query.copy.xid].status \in DoneStatus

AllFresh == \A o \in Orders : reverted[o] = 0 => FreshInv(o)

\* A goroutine comes to hold a copy to send or to reject by loading a pending row, or by
\* the exchange's answer to the one it holds.
LEMMA FreshWorker ==
  ASSUME TypeOK, CopiesInv, [Next]_vars, NEW o \in Orders, FreshInv(o),
         NEW w \in Workers, worker'[w].at \in {"send", "reject"}, worker'[w].order = o
  PROVE  worker'[w].copy.xid = NoId
<1>t. worker \in [Workers -> WorkerStates]
  BY DEF TypeOK
<1>0. CASE worker'[w] = worker[w]
  BY <1>0 DEF FreshInv
<1>a. DoReturn(w) => worker'[w].at = "idle"
  BY <1>t DEF DoReturn, IdleWorker
<1>1. CASE WorkerStep(w)
  <2>1. CASE LoadPending(w)
    <3>1. /\ row[worker[w].order].status = "pending"
          /\ worker' = [worker EXCEPT ![w] =
               [at |-> "send", order |-> worker[w].order, copy |-> row[worker[w].order]]]
      BY <1>a, <2>1 DEF LoadPending
    <3>2. worker[w].order = o /\ worker'[w].copy = row[o]
      BY <1>t, <3>1
    <3> QED BY <3>1, <3>2 DEF FreshInv, NoRow
  <2>2. ASSUME NEW answered \in BOOLEAN, SendAccepted(w, answered)
        PROVE  worker'[w].copy.xid = NoId
    <3> DEFINE r == worker[w].copy
               refused == [r EXCEPT !.status = "rejected"]
    <3>1. /\ worker[w].at = "send" /\ r \in Rows
          /\ ~answered => worker' = [worker EXCEPT ![w] =
               [at |-> "reject", order |-> worker[w].order, copy |-> refused]]
          /\ answered => worker'[w].at = "store"
      BY <1>t, <2>2, StatesType DEF SendAccepted
    <3>2. refused.xid = r.xid
      BY <3>1, RowFields
    <3> HIDE DEF refused
    <3>3. worker[w].order = o /\ worker'[w].copy = refused
      BY <1>t, <3>1
    <3> QED BY <3>1, <3>2, <3>3 DEF FreshInv
  <2>3. CASE SendRefused(w)
    <3> DEFINE r == worker[w].copy
               refused == [r EXCEPT !.status = "rejected"]
    <3>1. /\ worker[w].at = "send" /\ r \in Rows
          /\ worker' = [worker EXCEPT ![w] =
               [at |-> "reject", order |-> worker[w].order, copy |-> refused]]
      BY <2>3, StatesType DEF SendRefused
    <3>2. refused.xid = r.xid
      BY <3>1, RowFields
    <3> HIDE DEF refused
    <3>3. worker[w].order = o /\ worker'[w].copy = refused
      BY <1>t, <3>1
    <3> QED BY <3>1, <3>2, <3>3 DEF FreshInv
  <2>4. CASE Cancel(w)
    <3>1. CASE worker' = [worker EXCEPT ![w].at = "store", ![w].copy.status = "canceled"]
      <4>1. worker[w] \in [at: {"cancel"}, order: Orders, copy: Rows]
        BY <1>t, <2>4 DEF Cancel, WorkerStates, IdleWorker
      <4> QED BY <1>t, <3>1, <4>1
    <3> QED BY <1>a, <2>4, <3>1 DEF Cancel
  <2>5. EnterCreate(w) => worker'[w].at = "create"
    BY <1>t DEF EnterCreate
  <2>6. \A i \in Orders : /\ EnterSubmit(w, i) => worker'[w].at = "load"
                          /\ EnterCancel(w, i) => worker'[w].at = "cancel"
                          /\ Create(w, i) => worker'[w].at = "idle"
    BY <1>a, <1>t DEF EnterSubmit, EnterCancel, Create
  <2>7. Store(w) \/ StoreFails(w) => worker'[w].at = "idle"
    BY <1>a DEF Store, StoreFails
  <2> QED BY <1>1, <2>1, <2>2, <2>3, <2>4, <2>5, <2>6, <2>7 DEF WorkerStep
<1>2. CASE Crash
  BY <1>2 DEF Crash, IdleWorker
<1>3. ASSUME NEW v \in Workers, v # w, WorkerStep(v) PROVE worker'[w] = worker[w]
  BY <1>t, <1>3 DEF WorkerStep, EnterCreate, Create, EnterSubmit, EnterCancel, LoadPending,
     SendAccepted, SendRefused, Cancel, Store, StoreFails, DoReturn
<1>4. ASSUME QueryStep \/ SweepStep PROVE worker' = worker
  BY <1>4 DEF QueryStep, QueryList, Query, QueryFails, QueryStore, QueryEnds,
     SweepStep, SweepList, SweepOpen, SweepStore, SweepStoreFails, SweepEnds
<1> QED BY <1>0, <1>1, <1>2, <1>3, <1>4
        DEF Next, Fill, ExchangeCloses, SwitchGate, SwitchTrading, vars

\* The queries come to hold a copy by an answer of the exchange.
LEMMA FreshQuery ==
  ASSUME TypeOK, CopiesInv, [Next]_vars, NEW o \in Orders, FreshInv(o),
         query'.at = "store", query'.order = o, query'.copy.status = "rejected"
  PROVE  exch'[query'.copy.xid].status \in DoneStatus
<1>1. CASE query' = query
  <2>1. query.copy.xid \in ExchangeIds
    BY <1>1, StatesType DEF CopiesInv, QueryCopies, Rows
  <2>2. exch[query.copy.xid].status \in DoneStatus
    BY <1>1 DEF FreshInv
  <2> QED BY <1>1, <2>1, <2>2, ClosedStays
<1>2. ASSUME NEW i \in Orders, Query(i) PROVE exch'[query'.copy.xid].status \in DoneStatus
  <2> DEFINE r == query.todo[i]
  <2>1. r \in Rows /\ CopyOK(exch, i, r) /\ r.xid # NoId /\ exch' = exch
    BY <1>2, StatesType, TodosType DEF Query, CopiesInv, QueryCopies, TodoCopies
  <2>2. PICK seen \in Reads(r.xid) : query'.copy = Adopt(r, seen)
    BY <1>2 DEF Query
  <2> HIDE DEF r
  <2>3. /\ Adopt(r, seen).xid = r.xid
        /\ Adopt(r, seen).status \in {"pending", exch[r.xid].status}
    BY <2>1, AdoptCopy DEF CopiesInv
  <2> QED BY <2>1, <2>2, <2>3 DEF DoneStatus
<1>3. query' = query \/ query'.at # "store" \/ \E i \in Orders : Query(i)
  <2>1. ASSUME NEW i \in Orders, QueryFails(i) PROVE query'.at # "store"
    BY <2>1 DEF QueryFails, TypeOK, QueryStates, IdleReconciler
  <2>2. QueryList \/ QueryStore \/ QueryEnds \/ Crash => query'.at # "store"
    BY DEF QueryList, QueryStore, QueryEnds, Crash, IdleReconciler
  <2>3. ASSUME NEW w \in Workers, WorkerStep(w) PROVE query' = query
    BY <2>3 DEF WorkerStep, EnterCreate, Create, EnterSubmit, EnterCancel, LoadPending,
       SendAccepted, SendRefused, Cancel, Store, StoreFails
  <2>4. SweepStep => query' = query
    BY DEF SweepStep, SweepList, SweepOpen, SweepStore, SweepStoreFails, SweepEnds
  <2> QED BY <2>1, <2>2, <2>3, <2>4
          DEF Next, QueryStep, Fill, ExchangeCloses, SwitchGate, SwitchTrading, vars
<1> QED BY <1>1, <1>2, <1>3

LEMMA FreshStep == TypeOK /\ CopiesInv /\ AllFresh /\ [Next]_vars => AllFresh'
<1> SUFFICES ASSUME TypeOK, CopiesInv, AllFresh, [Next]_vars, NEW o \in Orders, reverted'[o] = 0
             PROVE  FreshInv(o)'
  BY DEF AllFresh
<1>1. FreshInv(o)
  BY RevertedGrows DEF AllFresh
<1>2. ASSUME row'[o] # NoRow
      PROVE  /\ row'[o].status = "pending" => row'[o].xid = NoId
             /\ row'[o].status = "rejected" /\ row'[o].xid # NoId =>
                  exch'[row'[o].xid].status \in DoneStatus
  <2>t. row \in [Orders -> Rows \cup {NoRow}]
    BY DEF TypeOK
  <2>1. CASE row'[o] = row[o]
    <3> SUFFICES ASSUME row[o].status = "rejected", row[o].xid # NoId
                 PROVE  exch'[row[o].xid].status \in DoneStatus
      BY <1>1, <1>2, <2>1 DEF FreshInv
    <3>1. row[o].xid \in ExchangeIds
      BY <1>2, <2>1, <2>t DEF Rows
    <3>2. exch[row[o].xid].status \in DoneStatus
      BY <1>1, <1>2, <2>1 DEF FreshInv
    <3> QED BY <3>1, <3>2, ClosedStays
  <2>2. CASE row'[o] = PendingRow
    BY <2>2, PendingType
  <2>3. ASSUME NEW w \in Workers, worker[w].at \in {"store", "reject"}, worker[w].order = o,
               row'[o] = worker[w].copy
        PROVE  /\ row'[o].status # "pending"
               /\ row'[o].status = "rejected" => row'[o].xid = NoId
    <3>1. /\ worker[w].at = "store" => worker[w].copy.status \in {"submitted", "canceled"}
          /\ worker[w].at = "reject" => worker[w].copy.status = "rejected"
      BY <2>3 DEF CopiesInv, WorkerCopies, WorkerCopy
    <3>2. worker[w].at = "reject" => worker[w].copy.xid = NoId
      BY <1>1, <2>3 DEF FreshInv
    <3> QED BY <2>3, <3>1, <3>2
  <2>4. ASSUME query.at = "store", query.order = o, row'[o] = query.copy
        PROVE  row'[o].status = "rejected" => exch'[row'[o].xid].status \in DoneStatus
    <3>1. query.copy.xid \in ExchangeIds
      BY <2>4, StatesType DEF CopiesInv, QueryCopies, Rows
    <3>2. query.copy.status = "rejected" => exch[query.copy.xid].status \in DoneStatus
      BY <1>1, <2>4 DEF FreshInv
    <3> QED BY <2>4, <3>1, <3>2, ClosedStays
  <2>5. ASSUME sweep.at = "each", o \in DOMAIN sweep.todo,
               row'[o] = Swept(sweep.todo[o], sweep.open)
        PROVE  row'[o].status # "rejected"
    BY <2>5, SweptCopy
  <2>6. CASE row'[o] # row[o]
    <3>1. \/ row'[o] = PendingRow
          \/ \E w \in Workers : /\ worker[w].at \in {"store", "reject"} /\ worker[w].order = o
                                /\ row'[o] = worker[w].copy
          \/ /\ query.at = "store" /\ query.order = o /\ row'[o] = query.copy
             /\ row'[o].status # "pending"
          \/ /\ sweep.at = "each" /\ o \in DOMAIN sweep.todo
             /\ row'[o] = Swept(sweep.todo[o], sweep.open)
             /\ row'[o].status # "pending"
      BY <2>6, RowWrites
    <3> QED BY <2>2, <2>3, <2>4, <2>5, <3>1
  <2> QED BY <2>1, <2>6
<1>3. \A w \in Workers :
        worker'[w].at \in {"send", "reject"} /\ worker'[w].order = o => worker'[w].copy.xid = NoId
  BY <1>1, FreshWorker
<1>4. query'.at = "store" /\ query'.order = o /\ query'.copy.status = "rejected" =>
        exch'[query'.copy.xid].status \in DoneStatus
  BY <1>1, FreshQuery
<1> QED BY <1>2, <1>3, <1>4 DEF FreshInv

LEMMA FreshInvariant == Spec => []AllFresh
<1>1. Init => AllFresh
  BY DEF Init, AllFresh, FreshInv, IdleWorker, IdleReconciler
<1> QED BY <1>1, FreshStep, CopiesInvariant, PTL DEF Spec

\* A row the agent has closed has no live order behind it, and a filled one is
\* filled on the exchange, although every writer replaces the row by a copy read
\* before it talked to the exchange, for any number of goroutines, orders,
\* concurrent submissions, failed writes and crashes (SubmitOrder, CancelOrder
\* and both ReconcileOrders); except a rejected row that a reconciliation had made
\* pending again.
THEOREM ClosedTheorem == Spec => []ClosedRowsAreClosed
<1>1. TypeOK /\ CopiesInv /\ AllFresh => ClosedRowsAreClosed
  <2> SUFFICES ASSUME TypeOK, CopiesInv, AllFresh, NEW o \in Orders,
                      row[o].status \in DoneStatus, row[o].xid # NoId
               PROVE  /\ \/ exch[row[o].xid].status \in DoneStatus
                         \/ row[o].status = "rejected" /\ reverted[o] > 0
                      /\ row[o].status = "filled" =>
                           exch[row[o].xid] = [status |-> "filled", filled |-> 2]
    BY DEF ClosedRowsAreClosed
  <2>1. row[o] # NoRow
    BY DEF NoRow, DoneStatus
  <2>2. CopyOK(exch, o, row[o])
    BY <2>1 DEF CopiesInv, RowCopies
  <2>3. CASE row[o].status \in {"filled", "canceled"}
    BY <2>2, <2>3 DEF CopyOK
  <2>4. CASE row[o].status = "rejected"
    <3>1. reverted[o] \in Nat
      BY DEF TypeOK
    <3>2. reverted[o] = 0 => exch[row[o].xid].status \in DoneStatus
      BY <2>1, <2>4 DEF AllFresh, FreshInv
    <3> QED BY <2>4, <3>1, <3>2
  <2> QED BY <2>3, <2>4 DEF DoneStatus
<1> QED BY <1>1, FreshInvariant, CopiesInvariant, PTL

-----------------------------------------------------------------------------
(* When the gate closes, each goroutine sends at most one more entry. *)

\* Strengthening: a goroutine that has sent an entry since the gate closed is
\* past sending, and while the gate is open nobody counts.
LateInv ==
  \A w \in Workers :
    /\ late[w] \in {0, 1}
    /\ late[w] # 0 => ~gate /\ worker[w].at \notin {"load", "send"}

\* Every step keeps the strengthening.
LEMMA LateStep == TypeOK /\ LateInv /\ [Next]_vars => LateInv'
<1> SUFFICES ASSUME TypeOK, LateInv, [Next]_vars PROVE LateInv'
  OBVIOUS
<1>a. ASSUME NEW w \in Workers, NEW u, worker' = [worker EXCEPT ![w] = u],
             UNCHANGED <<gate, late>>,
             u.at \in {"load", "send"} => gate \/ worker[w].at \in {"load", "send"}
      PROVE  LateInv'
  BY <1>a DEF TypeOK, LateInv
<1>b. ASSUME NEW w \in Workers, DoReturn(w), UNCHANGED <<gate, late>> PROVE LateInv'
  BY <1>a, <1>b DEF DoReturn, IdleWorker
<1>1. ASSUME NEW w \in Workers, WorkerStep(w) PROVE LateInv'
  <2>1. CASE EnterCreate(w)
    BY <1>a, <2>1 DEF EnterCreate
  <2>2. ASSUME NEW o \in Orders, Create(w, o) PROVE LateInv'
    BY <1>b, <2>2 DEF Create
  <2>3. ASSUME NEW o \in Orders, EnterSubmit(w, o) PROVE LateInv'
    BY <1>a, <2>3 DEF EnterSubmit
  <2>4. ASSUME NEW o \in Orders, EnterCancel(w, o) PROVE LateInv'
    BY <1>a, <2>4 DEF EnterCancel
  <2>5. CASE LoadPending(w)
    <3>1. CASE row[worker[w].order].status = "pending"
      BY <1>a, <2>5, <3>1 DEF LoadPending
    <3>2. CASE row[worker[w].order].status # "pending"
      BY <1>b, <2>5, <3>2 DEF LoadPending
    <3> QED BY <3>1, <3>2
  <2>6. ASSUME NEW answered \in BOOLEAN, SendAccepted(w, answered) PROVE LateInv'
    <3>1. worker'[w].at \in {"store", "reject"} /\ gate' = gate /\ late[w] = 0
      BY <2>6 DEF SendAccepted, TypeOK, LateInv
    <3>2. \A v \in Workers \ {w} : worker'[v] = worker[v]
      BY <2>6 DEF SendAccepted, TypeOK
    <3>3. /\ gate => late' = late
          /\ ~gate => \A v \in Workers : late'[v] = IF v = w THEN 1 ELSE late[v]
      BY <2>6, <3>1 DEF SendAccepted, TypeOK
    <3> QED BY <3>1, <3>2, <3>3 DEF LateInv
  <2>7. CASE SendRefused(w)
    <3>1. worker'[w].at = "reject" /\ UNCHANGED <<gate, late>>
      BY <2>7 DEF SendRefused, TypeOK
    <3>2. \A v \in Workers \ {w} : worker'[v] = worker[v]
      BY <2>7 DEF SendRefused, TypeOK
    <3> QED BY <3>1, <3>2 DEF LateInv
  <2>8. CASE Cancel(w)
    <3>1. CASE worker' = [worker EXCEPT ![w].at = "store", ![w].copy.status = "canceled"]
      <4>1. worker[w] \in [at: {"cancel"}, order: Orders, copy: Rows]
        BY <2>8 DEF Cancel, TypeOK, WorkerStates, IdleWorker
      <4>2. worker'[w].at = "store" /\ \A v \in Workers \ {w} : worker'[v] = worker[v]
        BY <3>1, <4>1 DEF TypeOK
      <4>3. UNCHANGED <<gate, late>>
        BY <2>8 DEF Cancel
      <4> QED BY <4>2, <4>3 DEF LateInv
    <3>2. CASE DoReturn(w)
      BY <1>b, <2>8, <3>2 DEF Cancel
    <3> QED BY <2>8, <3>1, <3>2 DEF Cancel
  <2>9. CASE Store(w) \/ StoreFails(w)
    BY <1>b, <2>9 DEF Store, StoreFails
  <2> QED BY <1>1, <2>1, <2>2, <2>3, <2>4, <2>5, <2>6, <2>7, <2>8, <2>9 DEF WorkerStep
<1>2. CASE QueryStep
  BY <1>2 DEF QueryStep, QueryList, Query, QueryFails, QueryStore, QueryEnds, LateInv
<1>3. CASE SweepStep
  BY <1>3 DEF SweepStep, SweepList, SweepOpen, SweepStore, SweepStoreFails, SweepEnds, LateInv
<1>4. ASSUME NEW x \in ExchangeIds, Fill(x) \/ ExchangeCloses(x) PROVE LateInv'
  BY <1>4 DEF Fill, ExchangeCloses, LateInv
<1>5. CASE SwitchGate \/ SwitchTrading
  BY <1>5 DEF SwitchGate, SwitchTrading, LateInv
<1>6. CASE Crash
  BY <1>6 DEF Crash, IdleWorker, LateInv
<1>7. CASE UNCHANGED vars
  BY <1>7 DEF vars, LateInv
<1> QED BY <1>1, <1>2, <1>3, <1>4, <1>5, <1>6, <1>7 DEF Next

\* However many goroutines submit orders, each sends at most one entry after the
\* gate has closed: the one it had checked before (SubmitOrder, checkNewEntry).
THEOREM LateTheorem == Spec => []LateEntriesBounded
<1>1. Init => LateInv
  BY DEF Init, LateInv
<1>2. LateInv => LateEntriesBounded
  BY DEF LateInv, LateEntriesBounded
<1> QED BY <1>1, <1>2, LateStep, TypeCorrect, PTL DEF Spec

-----------------------------------------------------------------------------
(* An order is sent once, and its exchange order stays known. *)

\* Worker w is in CancelOrder of order o and holds the row it read.
Cancelling(w, o) ==
  /\ worker[w].at = "cancel" \/ (worker[w].at = "store" /\ worker[w].copy.status = "canceled")
  /\ worker[w].order = o

\* Copy r names the exchange order that the row of o names, for good: a row that
\* has been submitted or rejected stays so, unless a reconciliation counts it.
Current(o, r) == row[o] # NoRow /\ row[o].status # "pending" /\ r.xid = row[o].xid

ListsCurrent(o) ==
  /\ query.at # "idle" /\ o \in DOMAIN query.todo => Current(o, query.todo[o])
  /\ query.at = "store" /\ query.order = o => Current(o, query.copy)
  /\ sweep.at # "idle" /\ o \in DOMAIN sweep.todo => Current(o, sweep.todo[o])

\* Every order the exchange has of o was stored, is about to be, or was lost.
SentKnown(o) ==
  \A x \in SentFor(o) \ lost :
    \/ row[o] # NoRow /\ row[o].xid = x
    \/ \E w \in Workers : x \in Unstored(w)

\* Strengthening for an order that is not raced, and whose row no reconciliation has
\* made pending again: one goroutine submits it, while
\* its row is pending, and everybody else holds a copy of the submitted row.
KnownInv(o) ==
  /\ \A v, w \in Workers : Submitting(v, o) /\ Submitting(w, o) => v = w
  /\ \A w \in Workers : Submitting(w, o) => row[o].status = "pending"
  /\ \A w \in Workers : Cancelling(w, o) => Current(o, worker[w].copy)
  /\ ListsCurrent(o)
  /\ SentKnown(o)

\* An exchange id that is not stored yet is in the hands of the goroutine that
\* submits its order.
LEMMA UnstoredFacts ==
  ASSUME TypeOK, CopiesInv, NEW w \in Workers, NEW x \in Unstored(w)
  PROVE  x \in ExchangeIds /\ x # NoId /\ Submitting(w, x[1])
<1>1. /\ worker[w].at = "store" /\ worker[w].copy.status = "submitted" /\ worker[w].copy.xid = x
  BY DEF Unstored
<1>2. x # NoId /\ x[1] = worker[w].order /\ worker[w].copy \in Rows
  BY <1>1, StatesType DEF CopiesInv, WorkerCopies, WorkerCopy, CopyOK
<1> QED BY <1>1, <1>2 DEF Submitting, Rows

\* Row of o: once it is not pending any more it keeps its exchange id.
RowMoves(o) ==
  row[o] # NoRow /\ row[o].status # "pending" =>
    row'[o] # NoRow /\ row'[o].status # "pending" /\ row'[o].xid = row[o].xid

\* Writing a current copy over the row moves it.
LEMMA CurrentMoves ==
  ASSUME TypeOK, NEW i \in Orders, NEW r \in Rows, Current(i, r), r.status # "pending",
         row' = [row EXCEPT ![i] = r], NEW o \in Orders
  PROVE  RowMoves(o) /\ (row[o].status = "pending" => row'[o] = row[o])
                     /\ (row[o] # NoRow => row'[o] # NoRow /\ row'[o].xid = row[o].xid)
<1>1. row'[o] = IF o = i THEN r ELSE row[o]
  BY DEF TypeOK
<1> QED BY <1>1, PendingType DEF RowMoves, Current

\* A step of worker w to state u keeps the strengthening if ...
LEMMA KnownWorker ==
  ASSUME TypeOK, NEW o \in Orders, KnownInv(o), NEW w \in Workers, NEW u,
         worker' = [worker EXCEPT ![w] = u], UNCHANGED <<query, sweep>>, RowMoves(o),
         \A v \in Workers \ {w} : Submitting(v, o) => row'[o].status = "pending",
         Submitting(w, o)' => /\ row'[o].status = "pending"
                              /\ \A v \in Workers \ {w} : ~Submitting(v, o),
         Cancelling(w, o)' => Current(o, worker[w].copy)',
         SentKnown(o)'
  PROVE  KnownInv(o)'
<1>1. \A v \in Workers \ {w} :
        /\ worker'[v] = worker[v]
        /\ Submitting(v, o)' <=> Submitting(v, o)
        /\ Cancelling(v, o)' <=> Cancelling(v, o)
  BY DEF TypeOK, Submitting, Cancelling
<1>2. \A v1, v2 \in Workers : Submitting(v1, o)' /\ Submitting(v2, o)' => v1 = v2
  BY <1>1 DEF KnownInv
<1>3. \A v \in Workers : Submitting(v, o)' => row'[o].status = "pending"
  BY <1>1
<1>4. \A v \in Workers : Cancelling(v, o)' => Current(o, worker[v].copy)'
  <2> SUFFICES ASSUME NEW v \in Workers, Cancelling(v, o)' PROVE Current(o, worker[v].copy)'
    OBVIOUS
  <2>1. CASE v # w
    BY <1>1, <2>1 DEF KnownInv, Current, RowMoves
  <2> QED BY <2>1
<1>5. ListsCurrent(o)'
  BY DEF KnownInv, ListsCurrent, Current, RowMoves
<1> QED BY <1>2, <1>3, <1>4, <1>5 DEF KnownInv

\* A step of neither worker nor exchange keeps it if the row moves and the lists
\* stay current.
LEMMA KnownLists ==
  ASSUME TypeOK, NEW o \in Orders, KnownInv(o), UNCHANGED <<exch, worker, lost>>, RowMoves(o),
         row[o].status = "pending" => row'[o] = row[o],
         row[o] # NoRow => row'[o] # NoRow /\ row'[o].xid = row[o].xid,
         ListsCurrent(o)'
  PROVE  KnownInv(o)'
<1>1. \A v \in Workers :
        /\ Submitting(v, o)' <=> Submitting(v, o)
        /\ Cancelling(v, o)' <=> Cancelling(v, o)
        /\ Unstored(v)' = Unstored(v)
  BY DEF Submitting, Cancelling, Unstored
<1>2. SentFor(o)' = SentFor(o)
  BY DEF SentFor
<1>3. SentKnown(o)'
  BY <1>1, <1>2 DEF KnownInv, SentKnown
<1>4. \A v \in Workers : Cancelling(v, o)' => Current(o, worker[v].copy)'
  BY <1>1 DEF KnownInv, Current, RowMoves
<1>5. \A v \in Workers : Submitting(v, o)' => row'[o].status = "pending"
  BY <1>1 DEF KnownInv
<1> QED BY <1>1, <1>3, <1>4, <1>5 DEF KnownInv

\* What the exchange has of o stays known if nothing new was sent, the row keeps
\* its id and every id that was on its way is still or is lost.
LEMMA SentKept ==
  ASSUME NEW o, SentKnown(o),
         SentFor(o)' \subseteq SentFor(o), lost \subseteq lost',
         row[o] # NoRow => row'[o] # NoRow /\ row'[o].xid = row[o].xid,
         \A w \in Workers : \A x \in Unstored(w) : x \in lost' \/ x \in Unstored(w)'
  PROVE  SentKnown(o)'
BY DEF SentKnown

\* While a goroutine submits an order and holds no id of it, everything the
\* exchange has of the order was lost.
LEMMA NothingSent ==
  ASSUME TypeOK, CopiesInv, NEW o \in Orders, KnownInv(o), FreshInv(o),
         NEW w \in Workers, Submitting(w, o), Unstored(w) = {}
  PROVE  SentFor(o) \subseteq lost
<1> SUFFICES ASSUME NEW x \in SentFor(o), x \notin lost PROVE FALSE
  OBVIOUS
<1>1. row[o].status = "pending"
  BY DEF KnownInv
<1>2. row[o] # NoRow => row[o].xid = NoId
  BY <1>1 DEF FreshInv
<1>3. x \in ExchangeIds /\ x[1] = o
  BY DEF SentFor
<1>4. PICK v \in Workers : x \in Unstored(v)
  BY <1>2, <1>3, PendingType DEF KnownInv, SentKnown
<1>5. Submitting(v, o)
  BY <1>3, <1>4, UnstoredFacts
<1> QED BY <1>4, <1>5 DEF KnownInv

\* The exchange itself makes no order.
LEMMA NothingNew ==
  ASSUME TypeOK, NEW x \in ExchangeIds, Fill(x) \/ ExchangeCloses(x), NEW o
  PROVE  SentFor(o)' \subseteq SentFor(o)
<1>1. exch[x] # NoOrder
  BY DEF Fill, ExchangeCloses, NoOrder, OpenStatus
<1>2. \A z \in ExchangeIds : z # x => exch'[z] = exch[z]
  BY DEF Fill, ExchangeCloses, TypeOK
<1> QED BY <1>1, <1>2 DEF SentFor

\* Every step of a goroutine keeps the strengthening.
LEMMA KnownWorkerStep ==
  ASSUME TypeOK, CopiesInv, NEW o \in Orders, KnownInv(o), FreshInv(o), o \notin raced',
         NEW w \in Workers, WorkerStep(w)
  PROVE  KnownInv(o)'
<1> USE CallersAssumption, BoundsAssumption
<1>q. ASSUME worker'[w].at \in {"idle", "create", "load"}
      PROVE  ~Submitting(w, o)' /\ ~Cancelling(w, o)' /\ Unstored(w)' = {}
  BY <1>q DEF Submitting, Cancelling, Unstored
<1>i. DoReturn(w) => worker'[w].at = "idle" /\ worker' = [worker EXCEPT ![w] = IdleWorker]
  BY DEF DoReturn, TypeOK, IdleWorker
<1>o. ASSUME NEW u, worker' = [worker EXCEPT ![w] = u]
      PROVE  \A v \in Workers \ {w} : Unstored(v)' = Unstored(v)
  BY <1>o DEF TypeOK, Unstored
<1>p. \A v \in Workers : Submitting(v, o) => row[o].status = "pending"
  BY DEF KnownInv
\* Steps that leave the exchange and the row alone and end or begin a call.
<1>a. ASSUME worker'[w].at \in {"idle", "create", "load"},
             worker' = [worker EXCEPT ![w] = worker'[w]],
             UNCHANGED <<exch, row, query, sweep>>, lost \subseteq lost', Unstored(w) \subseteq lost'
      PROVE  KnownInv(o)'
  <2>1. SentFor(o)' = SentFor(o)
    BY <1>a DEF SentFor
  <2>2. SentKnown(o)'
    BY <1>a, <1>o, <2>1, SentKept DEF KnownInv
  <2>3. ~Submitting(w, o)' /\ ~Cancelling(w, o)'
    BY <1>a, <1>q
  <2>4. RowMoves(o) /\ UNCHANGED <<query, sweep>> /\ row' = row
    BY <1>a DEF RowMoves
  <2> QED BY <1>a, <1>p, <2>2, <2>3, <2>4, KnownWorker
<1>b. ASSUME DoReturn(w), UNCHANGED <<exch, row, query, sweep>>, lost \subseteq lost',
             Unstored(w) \subseteq lost'
      PROVE  KnownInv(o)'
  <2>1. worker' = [worker EXCEPT ![w] = worker'[w]]
    BY <1>b DEF DoReturn, TypeOK
  <2> QED BY <1>a, <1>b, <1>i, <2>1
<1>c. worker[w].at # "store" => Unstored(w) = {}
  BY DEF Unstored
<1>1. CASE EnterCreate(w)
  <2>1. /\ worker' = [worker EXCEPT ![w] = [at |-> "create"]] /\ Unstored(w) = {}
        /\ UNCHANGED <<exch, row, query, sweep>> /\ lost' = lost
    BY <1>1, <1>c DEF EnterCreate
  <2>2. /\ worker'[w].at \in {"idle", "create", "load"}
        /\ worker' = [worker EXCEPT ![w] = worker'[w]]
    BY <2>1 DEF TypeOK
  <2>3. lost \subseteq lost' /\ Unstored(w) \subseteq lost'
    BY <2>1
  <2> QED BY <1>a, <2>1, <2>2, <2>3
<1>2. ASSUME NEW i \in Orders, Create(w, i) PROVE KnownInv(o)'
  <2>1. CASE row[i] = NoRow /\ row' = [row EXCEPT ![i] = PendingRow]
    <3>1. /\ row'[o] = IF o = i THEN PendingRow ELSE row[o]
          /\ UNCHANGED <<exch, query, sweep, lost>>
      BY <1>2, <2>1 DEF Create, TypeOK
    <3>2. worker' = [worker EXCEPT ![w] = IdleWorker] /\ worker'[w].at = "idle"
      BY <1>2, <1>i DEF Create
    <3>3. SentFor(o)' = SentFor(o) /\ Unstored(w) = {}
      BY <1>2, <1>c, <3>1 DEF SentFor, Create
    <3>4. SentKnown(o)'
      BY <2>1, <3>1, <3>2, <3>3, <1>o, SentKept DEF KnownInv
    <3>5. \A v \in Workers : Submitting(v, o) => row'[o].status = "pending"
      BY <1>p, <3>1, PendingType
    <3>6. RowMoves(o)
      BY <2>1, <3>1 DEF RowMoves
    <3>7. ~Submitting(w, o)' /\ ~Cancelling(w, o)'
      BY <1>q, <3>2
    <3> QED BY <3>1, <3>2, <3>4, <3>5, <3>6, <3>7, KnownWorker
  <2>2. CASE UNCHANGED row
    BY <1>2, <1>b, <1>c, <2>2 DEF Create
  <2> QED BY <1>2, <2>1, <2>2 DEF Create
<1>3. ASSUME NEW i \in Orders, EnterSubmit(w, i) PROVE KnownInv(o)'
  <2> DEFINE u == [at |-> "load", order |-> i]
  <2>1. /\ worker' = [worker EXCEPT ![w] = u] /\ Unstored(w) = {}
        /\ UNCHANGED <<exch, row, query, sweep>> /\ lost' = lost
    BY <1>3, <1>c DEF EnterSubmit
  <2>2. /\ worker'[w].at \in {"idle", "create", "load"}
        /\ worker' = [worker EXCEPT ![w] = worker'[w]]
    BY <2>1 DEF TypeOK
  <2>3. lost \subseteq lost' /\ Unstored(w) \subseteq lost'
    BY <2>1
  <2> HIDE DEF u
  <2> QED BY <1>a, <2>1, <2>2, <2>3
<1>4. ASSUME NEW i \in Orders, EnterCancel(w, i) PROVE KnownInv(o)'
  <2> DEFINE u == [at |-> "cancel", order |-> i, copy |-> row[i]]
  <2>1. /\ worker' = [worker EXCEPT ![w] = u] /\ worker[w].at = "idle"
        /\ row[i].status \in OpenStatus
        /\ UNCHANGED <<exch, row, query, sweep, lost>>
    BY <1>4 DEF EnterCancel
  <2>2. worker'[w] = u
    BY <2>1 DEF TypeOK
  <2>3. ~Submitting(w, o)'
    BY <2>2 DEF Submitting
  <2>4. Cancelling(w, o)' => Current(o, worker[w].copy)'
    BY <2>1, <2>2 DEF Cancelling, Current, NoRow, OpenStatus
  <2>5. SentFor(o)' = SentFor(o) /\ Unstored(w) = {}
    BY <1>c, <2>1 DEF SentFor
  <2>6. SentKnown(o)'
    BY <1>o, <2>1, <2>5, SentKept DEF KnownInv
  <2> HIDE DEF u
  <2> QED BY <1>p, <2>1, <2>3, <2>4, <2>6, KnownWorker DEF RowMoves
<1>5. CASE LoadPending(w)
  <2> DEFINE i == worker[w].order
             u == [at |-> "send", order |-> i, copy |-> row[i]]
  <2>1. CASE row[i].status = "pending"
    <3>1. /\ worker' = [worker EXCEPT ![w] = u] /\ worker[w].at = "load"
          /\ raced' = raced \cup {j \in {i} : \E v \in Workers \ {w} : Submitting(v, j)}
          /\ UNCHANGED <<exch, row, query, sweep, lost>>
      BY <1>5, <2>1 DEF LoadPending
    <3>2. worker'[w] = u
      BY <3>1 DEF TypeOK
    <3>3. ~Cancelling(w, o)' /\ (Submitting(w, o)' => i = o)
      BY <3>2 DEF Submitting, Cancelling
    <3>4. i = o => \A v \in Workers \ {w} : ~Submitting(v, o)
      BY <3>1
    <3>5. SentFor(o)' = SentFor(o) /\ Unstored(w) = {}
      BY <1>c, <3>1 DEF SentFor
    <3>6. SentKnown(o)'
      BY <1>o, <3>1, <3>5, SentKept DEF KnownInv
    <3>7. Submitting(w, o)' => /\ row'[o].status = "pending"
                               /\ \A v \in Workers \ {w} : ~Submitting(v, o)
      BY <2>1, <3>1, <3>3, <3>4
    <3> HIDE DEF u
    <3> QED BY <1>p, <3>1, <3>3, <3>6, <3>7, KnownWorker DEF RowMoves
  <2>2. CASE row[i].status # "pending"
    BY <1>5, <1>b, <1>c, <2>2 DEF LoadPending
  <2> QED BY <2>1, <2>2
<1>6. ASSUME NEW answered \in BOOLEAN, SendAccepted(w, answered) PROVE KnownInv(o)'
  <2> DEFINE i == worker[w].order
             x == <<i, Cardinality(SentFor(i)) + 1>>
             u == [at |-> IF answered THEN "store" ELSE "reject", order |-> i,
                   copy |-> IF answered
                              THEN [worker[w].copy EXCEPT !.status = "submitted", !.xid = x]
                              ELSE [worker[w].copy EXCEPT !.status = "rejected"]]
  <2>1. /\ worker' = [worker EXCEPT ![w] = u] /\ worker[w].at = "send"
        /\ UNCHANGED <<row, query, sweep>>
        /\ lost' = IF answered THEN lost ELSE lost \cup {x}
        /\ exch' = [exch EXCEPT ![x] = [status |-> "submitted", filled |-> 0]]
    BY <1>6 DEF SendAccepted
  <2>2. /\ worker[w].copy \in Rows /\ worker[w].copy.status = "pending" /\ i \in Orders
        /\ Unstored(w) = {}
    BY <1>c, <2>1, StatesType DEF CopiesInv, WorkerCopies, WorkerCopy
  <2>3. worker'[w] = u
    BY <2>1 DEF TypeOK
  <2>4. answered => u.at = "store" /\ u.copy.status = "submitted" /\ u.copy.xid = x
    BY <2>2 DEF Rows
  <2>5. ~answered => u.at = "reject"
    OBVIOUS
  <2>6. u.order = i
    OBVIOUS
  <2>7. \A j \in Orders : SentFor(j)' \subseteq SentFor(j) \cup (IF j = i THEN {x} ELSE {})
    <3>1. \A z \in ExchangeIds : z # x => exch'[z] = exch[z]
      BY <2>1 DEF TypeOK
    <3>2. x[1] = i
      OBVIOUS
    <3> HIDE DEF x
    <3> QED BY <3>1, <3>2 DEF SentFor
  <2> HIDE DEF u
  <2>8. ~Cancelling(w, o)' /\ (Submitting(w, o)' => i = o)
    BY <2>3, <2>4, <2>5, <2>6 DEF Submitting, Cancelling
  <2>9. i = o => Submitting(w, o)
    BY <2>1, <2>2 DEF Submitting
  <2>10. Submitting(w, o)' => /\ row'[o].status = "pending"
                              /\ \A v \in Workers \ {w} : ~Submitting(v, o)
    BY <1>p, <2>1, <2>8, <2>9 DEF KnownInv
  <2>11. answered => x \in Unstored(w)'
    BY <2>3, <2>4 DEF Unstored
  <2>12. \A v \in Workers \ {w} : Unstored(v)' = Unstored(v)
    BY <1>o, <2>1
  <2> HIDE DEF x
  <2>13. SentKnown(o)'
    <3>1. CASE i # o
      <4>1. SentFor(o)' \subseteq SentFor(o)
        BY <2>7, <3>1
      <4> QED BY <2>1, <2>2, <2>12, <4>1, SentKept DEF KnownInv
    <3>2. CASE i = o
      <4>1. SentFor(o) \subseteq lost
        BY <2>2, <2>9, <3>2, NothingSent
      <4>2. SentFor(o)' \subseteq lost \cup {x}
        BY <2>7, <3>2, <4>1
      <4> QED BY <2>1, <2>11, <4>2 DEF SentKnown
    <3> QED BY <3>1, <3>2
  <2>14. RowMoves(o) /\ row' = row
    BY <2>1 DEF RowMoves
  <2> QED BY <1>p, <2>1, <2>8, <2>10, <2>13, <2>14, KnownWorker
<1>7. CASE SendRefused(w)
  <2> DEFINE u == [at |-> "reject", order |-> worker[w].order,
                   copy |-> [worker[w].copy EXCEPT !.status = "rejected"]]
  <2>1. /\ worker' = [worker EXCEPT ![w] = u] /\ worker[w].at = "send"
        /\ UNCHANGED <<exch, row, query, sweep, lost>>
    BY <1>7 DEF SendRefused
  <2>2. worker'[w] = u
    BY <2>1 DEF TypeOK
  <2>3. ~Cancelling(w, o)' /\ (Submitting(w, o)' => worker[w].order = o)
    BY <2>2 DEF Submitting, Cancelling
  <2>4. worker[w].order = o => Submitting(w, o)
    BY <2>1 DEF Submitting, CopiesInv, WorkerCopies, WorkerCopy
  <2>5. SentFor(o)' = SentFor(o) /\ Unstored(w) = {}
    BY <1>c, <2>1 DEF SentFor
  <2>6. SentKnown(o)'
    BY <1>o, <2>1, <2>5, SentKept DEF KnownInv
  <2>7. Submitting(w, o)' => /\ row'[o].status = "pending"
                             /\ \A v \in Workers \ {w} : ~Submitting(v, o)
    BY <1>p, <2>1, <2>3, <2>4 DEF KnownInv
  <2> HIDE DEF u
  <2> QED BY <1>p, <2>1, <2>3, <2>6, <2>7, KnownWorker DEF RowMoves
<1>8. CASE Cancel(w)
  <2> DEFINE i == worker[w].order
             r == worker[w].copy
  <2>1. worker[w] \in [at: {"cancel"}, order: Orders, copy: Rows] /\ r.xid # NoId
    <3>1. worker[w].at = "cancel" /\ worker[w] \in WorkerStates /\ WorkerCopy(exch, worker[w])
      BY <1>8 DEF Cancel, TypeOK, CopiesInv, WorkerCopies
    <3> QED BY <3>1 DEF WorkerStates, IdleWorker, WorkerCopy, CopyOK
  <2>2. UNCHANGED <<row, query, sweep, lost>> /\ Unstored(w) = {}
    BY <1>8, <1>c DEF Cancel
  <2>3. SentFor(o)' \subseteq SentFor(o)
    <3>1. CASE exch' = exch
      BY <3>1 DEF SentFor
    <3>2. CASE exch[r.xid].status \in OpenStatus /\ exch' = [exch EXCEPT ![r.xid].status = "canceled"]
      <4>1. exch[r.xid] # NoOrder
        BY <3>2 DEF NoOrder, OpenStatus
      <4>2. \A z \in ExchangeIds : z # r.xid => exch'[z] = exch[z]
        BY <3>2 DEF TypeOK
      <4> QED BY <4>1, <4>2 DEF SentFor
    <3> QED BY <1>8, <3>1, <3>2 DEF Cancel
  <2>4. CASE worker' = [worker EXCEPT ![w].at = "store", ![w].copy.status = "canceled"]
    <3> DEFINE u == [worker[w] EXCEPT !.at = "store", !.copy.status = "canceled"]
    <3>1. worker' = [worker EXCEPT ![w] = u]
      BY ONLY <2>4
    <3>2. /\ u.at = "store" /\ u.order = i
          /\ u.copy.status = "canceled" /\ u.copy.xid = r.xid
      BY <2>1 DEF Rows
    <3>3. worker'[w] = u
      BY <3>1 DEF TypeOK
    <3> HIDE DEF u
    <3>4. ~Submitting(w, o)' /\ Unstored(w)' = {}
      BY <3>2, <3>3 DEF Submitting, Unstored
    <3>5. Cancelling(w, o)' => Current(o, worker[w].copy)'
      <4> SUFFICES ASSUME i = o PROVE Current(o, worker[w].copy)'
        BY <3>2, <3>3 DEF Cancelling
      <4>1. Cancelling(w, o)
        BY <2>1 DEF Cancelling
      <4> QED BY <2>2, <3>2, <3>3, <4>1 DEF KnownInv, Current
    <3>6. \A v \in Workers \ {w} : Unstored(v)' = Unstored(v)
      BY <1>o, <3>1
    <3>7. SentKnown(o)'
      BY <2>2, <2>3, <3>6, SentKept DEF KnownInv
    <3>8. RowMoves(o) /\ row' = row
      BY <2>2 DEF RowMoves
    <3> QED BY <1>p, <2>2, <3>1, <3>4, <3>5, <3>7, <3>8, KnownWorker
  <2>5. CASE DoReturn(w)
    <3>1. /\ worker' = [worker EXCEPT ![w] = IdleWorker] /\ worker'[w].at = "idle"
          /\ UNCHANGED <<query, sweep>>
      BY <1>i, <2>2, <2>5
    <3>2. ~Submitting(w, o)' /\ ~Cancelling(w, o)'
      BY <1>q, <3>1
    <3>3. \A v \in Workers \ {w} : Unstored(v)' = Unstored(v)
      BY <1>o, <3>1
    <3>4. SentKnown(o)'
      BY <2>2, <2>3, <3>3, SentKept DEF KnownInv
    <3>5. RowMoves(o) /\ row' = row
      BY <2>2 DEF RowMoves
    <3> QED BY <1>p, <3>1, <3>2, <3>4, <3>5, KnownWorker
  <2> QED BY <1>8, <2>4, <2>5 DEF Cancel
<1>9. CASE Store(w)
  <2> DEFINE i == worker[w].order
             r == worker[w].copy
  <2>1. /\ worker[w].at \in {"store", "reject"}
        /\ row' = [row EXCEPT ![i] = r]
        /\ worker' = [worker EXCEPT ![w] = IdleWorker] /\ worker'[w].at = "idle"
        /\ UNCHANGED <<exch, query, sweep, lost>>
    BY <1>9, <1>i DEF Store
  <2>2. /\ i \in Orders /\ r \in Rows
        /\ worker[w].at = "store" => r.status \in {"submitted", "canceled"} /\ r.xid # NoId
        /\ worker[w].at = "reject" => r.status = "rejected"
    BY <2>1, StatesType DEF CopiesInv, WorkerCopies, WorkerCopy
  <2>3. SentFor(o)' = SentFor(o) /\ row'[o] = IF o = i THEN r ELSE row[o]
    BY <2>1, <2>2 DEF SentFor, TypeOK
  <2>q. ~Submitting(w, o)' /\ ~Cancelling(w, o)'
    BY <1>q, <2>1
  <2>u. \A v \in Workers \ {w} : Unstored(v)' = Unstored(v)
    BY <1>o, <2>1
  <2>4. CASE i # o
    <3>1. Unstored(w) \cap SentFor(o) = {}
      <4> SUFFICES ASSUME NEW x \in Unstored(w), x \in SentFor(o) PROVE FALSE
        OBVIOUS
      <4>1. x[1] = i
        BY UnstoredFacts DEF Submitting
      <4> QED BY <2>4, <4>1 DEF SentFor
    <3>2. SentKnown(o)'
      <4> SUFFICES ASSUME NEW x \in SentFor(o), x \notin lost
                   PROVE  \/ row[o] # NoRow /\ row[o].xid = x
                          \/ \E v \in Workers \ {w} : x \in Unstored(v)
        BY <2>1, <2>3, <2>4, <2>u DEF SentKnown
      <4> QED BY <3>1 DEF KnownInv, SentKnown
    <3>3. RowMoves(o) /\ row'[o] = row[o]
      BY <2>3, <2>4 DEF RowMoves
    <3> QED BY <1>p, <2>1, <2>q, <3>2, <3>3, KnownWorker
  <2>5. CASE i = o /\ Cancelling(w, o)
    <3>1. Current(o, r) /\ Unstored(w) = {} /\ r.status = "canceled"
      BY <2>1, <2>5 DEF KnownInv, Cancelling, Unstored
    <3>2. /\ RowMoves(o)
          /\ row[o].status = "pending" => row'[o] = row[o]
          /\ row[o] # NoRow => row'[o] # NoRow /\ row'[o].xid = row[o].xid
      BY <2>1, <2>2, <2>5, <3>1, CurrentMoves
    <3>3. SentKnown(o)'
      BY <2>1, <2>3, <2>u, <3>1, <3>2, SentKept DEF KnownInv
    <3>4. \A v \in Workers : Submitting(v, o) => row'[o].status = "pending"
      BY <1>p, <3>2
    <3> QED BY <2>1, <2>q, <3>2, <3>3, <3>4, KnownWorker
  <2>6. CASE i = o /\ ~Cancelling(w, o)
    <3>1. Submitting(w, o)
      BY <2>1, <2>2, <2>6 DEF Cancelling, Submitting
    <3>2. row[o].status = "pending" /\ \A v \in Workers \ {w} : ~Submitting(v, o)
      BY <3>1 DEF KnownInv
    <3>3. SentKnown(o)'
      <4>1. CASE worker[w].at = "reject"
        BY <1>c, <2>1, <2>3, <3>1, <4>1, NothingSent DEF SentKnown
      <4>2. CASE worker[w].at = "store"
        <5> SUFFICES ASSUME NEW x \in SentFor(o), x \notin lost
                     PROVE  row'[o] # NoRow /\ row'[o].xid = x
          BY <2>1, <2>3 DEF SentKnown
        <5>1. row[o] # NoRow => row[o].xid = NoId
          BY <3>2 DEF FreshInv
        <5>2. x \in ExchangeIds /\ x[1] = o
          BY DEF SentFor
        <5>3. PICK v \in Workers : x \in Unstored(v)
          BY <5>1, <5>2, PendingType DEF KnownInv, SentKnown
        <5>4. v = w
          BY <3>2, <5>2, <5>3, UnstoredFacts
        <5>5. x = r.xid
          BY <5>3, <5>4 DEF Unstored
        <5> QED BY <2>2, <2>3, <2>6, <5>5, PendingType
      <4> QED BY <2>1, <4>1, <4>2
    <3>4. RowMoves(o)
      BY <3>2 DEF RowMoves
    <3> QED BY <2>1, <2>q, <3>2, <3>3, <3>4, KnownWorker
  <2> QED BY <2>4, <2>5, <2>6
<1>10. CASE StoreFails(w)
  BY <1>10, <1>b DEF StoreFails
<1> QED BY <1>1, <1>2, <1>3, <1>4, <1>5, <1>6, <1>7, <1>8, <1>9, <1>10 DEF WorkerStep

\* An order that stays in a shrinking list keeps its copy.
LEMMA ListShrinks ==
  ASSUME NEW f \in Todos, NEW g, NEW k, NEW o, g = Without(f, k), o \in DOMAIN g
  PROVE  o \in DOMAIN f /\ o # k /\ g[o] = f[o]
BY WithoutType

\* Every step of the two reconciliations keeps the strengthening.
LEMMA KnownQueryStep ==
  ASSUME TypeOK, CopiesInv, NEW o \in Orders, KnownInv(o), reverted'[o] = 0, QueryStep
  PROVE  KnownInv(o)'
<1>0. UNCHANGED <<exch, worker, lost>> /\ sweep' = sweep
  BY DEF QueryStep, QueryList, Query, QueryFails, QueryStore, QueryEnds
<1>1. CASE QueryStore
  <2>0. /\ query.at = "store" /\ query.order \in Orders /\ query.copy \in Rows
        /\ Writes(query.order, query.copy)
    BY <1>1, StatesType DEF QueryStore
  <2>1. /\ query.at = "store" /\ query.order \in Orders /\ query.copy \in Rows
        /\ row' = [row EXCEPT ![query.order] = query.copy]
        /\ query' = [at |-> "each", todo |-> query.todo]
    BY <1>1, <2>0, WritesCount DEF QueryStore
  <2>a. query.copy.status = "pending" => reverted'[query.order] > 0
    BY <2>0, WritesCount
  <2>2. CASE query.order = o
    <3>1. Current(o, query.copy) /\ query.copy.status # "pending"
      BY <2>1, <2>2, <2>a DEF KnownInv, ListsCurrent
    <3>2. /\ RowMoves(o)
          /\ row[o].status = "pending" => row'[o] = row[o]
          /\ row[o] # NoRow => row'[o] # NoRow /\ row'[o].xid = row[o].xid
      BY <2>1, <2>2, <3>1, CurrentMoves
    <3>3. ListsCurrent(o)'
      BY <1>0, <2>1, <3>2 DEF KnownInv, ListsCurrent, Current, RowMoves
    <3> QED BY <1>0, <3>2, <3>3, KnownLists
  <2>3. CASE query.order # o
    <3>1. row'[o] = row[o]
      BY <2>1, <2>3 DEF TypeOK
    <3>2. ListsCurrent(o)'
      BY <1>0, <2>1, <3>1 DEF KnownInv, ListsCurrent, Current
    <3> QED BY <1>0, <3>1, <3>2, KnownLists DEF RowMoves
  <2> QED BY <2>2, <2>3
<1>2. CASE row' = row
  <2>1. ASSUME ListsCurrent(o)' PROVE KnownInv(o)'
    BY <1>0, <1>2, <2>1, KnownLists DEF RowMoves
  <2>2. CASE QueryList
    <3>1. o \in DOMAIN ActiveRows => Current(o, ActiveRows[o])
      BY ActiveType DEF Current, OpenStatus
    <3> HIDE DEF ActiveRows
    <3>2. query' = [at |-> "each", todo |-> ActiveRows]
      BY <2>2 DEF QueryList
    <3>3. ListsCurrent(o)'
      BY <1>0, <1>2, <3>1, <3>2 DEF KnownInv, ListsCurrent, Current
    <3> QED BY <2>1, <3>3
  <2>3. ASSUME NEW i \in Orders, Query(i) PROVE KnownInv(o)'
    <3> DEFINE r == query.todo[i]
    <3>0. PICK seen \in Reads(r.xid) :
            query' = [at |-> "store", todo |-> Without(query.todo, i), order |-> i,
                      copy |-> Adopt(r, seen)]
      BY <2>3 DEF Query
    <3> DEFINE new == Adopt(r, seen)
    <3>1. query.at = "each" /\ query.todo \in Todos /\ i \in DOMAIN query.todo
      BY <2>3, StatesType DEF Query
    <3>2. r \in Rows /\ CopyOK(exch, i, r) /\ r.xid # NoId
      BY <2>3, <3>1, TodosType DEF Query, CopiesInv, QueryCopies, TodoCopies
    <3>3. new.xid = r.xid
      BY <3>2, AdoptCopy DEF CopiesInv
    <3>4. query' = [at |-> "store", todo |-> Without(query.todo, i), order |-> i, copy |-> new]
      BY <3>0
    <3>5. i = o => Current(o, r)
      BY <3>1 DEF KnownInv, ListsCurrent
    <3> HIDE DEF new
    <3> DEFINE left == Without(query.todo, i)
    <3>6. o \in DOMAIN left => o \in DOMAIN query.todo /\ left[o] = query.todo[o]
      BY <3>1, WithoutType
    <3> HIDE DEF left
    <3>7. ListsCurrent(o) /\ sweep' = sweep
      BY <1>0, <2>3 DEF KnownInv, Query
    <3>8. o \in DOMAIN query'.todo => Current(o, query.todo[o])'
      BY <1>2, <3>1, <3>4, <3>6, <3>7 DEF ListsCurrent, Current, left
    <3>9. query'.order = o => Current(o, query.copy)'
      BY <1>2, <3>3, <3>4, <3>5 DEF Current
    <3>10. ListsCurrent(o)'
      BY <1>2, <3>7, <3>8, <3>9 DEF ListsCurrent, Current
    <3> QED BY <2>1, <3>10
  <2>4. ASSUME NEW i \in Orders, QueryFails(i) PROVE KnownInv(o)'
    <3>1. query \in [at: {"each"}, todo: Todos]
      BY <2>4 DEF QueryFails, TypeOK, QueryStates, IdleReconciler
    <3>2. query' = [query EXCEPT !.todo = Without(query.todo, i)]
      BY <2>4 DEF QueryFails
    <3>3. query'.at = "each" /\ query'.todo = Without(query.todo, i)
      BY <3>1, <3>2
    <3>a. o \in DOMAIN query'.todo => o \in DOMAIN query.todo /\ query'.todo[o] = query.todo[o]
      BY <3>1, <3>3, ListShrinks
    <3>4. ListsCurrent(o)'
      BY <1>0, <1>2, <3>1, <3>3, <3>a DEF KnownInv, ListsCurrent, Current
    <3> QED BY <2>1, <3>4
  <2>5. CASE QueryEnds
    <3>1. query'.at = "idle"
      BY <2>5 DEF QueryEnds, IdleReconciler
    <3>2. ListsCurrent(o)'
      BY <1>0, <1>2, <3>1 DEF KnownInv, ListsCurrent, Current
    <3> QED BY <2>1, <3>2
  <2> QED BY <1>1, <2>2, <2>3, <2>4, <2>5 DEF QueryStep
<1>3. QueryStore \/ row' = row
  BY DEF QueryStep, QueryList, Query, QueryFails, QueryEnds
<1> QED BY <1>1, <1>2, <1>3

LEMMA KnownSweepStep ==
  ASSUME TypeOK, CopiesInv, NEW o \in Orders, KnownInv(o), reverted'[o] = 0, SweepStep
  PROVE  KnownInv(o)'
<1>0. UNCHANGED <<exch, worker, lost>> /\ query' = query
  BY DEF SweepStep, SweepList, SweepOpen, SweepStore, SweepStoreFails, SweepEnds
<1>a. ASSUME ListsCurrent(o)', row' = row PROVE KnownInv(o)'
  BY <1>0, <1>a, KnownLists DEF RowMoves
<1>b. ASSUME NEW i \in Orders, sweep.at = "each", i \in DOMAIN sweep.todo,
             sweep' = [sweep EXCEPT !.todo = Without(@, i)]
      PROVE  /\ sweep'.at = "each" /\ sweep.todo \in Todos
             /\ sweep'.todo = Without(sweep.todo, i)
  BY <1>b DEF TypeOK, SweepStates, IdleReconciler
<1>1. CASE SweepList
  <2>1. o \in DOMAIN ActiveRows => Current(o, ActiveRows[o])
    BY ActiveType DEF Current, OpenStatus
  <2> HIDE DEF ActiveRows
  <2>2. sweep' = [at |-> "open", todo |-> ActiveRows] /\ row' = row
    BY <1>1 DEF SweepList
  <2>3. ListsCurrent(o)'
    BY <1>0, <2>1, <2>2 DEF KnownInv, ListsCurrent, Current
  <2> QED BY <1>a, <2>2, <2>3
<1>2. CASE SweepOpen
  <2>1. sweep.at = "open" /\ sweep'.at = "each" /\ sweep'.todo = sweep.todo /\ row' = row
    BY <1>2 DEF SweepOpen
  <2>2. ListsCurrent(o)'
    BY <1>0, <2>1 DEF KnownInv, ListsCurrent, Current
  <2> QED BY <1>a, <2>1, <2>2
<1>3. ASSUME NEW i \in Orders, SweepStore(i) PROVE KnownInv(o)'
  <2> DEFINE swept == Swept(sweep.todo[i], sweep.open)
  <2>0. /\ sweep.at = "each" /\ i \in DOMAIN sweep.todo
        /\ row' = row \/ Writes(i, swept)
    BY <1>3 DEF SweepStore
  <2>2. swept \in Rows /\ swept.xid = sweep.todo[i].xid
    BY <2>0, SweptCopy
  <2>b. /\ sweep'.at = "each" /\ sweep.todo \in Todos
        /\ sweep'.todo = Without(sweep.todo, i)
    BY <1>3, <1>b, <2>0 DEF SweepStore
  <2> HIDE DEF swept
  <2>c. \/ row' = row
        \/ /\ row' = [row EXCEPT ![i] = swept]
           /\ swept.status = "pending" => reverted'[i] > 0
    BY <2>0, <2>2, WritesCount
  <2>1. /\ sweep.at = "each" /\ i \in DOMAIN sweep.todo /\ sweep'.at = "each"
        /\ sweep.todo \in Todos /\ sweep'.todo = Without(sweep.todo, i)
        /\ row' = row \/ (row' = [row EXCEPT ![i] = swept] /\ (i = o => swept.status # "pending"))
    BY <2>0, <2>b, <2>c
  <2>a. o \in DOMAIN sweep'.todo =>
          o \in DOMAIN sweep.todo /\ o # i /\ sweep'.todo[o] = sweep.todo[o]
    BY <2>1, ListShrinks
  <2>3. CASE row' = row
    <3>1. ListsCurrent(o)'
      BY <1>0, <2>1, <2>a, <2>3 DEF KnownInv, ListsCurrent, Current
    <3> QED BY <1>a, <2>3, <3>1
  <2>4. CASE row' = [row EXCEPT ![i] = swept] /\ i = o /\ swept.status # "pending"
    <3>1. Current(o, swept)
      BY <2>1, <2>2, <2>4 DEF KnownInv, ListsCurrent, Current
    <3>2. /\ RowMoves(o)
          /\ row[o].status = "pending" => row'[o] = row[o]
          /\ row[o] # NoRow => row'[o] # NoRow /\ row'[o].xid = row[o].xid
      BY <2>2, <2>4, <3>1, CurrentMoves
    <3>3. ListsCurrent(o)'
      <4>1. o \notin DOMAIN sweep'.todo
        BY <2>4, <2>a
      <4>2. \A r : Current(o, r) => Current(o, r)'
        BY <3>2 DEF Current, RowMoves
      <4> QED BY <1>0, <4>1, <4>2 DEF KnownInv, ListsCurrent
    <3> QED BY <1>0, <3>2, <3>3, KnownLists
  <2>5. CASE row' = [row EXCEPT ![i] = swept] /\ i # o
    <3>1. row'[o] = row[o]
      BY <2>5 DEF TypeOK
    <3>2. ListsCurrent(o)'
      BY <1>0, <2>1, <2>a, <3>1 DEF KnownInv, ListsCurrent, Current
    <3> QED BY <1>0, <3>1, <3>2, KnownLists DEF RowMoves
  <2> QED BY <2>1, <2>3, <2>4, <2>5
<1>4. ASSUME NEW i \in Orders, SweepStoreFails(i) PROVE KnownInv(o)'
  <2>1. /\ sweep.at = "each" /\ sweep'.at = "each" /\ sweep.todo \in Todos
        /\ sweep'.todo = Without(sweep.todo, i) /\ row' = row
    BY <1>4, <1>b DEF SweepStoreFails
  <2>a. o \in DOMAIN sweep'.todo =>
          o \in DOMAIN sweep.todo /\ sweep'.todo[o] = sweep.todo[o]
    BY <2>1, ListShrinks
  <2>2. ListsCurrent(o)'
    BY <1>0, <2>1, <2>a DEF KnownInv, ListsCurrent, Current
  <2> QED BY <1>a, <2>1, <2>2
<1>5. CASE SweepEnds
  <2>1. sweep'.at = "idle" /\ row' = row
    BY <1>5 DEF SweepEnds, IdleReconciler
  <2>2. ListsCurrent(o)'
    BY <1>0, <2>1 DEF KnownInv, ListsCurrent, Current
  <2> QED BY <1>a, <2>1, <2>2
<1> QED BY <1>1, <1>2, <1>3, <1>4, <1>5 DEF SweepStep

\* The strengthening holds for every order that two goroutines have not
\* submitted together and whose row no reconciliation has made pending again.
AllKnown == \A o \in Orders \ raced : reverted[o] = 0 => KnownInv(o)

LEMMA KnownStep ==
  TypeOK /\ CopiesInv /\ AllFresh /\ AllKnown /\ [Next]_vars => AllKnown'
<1> SUFFICES ASSUME TypeOK, CopiesInv, AllFresh, AllKnown, [Next]_vars,
                    NEW o \in Orders, o \notin raced', reverted'[o] = 0
             PROVE  KnownInv(o)'
  BY DEF AllKnown
<1>0. reverted[o] = 0
  BY RevertedGrows
<1>1. KnownInv(o) /\ FreshInv(o)
  BY <1>0, RacedGrows DEF AllKnown, AllFresh
<1>2. ASSUME NEW w \in Workers, WorkerStep(w) PROVE KnownInv(o)'
  BY <1>1, <1>2, KnownWorkerStep
<1>3. CASE QueryStep
  BY <1>1, <1>3, KnownQueryStep
<1>4. CASE SweepStep
  BY <1>1, <1>4, KnownSweepStep
<1>5. ASSUME NEW x \in ExchangeIds, Fill(x) \/ ExchangeCloses(x) PROVE KnownInv(o)'
  <2>1. UNCHANGED <<row, worker, query, sweep, lost>>
    BY <1>5 DEF Fill, ExchangeCloses
  <2>2. SentFor(o)' \subseteq SentFor(o)
    BY <1>5, NothingNew
  <2>3. \A w \in Workers : /\ Submitting(w, o)' <=> Submitting(w, o)
                           /\ Cancelling(w, o)' <=> Cancelling(w, o)
                           /\ Unstored(w)' = Unstored(w)
    BY <2>1 DEF Submitting, Cancelling, Unstored
  <2>4. SentKnown(o)'
    BY <1>1, <2>1, <2>2, <2>3, SentKept DEF KnownInv
  <2> QED BY <1>1, <2>1, <2>3, <2>4 DEF KnownInv, ListsCurrent, Current
<1>6. CASE Crash
  <2>1. /\ \A w \in Workers : worker'[w].at = "idle"
        /\ query'.at = "idle" /\ sweep'.at = "idle"
        /\ UNCHANGED <<row, exch>> /\ lost' = lost \cup UNION {Unstored(w) : w \in Workers}
    BY <1>6 DEF Crash, IdleWorker, IdleReconciler
  <2>2. SentFor(o)' = SentFor(o)
    BY <2>1 DEF SentFor
  <2>3. SentKnown(o)'
    BY <1>1, <2>1, <2>2, SentKept DEF KnownInv
  <2>4. \A w \in Workers : ~Submitting(w, o)' /\ ~Cancelling(w, o)'
    BY <2>1 DEF Submitting, Cancelling
  <2>5. ListsCurrent(o)'
    BY <2>1 DEF ListsCurrent
  <2> QED BY <2>3, <2>4, <2>5 DEF KnownInv
<1>7. CASE SwitchGate \/ SwitchTrading \/ UNCHANGED vars
  <2>1. UNCHANGED <<row, exch, worker, query, sweep, lost>>
    BY <1>7 DEF SwitchGate, SwitchTrading, vars
  <2>2. ListsCurrent(o)'
    BY <1>1, <2>1 DEF KnownInv, ListsCurrent, Current
  <2> QED BY <1>1, <2>1, <2>2, KnownLists DEF RowMoves
<1> QED BY <1>2, <1>3, <1>4, <1>5, <1>6, <1>7 DEF Next

\* It holds throughout.
LEMMA KnownInvariant == Spec => []AllKnown
<1>1. Init => AllKnown
  <2> SUFFICES ASSUME Init, NEW o \in Orders PROVE KnownInv(o)
    BY DEF AllKnown
  <2>1. \A w \in Workers : ~Submitting(w, o) /\ ~Cancelling(w, o)
    BY DEF Init, IdleWorker, Submitting, Cancelling
  <2>2. SentFor(o) = {} /\ ListsCurrent(o)
    BY DEF Init, SentFor, ListsCurrent, IdleReconciler
  <2> QED BY <2>1, <2>2 DEF KnownInv, SentKnown
<1> QED BY <1>1, KnownStep, FreshInvariant, CopiesInvariant, PTL DEF Spec

\* The exchange orders made of o that no call has in its hands any more.
Held(o) == SentFor(o) \ (lost \cup UNION {Unstored(w) : w \in Workers})

Pending(o) == row[o] # NoRow /\ row[o].status = "pending"

\* Strengthening for an order that is not raced, whatever the reconciliations write: one
\* goroutine submits it at a time, and while one does, or could begin to, the orders made
\* of it before are no more than the times its row was made pending again.
CountInv(o) ==
  /\ \A v, w \in Workers : Submitting(v, o) /\ Submitting(w, o) => v = w
  /\ Cardinality(Held(o)) <= 1 + reverted[o]
  /\ Pending(o) \/ (\E w \in Workers : Submitting(w, o)) => Cardinality(Held(o)) <= reverted[o]
  /\ row[o] = NoRow => SentFor(o) = {} /\ \A w \in Workers : ~Submitting(w, o)

\* The exchange holds finitely many orders made of one.
LEMMA SentFinite ==
  ASSUME CopiesInv, NEW o \in Orders
  PROVE  IsFiniteSet(SentFor(o))
BY SentCount DEF CopiesInv, ExchangeOK

LEMMA HeldFinite ==
  ASSUME CopiesInv, NEW o \in Orders
  PROVE  IsFiniteSet(Held(o)) /\ Cardinality(Held(o)) \in Nat
<1>1. Held(o) \subseteq SentFor(o)
  BY DEF Held
<1> QED BY <1>1, SentFinite, FS_Subset, FS_CardinalityType

\* One more element makes a set larger by one at most.
LEMMA OneMore ==
  ASSUME NEW S, NEW x, IsFiniteSet(S)
  PROVE  /\ IsFiniteSet(S \cup {x}) /\ Cardinality(S \cup {x}) \in Nat
         /\ Cardinality(S \cup {x}) <= Cardinality(S) + 1
<1>1. IsFiniteSet(S \cup {x}) /\ Cardinality(S) \in Nat
  BY FS_AddElement, FS_CardinalityType
<1>2. Cardinality(S \cup {x}) = Cardinality(S) \/ Cardinality(S \cup {x}) = Cardinality(S) + 1
  BY FS_AddElement
<1> QED BY <1>1, <1>2

\* A step after which no more orders are held, and the row is pending, an order submitted or
\* the row missing only if it was so before.
LEMMA CountKept ==
  ASSUME TypeOK, CopiesInv, NEW o \in Orders, CountInv(o),
         Held(o)' \subseteq Held(o), reverted'[o] = reverted[o],
         \A w \in Workers : Submitting(w, o)' => Submitting(w, o),
         Pending(o)' => Pending(o),
         row'[o] = NoRow => row[o] = NoRow /\ SentFor(o)' \subseteq SentFor(o)
  PROVE  CountInv(o)'
<1>1. Cardinality(Held(o)) \in Nat /\ reverted[o] \in Nat
  BY HeldFinite DEF TypeOK
<1>2. Cardinality(Held(o)') \in Nat /\ Cardinality(Held(o)') <= Cardinality(Held(o))
  BY HeldFinite, FS_Subset, FS_CardinalityType
<1>3. Cardinality(Held(o)') <= 1 + reverted'[o]
  BY <1>1, <1>2 DEF CountInv
<1>4. ASSUME Pending(o)' \/ (\E w \in Workers : Submitting(w, o)')
      PROVE  Cardinality(Held(o)') <= reverted'[o]
  <2>1. Cardinality(Held(o)) <= reverted[o]
    BY <1>4 DEF CountInv
  <2> QED BY <1>1, <1>2, <2>1
<1> QED BY <1>3, <1>4 DEF CountInv

\* The ids of one order that its submitter holds are one at most.
LEMMA OneUnstored ==
  ASSUME TypeOK, CopiesInv, NEW o \in Orders, CountInv(o)
  PROVE  \/ SentFor(o) \ lost \subseteq Held(o)
         \/ \E w \in Workers : \E x : /\ Submitting(w, o)
                                      /\ SentFor(o) \ lost \subseteq Held(o) \cup {x}
<1> SUFFICES ASSUME NEW x \in SentFor(o) \ lost, x \notin Held(o)
             PROVE  \E w \in Workers : \E z : /\ Submitting(w, o)
                                              /\ SentFor(o) \ lost \subseteq Held(o) \cup {z}
  OBVIOUS
<1>a. \A y \in SentFor(o) \ lost : y \notin Held(o) =>
        \E v \in Workers : y \in Unstored(v) /\ Submitting(v, o)
  <2> SUFFICES ASSUME NEW y \in SentFor(o) \ lost, y \notin Held(o)
               PROVE  \E v \in Workers : y \in Unstored(v) /\ Submitting(v, o)
    OBVIOUS
  <2>1. PICK v \in Workers : y \in Unstored(v)
    BY DEF Held
  <2>2. Submitting(v, y[1]) /\ y[1] = o
    BY <2>1, UnstoredFacts DEF SentFor
  <2> QED BY <2>1, <2>2
<1>1. PICK w \in Workers : x \in Unstored(w) /\ Submitting(w, o)
  BY <1>a
<1>2. \A y \in SentFor(o) \ lost : y \notin Held(o) => y = x
  <2> SUFFICES ASSUME NEW y \in SentFor(o) \ lost, y \notin Held(o) PROVE y = x
    OBVIOUS
  <2>1. PICK v \in Workers : y \in Unstored(v) /\ Submitting(v, o)
    BY <1>a
  <2>2. v = w
    BY <1>1, <2>1 DEF CountInv
  <2> QED BY <1>1, <2>1, <2>2 DEF Unstored
<1> QED BY <1>1, <1>2

\* Every step of a goroutine keeps the strengthening.
LEMMA CountWorkerStep ==
  ASSUME TypeOK, CopiesInv, NEW o \in Orders, CountInv(o), o \notin raced',
         NEW w \in Workers, WorkerStep(w)
  PROVE  CountInv(o)'
<1>t. worker \in [Workers -> WorkerStates] /\ row \in [Orders -> Rows \cup {NoRow}]
  BY DEF TypeOK
<1>r. reverted' = reverted
  BY DEF WorkerStep, EnterCreate, Create, EnterSubmit, EnterCancel, LoadPending,
         SendAccepted, SendRefused, Cancel, Store, StoreFails
<1>v. \A v \in Workers \ {w} :
        /\ worker'[v] = worker[v] /\ Unstored(v)' = Unstored(v)
        /\ Submitting(v, o)' <=> Submitting(v, o)
  <2>1. \A v \in Workers \ {w} : worker'[v] = worker[v]
    BY <1>t DEF WorkerStep, EnterCreate, Create, EnterSubmit, EnterCancel, LoadPending,
       SendAccepted, SendRefused, Cancel, Store, StoreFails, DoReturn
  <2> QED BY <2>1 DEF Unstored, Submitting
<1>i. DoReturn(w) => worker'[w].at = "idle" /\ ~Submitting(w, o)' /\ Unstored(w)' = {}
  BY <1>t DEF DoReturn, IdleWorker, Submitting, Unstored
<1>h. ASSUME SentFor(o)' \subseteq SentFor(o), lost \subseteq lost',
             \A x \in Unstored(w) : x \in lost' \/ x \in Unstored(w)' \/ x \notin SentFor(o)
      PROVE  Held(o)' \subseteq Held(o)
  BY <1>h, <1>v DEF Held
\* Steps that write no row of o, and after which w submits o only if it did before.
<1>k. ASSUME Held(o)' \subseteq Held(o), row'[o] = row[o], Submitting(w, o)' => Submitting(w, o),
             row[o] = NoRow => SentFor(o)' \subseteq SentFor(o)
      PROVE  CountInv(o)'
  <2>1. Pending(o)' => Pending(o)
    BY <1>k DEF Pending
  <2> QED BY <1>k, <1>r, <1>v, <2>1, CountKept
<1>e. ASSUME UNCHANGED <<exch, lost, row>>, Unstored(w) = {}, Submitting(w, o)' => Submitting(w, o)
      PROVE  CountInv(o)'
  <2>1. SentFor(o)' = SentFor(o)
    BY <1>e DEF SentFor
  <2>2. Held(o)' \subseteq Held(o)
    BY <1>e, <1>h, <2>1
  <2> QED BY <1>e, <1>k, <2>1, <2>2
<1>c. worker[w].at # "store" => Unstored(w) = {}
  BY DEF Unstored
<1>1. CASE EnterCreate(w)
  <2>1. worker'[w].at = "create" /\ worker[w].at = "idle" /\ UNCHANGED <<exch, lost, row>>
    BY <1>1, <1>t DEF EnterCreate
  <2> QED BY <1>c, <1>e, <2>1 DEF Submitting
<1>2. ASSUME NEW i \in Orders, Create(w, i) PROVE CountInv(o)'
  <2>1. worker[w].at = "create" /\ UNCHANGED <<exch, lost>> /\ DoReturn(w)
    BY <1>2 DEF Create
  <2>2. CASE row' = row
    BY <1>c, <1>e, <1>i, <2>1, <2>2
  <2>3. CASE row[i] = NoRow /\ row' = [row EXCEPT ![i] = PendingRow] /\ i # o
    <3>1. SentFor(o)' = SentFor(o) /\ row'[o] = row[o]
      BY <1>t, <2>1, <2>3 DEF SentFor
    <3>2. Held(o)' \subseteq Held(o)
      BY <1>c, <1>h, <2>1, <3>1
    <3> QED BY <1>i, <1>k, <2>1, <3>1, <3>2
  <2>4. CASE row[i] = NoRow /\ row' = [row EXCEPT ![i] = PendingRow] /\ i = o
    <3>1. SentFor(o)' = {} /\ \A v \in Workers : ~Submitting(v, o)
      BY <2>1, <2>4 DEF SentFor, CountInv
    <3>2. \A v \in Workers : ~Submitting(v, o)'
      BY <1>i, <1>v, <2>1, <3>1
    <3>3. Cardinality(Held(o)') = 0
      BY <3>1, FS_EmptySet DEF Held
    <3>4. row'[o] # NoRow /\ reverted'[o] \in Nat
      BY <1>r, <1>t, <2>4, PendingType DEF TypeOK
    <3> QED BY <3>2, <3>3, <3>4 DEF CountInv
  <2> QED BY <1>2, <2>2, <2>3, <2>4 DEF Create
<1>3. ASSUME NEW i \in Orders, EnterSubmit(w, i) PROVE CountInv(o)'
  <2>1. worker'[w].at = "load" /\ worker[w].at = "idle" /\ UNCHANGED <<exch, lost, row>>
    BY <1>3, <1>t DEF EnterSubmit
  <2> QED BY <1>c, <1>e, <2>1 DEF Submitting
<1>4. ASSUME NEW i \in Orders, EnterCancel(w, i) PROVE CountInv(o)'
  <2>1. worker'[w].at = "cancel" /\ worker[w].at = "idle" /\ UNCHANGED <<exch, lost, row>>
    BY <1>4, <1>t DEF EnterCancel
  <2> QED BY <1>c, <1>e, <2>1 DEF Submitting
<1>5. CASE LoadPending(w)
  <2> DEFINE i == worker[w].order
             u == [at |-> "send", order |-> i, copy |-> row[i]]
  <2>1. worker[w].at = "load" /\ UNCHANGED <<exch, lost, row>>
    BY <1>5 DEF LoadPending
  <2>2. CASE DoReturn(w)
    BY <1>c, <1>e, <1>i, <2>1, <2>2
  <2>3. CASE /\ row[i].status = "pending" /\ worker' = [worker EXCEPT ![w] = u]
             /\ raced' = raced \cup {j \in {i} : \E v \in Workers \ {w} : Submitting(v, j)}
    <3>1. worker'[w] = u
      BY <1>t, <2>3
    <3>2. Submitting(w, o)' => i = o
      BY <3>1 DEF Submitting
    <3>3. CASE i # o
      BY <1>c, <1>e, <2>1, <3>2, <3>3
    <3>4. CASE i = o
      <4>1. \A v \in Workers \ {w} : ~Submitting(v, o)'
        BY <1>v, <2>3, <3>4
      <4>2. Pending(o)
        BY <2>3, <3>4 DEF Pending, NoRow
      <4>3. Held(o)' = Held(o)
        <5>1. Unstored(w) = {} /\ Unstored(w)' = {}
          BY <2>1, <3>1 DEF Unstored
        <5>2. \A v \in Workers : Unstored(v)' = Unstored(v)
          BY <1>v, <5>1
        <5> QED BY <2>1, <5>2 DEF Held, SentFor
      <4>4. row'[o] # NoRow /\ UNCHANGED <<row, reverted>>
        BY <1>r, <2>1, <4>2 DEF Pending
      <4> QED BY <4>1, <4>2, <4>3, <4>4 DEF CountInv
    <3> QED BY <3>3, <3>4
  <2> QED BY <1>5, <2>2, <2>3 DEF LoadPending
<1>6. ASSUME NEW answered \in BOOLEAN, SendAccepted(w, answered) PROVE CountInv(o)'
  <2> DEFINE i == worker[w].order
             x == <<i, Cardinality(SentFor(i)) + 1>>
             sent == [worker[w].copy EXCEPT !.status = "submitted", !.xid = x]
             refused == [worker[w].copy EXCEPT !.status = "rejected"]
  <2>1. /\ worker' = [worker EXCEPT ![w] =
             [at |-> IF answered THEN "store" ELSE "reject", order |-> i,
              copy |-> IF answered THEN sent ELSE refused]]
        /\ worker[w].at = "send" /\ row' = row
        /\ lost' = IF answered THEN lost ELSE lost \cup {x}
        /\ exch' = [exch EXCEPT ![x] = [status |-> "submitted", filled |-> 0]]
    BY <1>6 DEF SendAccepted
  <2>2. worker[w].copy \in Rows /\ worker[w].copy.status = "pending" /\ x \in ExchangeIds
    BY <1>6, <2>1, StatesType, SendsNew DEF CopiesInv, WorkerCopies, WorkerCopy
  <2>3. \A j \in Orders : SentFor(j)' \subseteq SentFor(j) \cup (IF j = i THEN {x} ELSE {})
    <3>1. \A z \in ExchangeIds : z # x => exch'[z] = exch[z]
      BY <2>1 DEF TypeOK
    <3>2. x[1] = i
      OBVIOUS
    <3> HIDE DEF x
    <3> QED BY <3>1, <3>2 DEF SentFor
  <2>x. x[1] = i
    OBVIOUS
  <2> HIDE DEF x
  <2>4. sent.status = "submitted" /\ sent.xid = x
    BY ONLY <2>2 DEF sent, Rows
  <2> HIDE DEF sent, refused
  <2>5. /\ worker'[w].at = IF answered THEN "store" ELSE "reject"
        /\ worker'[w].order = i
        /\ worker'[w].copy = IF answered THEN sent ELSE refused
    BY <1>t, <2>1
  <2>6. x \in lost' \/ x \in Unstored(w)'
    BY <2>1, <2>4, <2>5 DEF Unstored
  <2>7. Unstored(w) = {} /\ (i = o => Submitting(w, o))
    BY <2>1, <2>2 DEF Unstored, Submitting
  <2>8. Submitting(w, o)' => Submitting(w, o)
    BY <2>5, <2>7 DEF Submitting
  <2>9. Held(o)' \subseteq Held(o)
    <3>1. \A z \in Held(o)' : z \in SentFor(o) /\ z \notin lost
      BY <2>1, <2>3, <2>6 DEF Held
    <3>2. \A z, v : v \in Workers /\ z \in Unstored(v) => z \in UNION {Unstored(a)' : a \in Workers}
      BY <1>v, <2>7
    <3> QED BY <3>1, <3>2 DEF Held
  <2>10. row[o] = NoRow => SentFor(o)' \subseteq SentFor(o)
    BY <2>3, <2>7 DEF CountInv
  <2> QED BY <1>k, <2>1, <2>8, <2>9, <2>10
<1>7. CASE SendRefused(w)
  <2> DEFINE u == [at |-> "reject", order |-> worker[w].order,
                   copy |-> [worker[w].copy EXCEPT !.status = "rejected"]]
  <2>1. /\ worker' = [worker EXCEPT ![w] = u] /\ worker[w].at = "send"
        /\ UNCHANGED <<exch, row, lost>>
    BY <1>7 DEF SendRefused
  <2>2. worker'[w] = u
    BY <1>t, <2>1
  <2>3. worker'[w].order = worker[w].order
    BY <2>2
  <2>4. Submitting(w, o)' => Submitting(w, o)
    BY <2>1, <2>3 DEF Submitting, CopiesInv, WorkerCopies, WorkerCopy
  <2> QED BY <1>c, <1>e, <2>1, <2>4
<1>8. CASE Cancel(w)
  <2> DEFINE r == worker[w].copy
  <2>1. worker[w] \in [at: {"cancel"}, order: Orders, copy: Rows]
    BY <1>8, <1>t DEF Cancel, WorkerStates, IdleWorker
  <2>2. UNCHANGED <<row, lost>> /\ Unstored(w) = {}
    BY <1>8, <1>c DEF Cancel
  <2>3. SentFor(o)' \subseteq SentFor(o)
    <3>1. CASE exch' = exch
      BY <3>1 DEF SentFor
    <3>2. CASE exch[r.xid].status \in OpenStatus /\ exch' = [exch EXCEPT ![r.xid].status = "canceled"]
      <4>1. exch[r.xid] # NoOrder
        BY <3>2 DEF NoOrder, OpenStatus
      <4>2. \A z \in ExchangeIds : z # r.xid => exch'[z] = exch[z]
        BY <3>2 DEF TypeOK
      <4> QED BY <4>1, <4>2 DEF SentFor
    <3> QED BY <1>8, <3>1, <3>2 DEF Cancel
  <2>4. ~Submitting(w, o)'
    <3>1. CASE worker' = [worker EXCEPT ![w].at = "store", ![w].copy.status = "canceled"]
      <4>1. worker'[w].copy.status = "canceled"
        BY <1>t, <2>1, <3>1 DEF Rows
      <4> QED BY <4>1 DEF Submitting
    <3> QED BY <1>8, <1>i, <3>1 DEF Cancel
  <2>5. Held(o)' \subseteq Held(o)
    BY <1>h, <2>2, <2>3
  <2> QED BY <1>k, <2>2, <2>3, <2>4, <2>5
<1>9. CASE Store(w)
  <2> DEFINE i == worker[w].order
             r == worker[w].copy
  <2>1. /\ worker[w].at \in {"store", "reject"}
        /\ row' = [row EXCEPT ![i] = r] /\ DoReturn(w)
        /\ UNCHANGED <<exch, lost>>
    BY <1>9 DEF Store
  <2>2. /\ i \in Orders /\ r \in Rows
        /\ worker[w].at = "store" => r.status \in {"submitted", "canceled"}
        /\ worker[w].at = "reject" => r.status = "rejected"
    BY <2>1, StatesType DEF CopiesInv, WorkerCopies, WorkerCopy
  <2>3. SentFor(o)' = SentFor(o) /\ row'[o] = IF o = i THEN r ELSE row[o]
    BY <1>t, <2>1, <2>2 DEF SentFor
  <2>4. CASE i # o
    <3>1. \A x \in Unstored(w) : x \notin SentFor(o)
      <4> SUFFICES ASSUME NEW x \in Unstored(w), x \in SentFor(o) PROVE FALSE
        OBVIOUS
      <4>1. x[1] = i
        BY UnstoredFacts DEF Submitting
      <4> QED BY <2>4, <4>1 DEF SentFor
    <3>2. Held(o)' \subseteq Held(o)
      BY <1>h, <2>1, <2>3, <3>1
    <3> QED BY <1>i, <1>k, <2>1, <2>3, <2>4, <3>2
  <2>5. CASE i = o /\ r.status # "submitted"
    <3>1. Unstored(w) = {}
      BY <2>5 DEF Unstored
    <3>2. Held(o)' \subseteq Held(o)
      BY <1>h, <2>1, <2>3, <3>1
    <3>3. ~Pending(o)' /\ row'[o] # NoRow
      BY <2>1, <2>2, <2>3, <2>5, PendingType DEF Pending
    <3>4. \A v \in Workers : Submitting(v, o)' => Submitting(v, o)
      BY <1>i, <1>v, <2>1
    <3> QED BY <1>r, <3>2, <3>3, <3>4, CountKept
  <2>6. CASE i = o /\ r.status = "submitted"
    <3>1. Submitting(w, o) /\ Unstored(w) = {r.xid}
      BY <2>1, <2>2, <2>6 DEF Submitting, Unstored
    <3>2. \A v \in Workers : ~Submitting(v, o)'
      BY <1>i, <1>v, <2>1, <3>1 DEF CountInv
    <3>3. Cardinality(Held(o)) <= reverted[o]
      BY <3>1 DEF CountInv
    <3>4. Held(o)' \subseteq Held(o) \cup {r.xid}
      BY <1>v, <2>1, <2>3, <3>1 DEF Held
    <3>5. /\ IsFiniteSet(Held(o) \cup {r.xid})
          /\ Cardinality(Held(o) \cup {r.xid}) <= Cardinality(Held(o)) + 1
      BY HeldFinite, OneMore
    <3>6. Cardinality(Held(o)') <= Cardinality(Held(o) \cup {r.xid})
      BY <3>4, <3>5, FS_Subset
    <3>7. /\ Cardinality(Held(o)) \in Nat /\ Cardinality(Held(o) \cup {r.xid}) \in Nat
          /\ Cardinality(Held(o)') \in Nat /\ reverted[o] \in Nat
      BY <3>4, <3>5, HeldFinite, FS_Subset, FS_CardinalityType DEF TypeOK
    <3>8. Cardinality(Held(o)') <= 1 + reverted'[o]
      BY <1>r, <3>3, <3>5, <3>6, <3>7
    <3>9. ~Pending(o)' /\ row'[o] # NoRow
      BY <2>2, <2>3, <2>6, PendingType DEF Pending
    <3> QED BY <3>2, <3>8, <3>9 DEF CountInv
  <2> QED BY <2>4, <2>5, <2>6
<1>10. CASE StoreFails(w)
  <2>1. UNCHANGED <<exch, row>> /\ lost' = lost \cup Unstored(w) /\ DoReturn(w)
    BY <1>10 DEF StoreFails
  <2>2. SentFor(o)' = SentFor(o)
    BY <2>1 DEF SentFor
  <2>3. Held(o)' \subseteq Held(o)
    BY <1>h, <2>1, <2>2
  <2> QED BY <1>i, <1>k, <2>1, <2>2, <2>3
<1> QED BY <1>1, <1>2, <1>3, <1>4, <1>5, <1>6, <1>7, <1>8, <1>9, <1>10 DEF WorkerStep

\* A reconciliation that makes a row pending again allows for one more order.
LEMMA CountWrites ==
  ASSUME TypeOK, CopiesInv, NEW o \in Orders, CountInv(o), UNCHANGED <<exch, worker, lost>>,
         NEW i \in Orders, NEW r \in Rows, Writes(i, r)
  PROVE  CountInv(o)'
<1>1. /\ SentFor(o)' = SentFor(o) /\ Held(o)' = Held(o)
      /\ \A w \in Workers : Submitting(w, o)' <=> Submitting(w, o)
  BY DEF SentFor, Held, Submitting, Unstored
<1>2. row'[o] = IF o = i THEN r ELSE row[o]
  BY WritesCount DEF TypeOK
<1>3. CASE i = o /\ r.status = "pending"
  <2>1. reverted'[o] = reverted[o] + 1 /\ reverted[o] \in Nat
    BY <1>3, WritesCount DEF TypeOK
  <2>2. Cardinality(Held(o)) \in Nat
    BY HeldFinite
  <2>3. Cardinality(Held(o)') <= reverted'[o]
    BY <1>1, <2>1, <2>2 DEF CountInv
  <2>4. Cardinality(Held(o)') <= 1 + reverted'[o]
    BY <1>1, <2>1, <2>2, <2>3
  <2>5. row'[o] # NoRow
    BY <1>2, <1>3, PendingType
  <2> QED BY <1>1, <2>3, <2>4, <2>5 DEF CountInv
<1>4. CASE i # o \/ r.status # "pending"
  <2>1. reverted'[o] = reverted[o]
    BY <1>4, WritesCount
  <2>2. (Pending(o)' => Pending(o)) /\ (row'[o] = NoRow => row[o] = NoRow)
    BY <1>2, <1>4, PendingType DEF Pending
  <2> QED BY <1>1, <2>1, <2>2, CountKept
<1> QED BY <1>3, <1>4

AllCounted == \A o \in Orders \ raced : CountInv(o)

LEMMA CountStep == TypeOK /\ CopiesInv /\ AllCounted /\ [Next]_vars => AllCounted'
<1> SUFFICES ASSUME TypeOK, CopiesInv, AllCounted, [Next]_vars, NEW o \in Orders, o \notin raced'
             PROVE  CountInv(o)'
  BY DEF AllCounted
<1>1. CountInv(o)
  BY RacedGrows DEF AllCounted
<1>2. ASSUME NEW w \in Workers, WorkerStep(w) PROVE CountInv(o)'
  BY <1>1, <1>2, CountWorkerStep
<1>a. ASSUME UNCHANGED <<row, worker, lost, reverted>>, SentFor(o)' \subseteq SentFor(o)
      PROVE  CountInv(o)'
  <2>1. \A w \in Workers : (Submitting(w, o)' <=> Submitting(w, o)) /\ Unstored(w)' = Unstored(w)
    BY <1>a DEF Submitting, Unstored
  <2>2. Held(o)' \subseteq Held(o)
    BY <1>a, <2>1 DEF Held
  <2> QED BY <1>1, <1>a, <2>1, <2>2, CountKept DEF Pending
<1>b. exch' = exch => SentFor(o)' \subseteq SentFor(o)
  BY DEF SentFor
<1>3. CASE QueryStep
  <2>1. UNCHANGED <<exch, worker, lost>>
    BY <1>3 DEF QueryStep, QueryList, Query, QueryFails, QueryStore, QueryEnds
  <2>2. QueryStore \/ UNCHANGED <<row, reverted>>
    BY <1>3 DEF QueryStep, QueryList, Query, QueryFails, QueryEnds
  <2>3. CASE QueryStore
    BY <1>1, <2>1, <2>3, StatesType, CountWrites DEF QueryStore
  <2> QED BY <1>a, <1>b, <2>1, <2>2, <2>3
<1>4. CASE SweepStep
  <2>1. UNCHANGED <<exch, worker, lost>>
    BY <1>4 DEF SweepStep, SweepList, SweepOpen, SweepStore, SweepStoreFails, SweepEnds
  <2>2. (\E i \in Orders : SweepStore(i)) \/ UNCHANGED <<row, reverted>>
    BY <1>4 DEF SweepStep, SweepList, SweepOpen, SweepStoreFails, SweepEnds
  <2>3. ASSUME NEW i \in Orders, SweepStore(i) PROVE CountInv(o)'
    <3> DEFINE swept == Swept(sweep.todo[i], sweep.open)
    <3>1. /\ sweep.at = "each" /\ i \in DOMAIN sweep.todo
          /\ UNCHANGED <<row, reverted>> \/ Writes(i, swept)
      BY <2>3 DEF SweepStore
    <3>2. swept \in Rows
      BY <3>1, SweptCopy
    <3> HIDE DEF swept
    <3> QED BY <1>1, <1>a, <1>b, <2>1, <3>1, <3>2, CountWrites
  <2> QED BY <1>a, <1>b, <2>1, <2>2, <2>3
<1>5. ASSUME NEW x \in ExchangeIds, Fill(x) \/ ExchangeCloses(x) PROVE CountInv(o)'
  <2>1. SentFor(o)' \subseteq SentFor(o)
    BY <1>5, NothingNew
  <2> QED BY <1>5, <1>a, <2>1 DEF Fill, ExchangeCloses
<1>6. CASE Crash
  <2>1. /\ \A w \in Workers : worker'[w].at = "idle"
        /\ UNCHANGED <<row, exch, reverted>> /\ lost' = lost \cup UNION {Unstored(w) : w \in Workers}
    BY <1>6 DEF Crash, IdleWorker
  <2>2. \A w \in Workers : ~Submitting(w, o)'
    BY <2>1 DEF Submitting
  <2>3. SentFor(o)' \subseteq SentFor(o)
    BY <2>1 DEF SentFor
  <2>4. Held(o)' \subseteq Held(o)
    BY <2>1, <2>3 DEF Held
  <2> QED BY <1>1, <2>1, <2>2, <2>3, <2>4, CountKept DEF Pending
<1>7. CASE SwitchGate \/ SwitchTrading \/ UNCHANGED vars
  <2>1. UNCHANGED <<row, exch, worker, lost, reverted>>
    BY <1>7 DEF SwitchGate, SwitchTrading, vars
  <2> QED BY <1>a, <1>b, <2>1
<1> QED BY <1>2, <1>3, <1>4, <1>5, <1>6, <1>7 DEF Next

LEMMA CountInvariant == Spec => []AllCounted
<1>1. Init => AllCounted
  <2> SUFFICES ASSUME Init, NEW o \in Orders PROVE CountInv(o)
    BY DEF AllCounted
  <2>1. \A w \in Workers : ~Submitting(w, o)
    BY DEF Init, IdleWorker, Submitting
  <2>2. SentFor(o) = {} /\ ~Pending(o) /\ reverted[o] = 0
    BY DEF Init, SentFor, Pending
  <2>3. Cardinality(Held(o)) = 0
    BY <2>2, FS_EmptySet DEF Held
  <2> QED BY <2>1, <2>2, <2>3 DEF CountInv
<1> QED BY <1>1, CountStep, CopiesInvariant, PTL DEF Spec

\* However many goroutines submit, cancel and reconcile an order, and wherever
\* writes fail and the process crashes, the order reaches the exchange once, and once
\* more for each time a reconciliation has made its row pending again; and while none
\* has, it stays known, unless an answer, a write or a crash lost its id or two
\* goroutines loaded the pending row together (SubmitOrder, CancelOrder, both
\* ReconcileOrders).
THEOREM KnownTheorem == Spec => []LiveOrdersKnown
<1>1. TypeOK /\ CopiesInv /\ AllKnown /\ AllCounted => LiveOrdersKnown
  <2> SUFFICES ASSUME TypeOK, CopiesInv, AllKnown, AllCounted, NEW o \in Orders \ raced
               PROVE  /\ reverted[o] = 0 =>
                           \A x \in SentFor(o) \ lost :
                             exch[x].status \in OpenStatus =>
                               row[o].xid = x \/ \E w \in Workers : x \in Unstored(w)
                      /\ Cardinality(SentFor(o) \ lost) <= 1 + reverted[o]
    BY DEF LiveOrdersKnown
  <2>1. reverted[o] = 0 => SentKnown(o)
    BY DEF AllKnown, KnownInv
  <2>2. CountInv(o)
    BY DEF AllCounted
  <2>3. reverted[o] \in Nat /\ Cardinality(Held(o)) \in Nat /\ IsFiniteSet(Held(o))
    BY HeldFinite DEF TypeOK
  <2>4. Cardinality(SentFor(o) \ lost) <= 1 + reverted[o]
    <3>1. CASE SentFor(o) \ lost \subseteq Held(o)
      <4>1. /\ Cardinality(SentFor(o) \ lost) \in Nat
            /\ Cardinality(SentFor(o) \ lost) <= Cardinality(Held(o))
        BY <2>3, <3>1, FS_Subset, FS_CardinalityType
      <4> QED BY <2>2, <2>3, <4>1 DEF CountInv
    <3>2. ASSUME NEW w \in Workers, NEW x, Submitting(w, o),
                 SentFor(o) \ lost \subseteq Held(o) \cup {x}
          PROVE  Cardinality(SentFor(o) \ lost) <= 1 + reverted[o]
      <4>1. /\ IsFiniteSet(Held(o) \cup {x})
            /\ Cardinality(Held(o) \cup {x}) <= Cardinality(Held(o)) + 1
        BY <2>3, OneMore
      <4>2. /\ Cardinality(SentFor(o) \ lost) \in Nat /\ Cardinality(Held(o) \cup {x}) \in Nat
            /\ Cardinality(SentFor(o) \ lost) <= Cardinality(Held(o) \cup {x})
        BY <3>2, <4>1, FS_Subset, FS_CardinalityType
      <4>3. Cardinality(Held(o)) <= reverted[o]
        BY <2>2, <3>2 DEF CountInv
      <4> QED BY <2>3, <4>1, <4>2, <4>3
    <3> QED BY <2>2, <3>1, <3>2, OneUnstored
  <2> QED BY <2>1, <2>4 DEF SentKnown
<1> QED BY <1>1, KnownInvariant, CountInvariant, CopiesInvariant, PTL

-----------------------------------------------------------------------------
(* What a row stands for, and who marks it canceled. *)

\* Strengthening: a copy that CancelOrder or the queries are about to write as
\* canceled is of an order the exchange has canceled.
CanceledCopy(u) ==
  u.at = "store" /\ u.copy.status = "canceled" => exch[u.copy.xid].status = "canceled"

CanceledCopies == (\A w \in Workers : CanceledCopy(worker[w])) /\ CanceledCopy(query)

\* A goroutine comes by such a copy from the exchange's answer to CancelOrder only.
LEMMA CanceledWorker ==
  ASSUME TypeOK, CopiesInv, NEW w \in Workers, WorkerStep(w)
  PROVE  /\ query' = query
         /\ \A v \in Workers \ {w} : worker'[v] = worker[v]
         /\ CanceledCopy(worker[w])'
<1>t. worker \in [Workers -> WorkerStates]
  BY DEF TypeOK
<1>1. query' = query /\ \A v \in Workers \ {w} : worker'[v] = worker[v]
  BY <1>t DEF WorkerStep, EnterCreate, Create, EnterSubmit, EnterCancel, LoadPending,
     SendAccepted, SendRefused, Cancel, Store, StoreFails, DoReturn
<1> SUFFICES CanceledCopy(worker[w])'
  BY <1>1
<1>a. ASSUME worker'[w].at # "store" PROVE CanceledCopy(worker[w])'
  BY <1>a DEF CanceledCopy
<1>b. DoReturn(w) => worker'[w].at # "store"
  BY <1>t DEF DoReturn, IdleWorker
<1>2. CASE EnterCreate(w)
  BY <1>2, <1>a, <1>t DEF EnterCreate
<1>3. ASSUME NEW o \in Orders, EnterSubmit(w, o) \/ EnterCancel(w, o)
      PROVE  CanceledCopy(worker[w])'
  BY <1>3, <1>a, <1>t DEF EnterSubmit, EnterCancel
<1>4. CASE LoadPending(w)
  <2>1. DoReturn(w) \/ worker' = [worker EXCEPT ![w] =
          [at |-> "send", order |-> worker[w].order, copy |-> row[worker[w].order]]]
    BY <1>4 DEF LoadPending
  <2>2. worker'[w].at # "store"
    BY <1>b, <1>t, <2>1
  <2> QED BY <1>a, <2>2
<1>5. ASSUME NEW answered \in BOOLEAN, SendAccepted(w, answered) PROVE CanceledCopy(worker[w])'
  <2> DEFINE z == <<worker[w].order, Cardinality(SentFor(worker[w].order)) + 1>>
             sent == [worker[w].copy EXCEPT !.status = "submitted", !.xid = z]
             refused == [worker[w].copy EXCEPT !.status = "rejected"]
  <2>1. worker[w].copy \in Rows /\ z \in ExchangeIds
    BY <1>5, StatesType, SendsNew DEF SendAccepted
  <2>2. worker' = [worker EXCEPT ![w] =
          [at |-> IF answered THEN "store" ELSE "reject", order |-> worker[w].order,
           copy |-> IF answered THEN sent ELSE refused]]
    BY <1>5 DEF SendAccepted
  <2> HIDE DEF z
  <2>3. sent.status = "submitted"
    BY <2>1, RowFields
  <2> HIDE DEF sent, refused
  <2>4. /\ worker'[w].at = IF answered THEN "store" ELSE "reject"
        /\ worker'[w].copy = IF answered THEN sent ELSE refused
    BY <1>t, <2>2
  <2> QED BY <2>3, <2>4 DEF CanceledCopy
<1>6. CASE SendRefused(w)
  BY <1>6, <1>a, <1>t DEF SendRefused
<1>7. CASE Cancel(w)
  <2>1. CASE worker'[w].at # "store"
    BY <1>a, <2>1
  <2>2. CASE /\ exch' = [exch EXCEPT ![worker[w].copy.xid].status = "canceled"]
             /\ worker' = [worker EXCEPT ![w].at = "store", ![w].copy.status = "canceled"]
    <3>1. /\ worker[w] \in [at: {"cancel"}, order: Orders, copy: Rows]
          /\ worker[w].copy.status \in OpenStatus
          /\ CopyOK(exch, worker[w].order, worker[w].copy)
      BY <1>7, <1>t DEF Cancel, WorkerStates, IdleWorker, CopiesInv, WorkerCopies, WorkerCopy
    <3>2. worker[w].copy.xid \in ExchangeIds
      BY <3>1 DEF CopyOK, Rows
    <3>3. worker'[w].copy.xid = worker[w].copy.xid
      BY <1>t, <2>2, <3>1 DEF Rows
    <3>4. exch[worker[w].copy.xid] \in ExchangeOrders
      BY <3>1, <3>2 DEF TypeOK, CopyOK, OpenStatus
    <3>5. exch'[worker[w].copy.xid] = [exch[worker[w].copy.xid] EXCEPT !.status = "canceled"]
      BY <2>2, <3>2 DEF TypeOK
    <3>6. exch'[worker[w].copy.xid].status = "canceled"
      BY <3>4, <3>5, ExchangeOrdersMade
    <3>7. exch'[worker'[w].copy.xid].status = "canceled"
      BY <3>3, <3>6
    <3> QED BY <3>7 DEF CanceledCopy
  <2> QED BY <1>7, <1>b, <2>1, <2>2 DEF Cancel
<1>8. ASSUME DoReturn(w) PROVE CanceledCopy(worker[w])'
  BY <1>8, <1>a, <1>b
<1> QED BY <1>1, <1>2, <1>3, <1>4, <1>5, <1>6, <1>7, <1>8 DEF WorkerStep, Create, Store, StoreFails

\* Every step keeps the strengthening.
LEMMA CanceledStep ==
  TypeOK /\ CopiesInv /\ CanceledCopies /\ [Next]_vars => CanceledCopies'
<1> SUFFICES ASSUME TypeOK, CopiesInv, CanceledCopies, [Next]_vars PROVE CanceledCopies'
  OBVIOUS
<1>a. ASSUME NEW v \in Workers, worker'[v] = worker[v] PROVE CanceledCopy(worker[v])'
  <2> SUFFICES ASSUME worker[v].at = "store", worker[v].copy.status = "canceled"
               PROVE  exch'[worker[v].copy.xid].status = "canceled"
    BY <1>a DEF CanceledCopy
  <2>1. worker[v].copy.xid \in ExchangeIds
    BY StatesType DEF CopiesInv, WorkerCopies, WorkerCopy, Rows
  <2>2. exch[worker[v].copy.xid].status = "canceled"
    BY DEF CanceledCopies, CanceledCopy
  <2> QED BY <2>1, <2>2, ClosedStays DEF DoneStatus
<1>b. ASSUME query' = query PROVE CanceledCopy(query)'
  <2> SUFFICES ASSUME query.at = "store", query.copy.status = "canceled"
               PROVE  exch'[query.copy.xid].status = "canceled"
    BY <1>b DEF CanceledCopy
  <2>1. query.copy.xid \in ExchangeIds
    BY StatesType DEF CopiesInv, QueryCopies, Rows
  <2>2. exch[query.copy.xid].status = "canceled"
    BY DEF CanceledCopies, CanceledCopy
  <2> QED BY <2>1, <2>2, ClosedStays DEF DoneStatus
<1>c. ASSUME UNCHANGED <<worker, query>> PROVE CanceledCopies'
  BY <1>a, <1>b, <1>c DEF CanceledCopies
<1>1. ASSUME NEW w \in Workers, WorkerStep(w) PROVE CanceledCopies'
  BY <1>1, <1>a, <1>b, CanceledWorker DEF CanceledCopies
<1>2. CASE QueryStep
  <2>1. worker' = worker /\ exch' = exch
    BY <1>2 DEF QueryStep, QueryList, Query, QueryFails, QueryStore, QueryEnds
  <2>2. CanceledCopy(query)'
    <3>1. ASSUME NEW o \in Orders, Query(o) PROVE CanceledCopy(query)'
      <4> DEFINE r == query.todo[o]
      <4>1. r \in Rows /\ CopyOK(exch, o, r) /\ r.xid # NoId
        BY <3>1, StatesType, TodosType DEF Query, CopiesInv, QueryCopies, TodoCopies
      <4>2. PICK seen \in Reads(r.xid) : query'.copy = Adopt(r, seen)
        BY <3>1 DEF Query
      <4> HIDE DEF r
      <4>4. /\ Adopt(r, seen).xid = r.xid
            /\ Adopt(r, seen).status \in {"pending", exch[r.xid].status}
        BY <4>1, AdoptCopy DEF CopiesInv
      <4> QED BY <2>1, <4>2, <4>4 DEF CanceledCopy
    <3>2. ASSUME query'.at # "store" PROVE CanceledCopy(query)'
      BY <3>2 DEF CanceledCopy
    <3>3. ASSUME NEW o \in Orders, QueryFails(o) PROVE query'.at # "store"
      BY <3>3 DEF QueryFails, TypeOK, QueryStates, IdleReconciler
    <3>4. QueryList \/ QueryStore \/ QueryEnds => query'.at # "store"
      BY DEF QueryList, QueryStore, QueryEnds, IdleReconciler
    <3> QED BY <1>2, <3>1, <3>2, <3>3, <3>4 DEF QueryStep
  <2> QED BY <1>a, <2>1, <2>2 DEF CanceledCopies
<1>3. CASE Crash
  BY <1>3 DEF Crash, CanceledCopies, CanceledCopy, IdleWorker, IdleReconciler
<1>4. ASSUME \/ SweepStep \/ SwitchGate \/ SwitchTrading \/ UNCHANGED vars
             \/ \E x \in ExchangeIds : Fill(x) \/ ExchangeCloses(x)
      PROVE  CanceledCopies'
  <2>1. UNCHANGED <<worker, query>>
    BY <1>4 DEF SweepStep, SweepList, SweepOpen, SweepStore, SweepStoreFails, SweepEnds,
                SwitchGate, SwitchTrading, Fill, ExchangeCloses, vars
  <2> QED BY <1>c, <2>1
<1> QED BY <1>1, <1>2, <1>3, <1>4 DEF Next

\* Once it has been submitted or refused, an order's row keeps the exchange order it
\* stands for, or its refusal, whoever writes an old copy over it, unless two
\* goroutines submitted it together or a reconciliation had made it pending again; and
\* only the sweep of the reconciliation service
\* marks it canceled without the exchange having canceled its order (SubmitOrder,
\* CancelOrder, both ReconcileOrders).
THEOREM KeepTheirOrderTheorem == Spec => RowsKeepTheirOrder
<1> DEFINE Keeps(o) == row[o].status \notin {"absent", "pending"} =>
                         row'[o].xid = row[o].xid \/ o \in raced' \/ reverted[o] > 0
           Told(o) == row[o].status # "canceled" /\ row'[o].status = "canceled" =>
                        exch[row'[o].xid].status = "canceled" \/ sweep' # sweep
<1>1. TypeOK /\ CopiesInv /\ AllFresh /\ AllKnown /\ CanceledCopies /\ [Next]_vars =>
        [\A o \in Orders :
           /\ row[o].status \notin {"absent", "pending"} =>
                row'[o].xid = row[o].xid \/ o \in raced' \/ reverted[o] > 0
           /\ row[o].status # "canceled" /\ row'[o].status = "canceled" =>
                exch[row'[o].xid].status = "canceled" \/ sweep' # sweep]_vars
  <2> SUFFICES ASSUME TypeOK, CopiesInv, AllFresh, AllKnown, CanceledCopies, [Next]_vars,
                      NEW o \in Orders, row'[o] # row[o]
               PROVE  Keeps(o) /\ Told(o)
    OBVIOUS
  <2>0. o \notin raced' /\ ~(reverted[o] > 0) => KnownInv(o)
    <3>1. reverted[o] = 0 \/ reverted[o] > 0
      BY DEF TypeOK
    <3> QED BY <3>1, RacedGrows DEF AllKnown
  <2>1. CASE row[o] = NoRow /\ row'[o] = PendingRow
    BY <2>1 DEF NoRow, PendingRow
  <2>2. ASSUME NEW w \in Workers, worker[w].at \in {"store", "reject"}, worker[w].order = o,
               row'[o] = worker[w].copy
        PROVE  Keeps(o) /\ Told(o)
    <3>1. /\ worker[w].at = "store" => worker[w].copy.status \in {"submitted", "canceled"}
          /\ worker[w].at = "reject" => worker[w].copy.status = "rejected"
      BY <2>2 DEF CopiesInv, WorkerCopies, WorkerCopy
    <3>2. CASE worker[w].at = "store" /\ worker[w].copy.status = "canceled"
      <4>1. Cancelling(w, o)
        BY <2>2, <3>2 DEF Cancelling
      <4>2. o \notin raced' /\ ~(reverted[o] > 0) => row'[o].xid = row[o].xid
        BY <2>0, <2>2, <4>1 DEF KnownInv, Current
      <4>3. exch[row'[o].xid].status = "canceled"
        BY <2>2, <3>2 DEF CanceledCopies, CanceledCopy
      <4> QED BY <4>2, <4>3
    <3>3. CASE ~(worker[w].at = "store" /\ worker[w].copy.status = "canceled")
      <4>1. worker[w].copy.status \in {"submitted", "rejected"}
        BY <2>2, <3>1, <3>3
      <4>2. Submitting(w, o)
        BY <2>2, <4>1 DEF Submitting
      <4>3. o \notin raced' /\ ~(reverted[o] > 0) => row[o].status = "pending"
        BY <2>0, <4>2 DEF KnownInv
      <4> QED BY <2>2, <4>1, <4>3
    <3> QED BY <3>2, <3>3
  <2>3. ASSUME query.at = "store", query.order = o, row'[o] = query.copy
        PROVE  Keeps(o) /\ Told(o)
    <3>1. o \notin raced' /\ ~(reverted[o] > 0) => row'[o].xid = row[o].xid
      BY <2>0, <2>3 DEF KnownInv, ListsCurrent, Current
    <3>2. row'[o].status = "canceled" => exch[row'[o].xid].status = "canceled"
      BY <2>3 DEF CanceledCopies, CanceledCopy
    <3> QED BY <3>1, <3>2
  <2>4. ASSUME sweep.at = "each", o \in DOMAIN sweep.todo, sweep' # sweep,
               row'[o] = Swept(sweep.todo[o], sweep.open)
        PROVE  Keeps(o) /\ Told(o)
    <3>1. row'[o].xid = sweep.todo[o].xid
      BY <2>4, SweptCopy
    <3>2. o \notin raced' /\ ~(reverted[o] > 0) => row'[o].xid = row[o].xid
      BY <2>0, <2>4, <3>1 DEF KnownInv, ListsCurrent, Current
    <3> QED BY <2>4, <3>2
  <2> QED BY <2>1, <2>2, <2>3, <2>4, RowWrites
<1>2. Init => CanceledCopies
  BY DEF Init, CanceledCopies, CanceledCopy, IdleWorker, IdleReconciler
<1>3. Spec => []AllKnown
  BY KnownInvariant
<1>4. Spec => []CanceledCopies
  BY <1>2, CanceledStep, CopiesInvariant, PTL DEF Spec
<1> QED BY <1>1, <1>3, <1>4, FreshInvariant, CopiesInvariant, PTL DEF Spec, RowsKeepTheirOrder
=============================================================================
