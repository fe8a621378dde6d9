--------------------------- MODULE TradingTables ---------------------------
(***************************************************************************)
(* The SQLite repositories (internal/providers/storage/sqlite): orders,    *)
(* positions, strategies, balances and symbols over one database whose     *)
(* pool has a single connection, with transactions carried in a context.   *)
(*                                                                         *)
(* Sessions are goroutines of one process.  A statement runs on the        *)
(* transaction of its context if there is one (getTx), otherwise on the    *)
(* pool, where it waits for the connection.  A row is reduced to the       *)
(* columns the properties tell apart; its identity columns are written by  *)
(* Create and never again.                                                 *)
(***************************************************************************)
EXTENDS Integers

CONSTANTS Sessions, OrderIds, ClientOf, PositionIds, PairOf, StrategyIds, SymbolNames,
          NoOne,            \* no session; also the absence of a row
          MaxWrites,        \* bound: statements that write
          MaxTimes,         \* bound: half seconds of the clock
          MaxRestarts       \* bound: restarts of the process

ASSUME TablesAssumption ==
    /\ ClientOf \in [OrderIds -> Nat] /\ DOMAIN PairOf = PositionIds
    /\ MaxWrites \in Nat /\ MaxTimes \in Nat /\ MaxRestarts \in Nat

VARIABLES
    tables,     \* the rows, and how often an order was filled (a ghost)
    conn,       \* the session whose transaction has the connection
    before,     \* the rows when that transaction began; NoRows outside one
    session,    \* session -> what its caller is doing and has read
    schema,     \* the tables exist; the version that is recorded
    boot,       \* where the process stands in ApplyMigrations
    loose,      \* orders updated from a read outside the update's transaction
    clock, writes, restarts

tablesVars == <<tables, conn, before, session, schema, boot, loose, clock, writes, restarts>>

OrderRows == [status : {"submitted", "partial", "filled"}, filled : Nat]

\* No one is neither a session nor an order's row.
ASSUME NoOneAssumption == NoOne \notin Sessions \union OrderRows

Rows(Ids) == [id \in Ids |-> NoOne]
NoRows ==
    [orders |-> Rows(OrderIds), fills |-> [o \in OrderIds |-> 0],
     positions |-> Rows(PositionIds), strategies |-> Rows(StrategyIds),
     symbols |-> Rows(SymbolNames), balances |-> {}]

IdleSession == [at |-> "idle", read |-> NoOne]

TablesInit ==
    /\ tables = NoRows /\ conn = NoOne /\ before = NoRows
    /\ session = [s \in Sessions |-> IdleSession]
    /\ schema = [tables |-> FALSE, version |-> 0]
    /\ boot = "new" /\ loose = {}
    /\ clock = 0 /\ writes = 0 /\ restarts = 0

(***************************************************************************)
(* ApplyMigrations: read the version, run the script, record the version.  *)
(* The script only creates what is missing, so it may run again.           *)
(***************************************************************************)
others == <<tables, conn, before, session, loose, clock, writes, restarts>>

GetVersion ==
    /\ boot = "new"
    /\ boot' = IF schema.version >= 1 THEN "ready" ELSE "apply"
    /\ UNCHANGED <<schema, others>>

ApplyMigration ==
    /\ boot = "apply"
    /\ schema' = [schema EXCEPT !.tables = TRUE]
    /\ boot' = "record"
    /\ UNCHANGED others

RecordMigration ==
    /\ boot = "record"
    /\ schema' = [schema EXCEPT !.version = 1]
    /\ boot' = "ready"
    /\ UNCHANGED others

\* The process ends anywhere: what was not committed is gone.
Restart ==
    /\ restarts < MaxRestarts
    /\ restarts' = restarts + 1
    /\ tables' = IF conn = NoOne THEN tables ELSE before
    /\ conn' = NoOne /\ before' = NoRows
    /\ session' = [s \in Sessions |-> IdleSession]
    /\ boot' = "new"
    /\ UNCHANGED <<schema, loose, clock, writes>>

-----------------------------------------------------------------------------
\* getTx: the transaction of the context, or the pool when it is free.
Executes(s) ==
    /\ boot = "ready"
    /\ \/ session[s].at = "tx" /\ conn = s
       \/ session[s].at = "idle" /\ conn = NoOne

Writes(s) == Executes(s) /\ writes < MaxWrites /\ writes' = writes + 1

Put(t) == tables' = t
Same == <<conn, before, session, schema, boot, loose, clock, restarts>>

\* An INSERT that would repeat a unique column is refused (ErrDuplicateKey).
Insert(t, id, row, unique) ==
    IF unique /\ tables[t][id] = NoOne THEN [tables EXCEPT ![t][id] = row] ELSE tables
\* An UPDATE or DELETE that meets no row changes nothing (ErrNotFound).
Update(t, id, row) ==
    IF tables[t][id] # NoOne THEN [tables EXCEPT ![t][id] = row] ELSE tables

Exists(t) == {id \in DOMAIN tables[t] : tables[t][id] # NoOne}

OrderCreate(s, o) ==
    /\ Writes(s)
    /\ Put(Insert("orders", o, [status |-> "submitted", filled |-> 0],
                  \A p \in Exists("orders") : ClientOf[p] # ClientOf[o]))
    /\ UNCHANGED Same

\* Update takes every mutable column from the order the caller read before.
OrderUpdate(s) ==
    LET o == session[s].read.id
        filled == session[s].read.row.filled + 1
        row == [status |-> IF filled = 2 THEN "filled" ELSE "partial", filled |-> filled]
    IN  /\ session[s].read # NoOne
        /\ Writes(s)
        /\ Put([Update("orders", o, row) EXCEPT !.fills[o] = @ + 1])
        /\ loose' = IF conn = s THEN loose ELSE loose \union {o}
        /\ session' = [session EXCEPT ![s].read = NoOne]
        /\ UNCHANGED <<conn, before, schema, boot, clock, restarts>>

\* What the reads of orders return.
OrderGetByID(o) == tables.orders[o]
OrderGetByClientOrderID(c) == {o \in Exists("orders") : ClientOf[o] = c}
OrderListActive == {o \in Exists("orders") : tables.orders[o].status \in {"submitted", "partial"}}

OrderRead(s) ==
    /\ Executes(s)
    /\ \E o \in OrderListActive :
          session' = [session EXCEPT ![s].read = [id |-> o, row |-> OrderGetByID(o)]]
    /\ UNCHANGED <<tables, conn, before, schema, boot, loose, clock, writes, restarts>>

\* The pair of a position is unique over open and closed rows alike.
PositionCreate(s, p) ==
    /\ Writes(s)
    /\ Put(Insert("positions", p, [closed |-> FALSE],
                  \A q \in Exists("positions") : PairOf[q] # PairOf[p]))
    /\ UNCHANGED Same

PositionUpdate(s, p) ==
    /\ Writes(s)
    /\ \E c \in BOOLEAN : Put(Update("positions", p, [closed |-> c]))
    /\ UNCHANGED Same

PositionListOpen == {p \in Exists("positions") : ~tables.positions[p].closed}
PositionGetByStrategyAndSymbol(pair) == {p \in PositionListOpen : PairOf[p] = pair}

StrategyCreate(s, i) ==
    /\ Writes(s)
    /\ Put(Insert("strategies", i, [status |-> "idle"], TRUE))
    /\ UNCHANGED Same

StrategyUpdate(s, i) ==
    /\ Writes(s)
    /\ \E st \in {"active", "stopped"} : Put(Update("strategies", i, [status |-> st]))
    /\ UNCHANGED Same

StrategyDelete(s, i) ==
    /\ Writes(s)
    /\ Put([tables EXCEPT !.strategies[i] = NoOne])
    /\ UNCHANGED Same

SymbolUpsert(s, n) ==
    /\ Writes(s)
    /\ \E st \in {"trading", "suspended"} :
          Put([tables EXCEPT !.symbols[n] = [status |-> st]])
    /\ UNCHANGED Same

-----------------------------------------------------------------------------
(***************************************************************************)
(* Balances.  A time is a number of half seconds; its text drops the zeros *)
(* at its end, so that within a second the text of the whole second, which *)
(* has no fraction, sorts after the text of the half.                      *)
(***************************************************************************)
TextLess(a, b) ==
    \/ a \div 2 < b \div 2
    \/ a \div 2 = b \div 2 /\ a % 2 = 1 /\ b % 2 = 0

Assets == {"base", "quote"}
TimesOf(rows) == {r.at : r \in rows}
MaxText(T) == CHOOSE a \in T : \A b \in T \ {a} : TextLess(b, a)
SnapshotAt(t) == {r \in tables.balances : r.at = t}
GetLatest == SnapshotAt(MaxText(TimesOf(tables.balances)))
GetHistory(from, to) ==
    {SnapshotAt(t) : t \in {u \in TimesOf(tables.balances) :
                               ~TextLess(u, from) /\ ~TextLess(to, u)}}

TimePasses ==
    /\ clock < MaxTimes
    /\ clock' = clock + 1
    /\ UNCHANGED <<tables, conn, before, session, schema, boot, loose, writes, restarts>>

\* BalanceRepository.Save opens a transaction of its own on the pool.  It stores
\* every asset with the time the exchange last changed that asset at; a row is
\* even (a ghost) when its balance had one time for all its assets.
BalanceSave(s) ==
    /\ session[s].at = "idle" /\ Writes(s)
    /\ \E times \in [Assets -> 0..clock] :
          LET even == \A a, b \in Assets : times[a] = times[b] IN
          Put([tables EXCEPT !.balances = @ \union
                  {[asset |-> a, at |-> times[a], even |-> even] : a \in Assets}])
    /\ UNCHANGED Same

\* Inside a transaction it waits for the connection its own context holds.
BalanceSaveWaits(s) ==
    /\ session[s].at = "tx" /\ conn = s
    /\ session' = [session EXCEPT ![s].at = "waits"]
    /\ UNCHANGED <<tables, conn, before, schema, boot, loose, clock, writes, restarts>>

-----------------------------------------------------------------------------
Ends(s) ==
    /\ conn' = NoOne /\ before' = NoRows
    /\ session' = [session EXCEPT ![s] = IdleSession]
    /\ UNCHANGED <<schema, boot, loose, clock, writes, restarts>>

BeginTx(s) ==
    /\ boot = "ready" /\ session[s].at = "idle" /\ conn = NoOne
    /\ conn' = s /\ before' = tables
    /\ session' = [session EXCEPT ![s] = [at |-> "tx", read |-> NoOne]]
    /\ UNCHANGED <<tables, schema, boot, loose, clock, writes, restarts>>

Commit(s) ==
    /\ session[s].at = "tx" /\ conn = s
    /\ UNCHANGED tables
    /\ Ends(s)

\* Slip: an error of the function leaves what it has written.
RollbackKeepsWrites(s) ==
    /\ session[s].at = "tx" /\ conn = s
    /\ tables' = [before EXCEPT !.orders = tables.orders]
    /\ Ends(s)

\* The function returns an error.
Rollback(s) ==
    /\ session[s].at = "tx" /\ conn = s
    /\ tables' = before
    /\ Ends(s)

\* WithTransaction recovers nothing: a panic of the function leaves the
\* transaction open, and the connection with it.
Panics(s) ==
    /\ session[s].at = "tx" /\ conn = s
    /\ session' = [session EXCEPT ![s].at = "gone"]
    /\ UNCHANGED <<tables, conn, before, schema, boot, loose, clock, writes, restarts>>

\* The context given to WithTransaction ends: database/sql rolls back.
ContextEnds(s) ==
    /\ conn = s
    /\ tables' = before
    /\ Ends(s)

TablesStep(s) ==
    \/ \E o \in OrderIds : OrderCreate(s, o)
    \/ OrderUpdate(s)
    \/ OrderRead(s)
    \/ \E p \in PositionIds : PositionCreate(s, p)
    \/ \E p \in PositionIds : PositionUpdate(s, p)
    \/ \E i \in StrategyIds : StrategyCreate(s, i)
    \/ \E i \in StrategyIds : StrategyUpdate(s, i)
    \/ \E i \in StrategyIds : StrategyDelete(s, i)
    \/ \E n \in SymbolNames : SymbolUpsert(s, n)
    \/ BalanceSave(s)
    \/ BalanceSaveWaits(s)
    \/ BeginTx(s)
    \/ Commit(s)
    \/ Rollback(s)
    \/ Panics(s)
    \/ ContextEnds(s)

TablesNext ==
    \/ GetVersion
    \/ ApplyMigration
    \/ RecordMigration
    \/ Restart
    \/ TimePasses
    \/ \E s \in Sessions : TablesStep(s)

TablesSpec == TablesInit /\ [][TablesNext]_tablesVars

-----------------------------------------------------------------------------
\* The state has the type the code gives it.
TablesTypeOK ==
    /\ DOMAIN tables = DOMAIN NoRows
    /\ \A o \in Exists("orders") : tables.orders[o] \in OrderRows
    /\ tables.balances \subseteq [asset : Assets, at : 0..MaxTimes, even : BOOLEAN]
    /\ conn \in Sessions \union {NoOne} /\ loose \subseteq OrderIds
    /\ schema \in [tables : BOOLEAN, version : {0, 1}]

\* Updates that read and write in one transaction add up: an order's filled
\* quantity is the number of updates of it that committed, whatever other
\* sessions did between, rolled back, panicked with or lost in a restart;
\* only an order updated from a read outside the transaction may miss one
\* (order_repository.go:66-107 writes every column from the caller's copy,
\* db.go:95-116).
FillsAddUp ==
    \A o \in Exists("orders") \ loose : tables.orders[o].filled = tables.fills[o]

\* The latest balance is one whole snapshot whenever a balance with one time for
\* all its assets was saved at its time, it is of the second of the last time
\* saved, and the history misses none saved between the seconds it is asked for:
\* within a second the texts of the times do not sort like the times
\* (balance_repository.go:22-163).  No statement runs before the
\* tables are made, even after a restart between script and record.
ReadsAreWhole ==
    /\ boot = "ready" => schema.tables
    /\ tables.balances # {} =>
          LET last == CHOOSE t \in TimesOf(tables.balances) :
                         \A u \in TimesOf(tables.balances) : u =< t
              Seconds(f, t) == {u \in TimesOf(tables.balances) :
                                   f \div 2 < u \div 2 /\ u \div 2 < t \div 2}
          IN  /\ (\E r \in GetLatest : r.even) => {r.asset : r \in GetLatest} = Assets
              /\ \A r \in GetLatest : r.at \div 2 = last \div 2
              /\ \A f, t \in -1..MaxTimes + 2 :
                    Seconds(f, t) \subseteq TimesOf(UNION GetHistory(f, t))

\* No two orders have one client order id, and no two positions, open or closed,
\* one strategy and symbol (UNIQUE in sqlite/migrations.go:18 and 58), so that what
\* GetByClientOrderID and GetByStrategyAndSymbol find is the one row.
OneRowEach ==
    /\ \A o, p \in Exists("orders") : ClientOf[o] = ClientOf[p] => o = p
    /\ \A p, q \in Exists("positions") : PairOf[p] = PairOf[q] => p = q
    /\ \A o \in Exists("orders") : OrderGetByClientOrderID(ClientOf[o]) = {o}
    /\ \A p \in PositionListOpen : PositionGetByStrategyAndSymbol(PairOf[p]) = {p}

\* What a repository returns is what it was given, over rollbacks, panics and
\* restarts: the quantities filled in transactions add up, a balance saved with one time
\* is read back whole, in the order of the seconds, and a row is found by what is unique in it.
TablesKeepWhatTheyTook == FillsAddUp /\ ReadsAreWhole /\ OneRowEach
=============================================================================
