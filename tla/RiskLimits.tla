----------------------------- MODULE RiskLimits -----------------------------
(***************************************************************************)
(* What bounds a position: CreateOrder of service/agent/order_service.go   *)
(* with the risk engine of domain/risk, and the reconciliation of the      *)
(* position row with the exchange.  One strategy and one symbol.           *)
(*                                                                         *)
(* CreateOrder reads the strategy, the symbol, the position and the        *)
(* balance one after the other and decides on what it read.  Nothing in    *)
(* the repository creates a position row or follows it through fills: only *)
(* the reconciler writes it, so the run starts with or without one.        *)
(* Quantities, prices and amounts are multiples of the symbol's steps.     *)
(***************************************************************************)
EXTENDS Integers, FiniteSets

CONSTANTS
    Entries,          \* goroutines in CreateOrder, each for one order
    Quantities, Prices,   \* what an order may ask for
    MaxPositionSize,  \* of the strategy; 0 is no limit
    MaxDailyLoss,     \* of the strategy; 0 is no limit
    MinOrderQty, MaxOrderQty, MinPrice, MaxPrice, MinNotional,
    Funds,            \* what the account may have available
    NoBalance,        \* no balance of the quote currency was saved
    NoPosition,       \* ErrNotFound
    MaxMoves, MaxPasses, MaxOutside   \* bounds: account moves, reconciliations, trades by hand

ASSUME RiskAssumption ==
    /\ Quantities \subseteq Nat \ {0} /\ Prices \subseteq Nat \ {0} /\ Funds \subseteq Nat
    /\ {MaxPositionSize, MaxDailyLoss, MinOrderQty, MaxOrderQty, MinPrice, MaxPrice,
        MinNotional, MaxMoves, MaxPasses, MaxOutside} \subseteq Nat

VARIABLES
    held,       \* the position on the exchange, negative when short
    row,        \* the position row, or NoPosition
    entry,      \* caller -> what it has read, and how it ended
    resting,    \* accepted orders on the exchange: caller -> quantity not filled, signed
    daily,      \* the strategy row: its status and its daily PnL
    status,     \* symbol status
    pass,       \* the running reconciliation: what it has read
    blind,      \* ghost: an order was checked against less than the exposure there was
    fresh,      \* ghost: nothing was traded since the last reconciliation read
    flipped,    \* ghost: the exchange position has changed its side
    passes, outside

riskVars == <<held, row, entry, resting, daily, status, pass,
              blind, fresh, flipped, passes, outside>>

Sides == {"buy", "sell"}
Signed(side, q) == IF side \in {"buy", "long"} THEN q ELSE -q
Size(n) == IF n < 0 THEN -n ELSE n
SideOf(n) == IF n < 0 THEN "short" ELSE "long"

NewEntry == [at |-> "new"]
NoPass == [at |-> "idle"]

RiskInit ==
    /\ held \in -1..1
    /\ row \in [side : {SideOf(held)}, qty : {Size(held)}, price : Prices, open : {TRUE}]
                 \union {NoPosition}
    /\ row = NoPosition <=> held = 0
    /\ entry = [e \in Entries |-> NewEntry]
    /\ resting = [e \in Entries |-> 0]
    /\ daily = [status |-> "active", pnl |-> 0]
    /\ status = "trading"
    /\ pass = NoPass
    /\ blind = FALSE /\ fresh = TRUE /\ flipped = FALSE
    /\ passes = 0 /\ outside = 0

-----------------------------------------------------------------------------
(* The entities' checks *)

IsFlat(p) == p.qty = 0 \/ p.side = "flat"
CanTrade(strategy) == strategy.status = "active"
HasReachedDailyLossLimit(strategy) ==
    MaxDailyLoss # 0 /\ strategy.pnl =< -MaxDailyLoss
ValidateQuantity(q) == MinOrderQty =< q /\ q =< MaxOrderQty
ValidatePrice(p) == MinPrice =< p /\ p =< MaxPrice
HasSufficientAvailable(balance, required) == balance >= required

\* A market order is priced by the position, or at the highest price there is.
PriceOf(order, position) ==
    IF order.type = "limit" THEN order.price
    ELSE IF position # NoPosition /\ position.price # 0 THEN position.price
    ELSE MaxPrice

\* Slip: only the order itself is measured.
SizeOfTheOrder(order, position) == order.qty

\* An order against the position counts only itself.
NewPositionSize(order, position) ==
    IF /\ position # NoPosition /\ ~IsFlat(position)
       /\ order.side = "buy" <=> position.side = "long"
    THEN position.qty + order.qty
    ELSE order.qty

\* No check fails; which of them an order failed first is not told apart. The events
\* of a violation and the warning at 80% go to PublishAsync and are left out.
ValidateOrder(order, strategy, sym, balance, position) ==
    LET price == PriceOf(order, position) IN
    /\ sym = "trading"
    /\ ValidateQuantity(order.qty)
    /\ order.type = "limit" => ValidatePrice(order.price)
    /\ order.qty * price >= MinNotional
    /\ ~HasReachedDailyLossLimit(strategy)
    /\ MaxPositionSize # 0 => NewPositionSize(order, position) <= MaxPositionSize
    /\ balance # NoBalance => HasSufficientAvailable(balance, order.qty * price)

-----------------------------------------------------------------------------
(* CreateOrder, one action for every repository call *)

unread == <<held, row, resting, daily, status, pass, blind, fresh, flipped, passes, outside>>

\* The gate let the request through; the strategy is read.
ReadsStrategy(e) ==
    /\ entry[e].at = "new"
    /\ entry' = [entry EXCEPT ![e] = IF CanTrade(daily) THEN [at |-> "strategy", strategy |-> daily]
                                                      ELSE [at |-> "refused"]]
    /\ UNCHANGED unread

ReadsSymbol(e) ==
    /\ entry[e].at = "strategy"
    /\ entry' = [entry EXCEPT ![e] = [at |-> "symbol", strategy |-> @.strategy, symbol |-> status]]
    /\ UNCHANGED unread

\* GetByStrategyAndSymbol returns open rows only.
ReadsPosition(e) ==
    /\ entry[e].at = "symbol"
    /\ entry' = [entry EXCEPT ![e] =
          [at |-> "position", strategy |-> @.strategy, symbol |-> @.symbol,
           position |-> IF row # NoPosition /\ row.open THEN row ELSE NoPosition]]
    /\ UNCHANGED unread

\* The other resting orders and the difference between the row and the exchange
\* are exposure this check does not see.
Unseen(e) ==
    LET p == entry[e].position IN
    \/ \E f \in Entries \ {e} : resting[f] # 0
    \/ held # IF p = NoPosition THEN 0 ELSE Signed(p.side, p.qty)

Orders == [side : Sides, type : {"limit", "market"}, qty : Quantities, price : Prices]

\* The latest balance is read, the order validated, and stored if it passes; its
\* submission puts it on the exchange.
Decides(e, order, balance) ==
    LET c == entry[e]
        ok == ValidateOrder(order, c.strategy, c.symbol, balance, c.position)
    IN  /\ c.at = "position"
        /\ entry' = [entry EXCEPT ![e] = [at |-> IF ok THEN "accepted" ELSE "refused"]]
        /\ resting' = [resting EXCEPT ![e] = IF ok THEN Signed(order.side, order.qty) ELSE @]
        /\ blind' = (blind \/ (ok /\ Unseen(e)))
        /\ UNCHANGED <<held, row, daily, status, pass, fresh, flipped, passes, outside>>

\* A repository call or the gate returns an error.
EntryFails(e) ==
    /\ entry[e].at \in {"new", "strategy", "symbol", "position"}
    /\ entry' = [entry EXCEPT ![e] = [at |-> "refused"]]
    /\ UNCHANGED unread

-----------------------------------------------------------------------------
(* The exchange and the account *)

Trades(n) ==
    /\ held' = held + n
    /\ fresh' = FALSE
    /\ flipped' = (flipped \/ held * (held + n) < 0 \/ (held = 0 /\ row # NoPosition))

\* A part of an accepted order is filled.
Fill(e) ==
    /\ resting[e] # 0
    /\ LET one == IF resting[e] > 0 THEN 1 ELSE -1 IN
          /\ Trades(one)
          /\ resting' = [resting EXCEPT ![e] = @ - one]
    /\ UNCHANGED <<row, entry, daily, status, pass, blind, passes, outside>>

\* The owner trades the symbol elsewhere, which no check can see.
TradeByHand ==
    /\ outside < MaxOutside
    /\ outside' = outside + 1
    /\ \E n \in {-1, 1} : Trades(n)
    /\ blind' = TRUE
    /\ UNCHANGED <<row, entry, resting, daily, status, pass, passes>>

\* The strategy loses or is paused, the symbol is suspended.
Moved == (IF daily.status = "active" THEN 0 ELSE 1) + (IF status = "trading" THEN 0 ELSE 1)
           - daily.pnl

AccountMoves ==
    /\ Moved < MaxMoves
    /\ \/ daily' = [daily EXCEPT !.pnl = @ - 1] /\ UNCHANGED status
       \/ daily' = [daily EXCEPT !.status = "paused"] /\ UNCHANGED status
       \/ status' = "suspended" /\ UNCHANGED daily
    /\ UNCHANGED <<held, row, entry, resting, pass, blind, fresh, flipped, passes, outside>>

-----------------------------------------------------------------------------
(* ReconcilePositions, under the reconciler's mutex *)

PassBegins ==
    /\ pass.at = "idle" /\ passes < MaxPasses
    /\ passes' = passes + 1
    /\ pass' = [at |-> "listed", local |-> IF row # NoPosition /\ row.open THEN row ELSE NoPosition]
    /\ UNCHANGED <<held, row, entry, resting, daily, status, blind, fresh, flipped, outside>>

PassFetches ==
    /\ pass.at = "listed"
    /\ \E p \in Prices : pass' = [at |-> "fetched", local |-> pass.local, qty |-> Size(held), price |-> p]
    /\ fresh' = TRUE
    /\ UNCHANGED <<held, row, entry, resting, daily, status, blind, flipped, passes, outside>>

\* Slip: positionStatesDiffer compares prices only.
DiffersInPrice(local, p) == local.price # p.price

positionStatesDiffer(local, p) == local.qty # p.qty \/ local.price # p.price

\* A position that is gone is closed; one that differs gets its quantity and price,
\* and keeps its side and its entry price.
PassUpdates ==
    LET local == pass.local IN
    /\ pass.at = "fetched"
    /\ pass' = NoPass
    /\ row' =
          CASE local = NoPosition -> row
            [] local # NoPosition /\ pass.qty = 0 /\ ~IsFlat(local) ->
                 [local EXCEPT !.qty = 0, !.side = "flat", !.open = FALSE]
            [] local # NoPosition /\ pass.qty # 0 /\ positionStatesDiffer(local, pass) ->
                 [local EXCEPT !.qty = pass.qty, !.price = pass.price]
            [] OTHER -> row
    /\ UNCHANGED <<held, entry, resting, daily, status, blind, fresh, flipped, passes, outside>>

\* A listing fails, or an update: that position is skipped.
PassFails ==
    /\ pass.at \in {"listed", "fetched"}
    /\ pass' = NoPass
    /\ fresh' = FALSE
    /\ UNCHANGED <<held, row, entry, resting, daily, status, blind, flipped, passes, outside>>

RiskNext ==
    \/ \E e \in Entries : ReadsStrategy(e) \/ ReadsSymbol(e) \/ ReadsPosition(e)
                            \/ EntryFails(e) \/ Fill(e)
    \/ \E e \in Entries, order \in Orders, balance \in Funds \union {NoBalance} :
          Decides(e, order, balance)
    \/ TradeByHand \/ AccountMoves
    \/ PassBegins \/ PassFetches \/ PassUpdates \/ PassFails

RiskSpec == RiskInit /\ [][RiskNext]_riskVars

-----------------------------------------------------------------------------
RiskTypeOK ==
    /\ held \in Int /\ resting \in [Entries -> Int]
    /\ row # NoPosition =>
          row \in [side : {"long", "short", "flat"}, qty : Nat, price : Nat, open : BOOLEAN]
    /\ pass.at \in {"idle", "listed", "fetched"}
    /\ {blind, fresh, flipped} \subseteq BOOLEAN
    /\ \A e \in Entries : entry[e].at \in
          {"new", "strategy", "symbol", "position", "accepted", "refused"}

\* However fills, losses and reconciliations fall between the four reads of
\* CreateOrder, the position with everything that still rests on it stays within
\* MaxPositionSize, as long as every accepted order was checked against all the
\* exposure there was (domain/risk/engine.go:94-107).
ExposureBounded ==
    MaxPositionSize # 0 /\ ~blind =>
        \A some \in SUBSET {e \in Entries : resting[e] # 0} :
            LET Sum[S \in SUBSET some] ==
                    IF S = {} THEN 0
                    ELSE LET e == CHOOSE e \in S : TRUE IN resting[e] + Sum[S \ {e}]
            IN  Size(held + Sum[some]) =< MaxPositionSize

\* After a reconciliation with no trade since it asked the exchange, an open row has
\* the quantity that is held, and its side too unless the position went through zero:
\* the update keeps the row's side (service/reconciliation/reconciliation.go:244-248).
RowFollowsExchange ==
    (fresh /\ pass.at = "idle" /\ row # NoPosition /\ row.open) =>
        /\ row.qty = Size(held)
        /\ held # 0 /\ ~flipped => row.side = SideOf(held)
=============================================================================
