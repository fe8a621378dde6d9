------------------------------ MODULE Backtest ------------------------------
(***************************************************************************)
(* The backtest engine (internal/service/backtest/engine.go): Run over a   *)
(* series of candles and Reset, both under e.mu, so that runs of several   *)
(* callers follow each other on one balance and one set of positions.      *)
(*                                                                         *)
(* Money is exact in the code (decimal) and here: rates are multiples of   *)
(* 1/Unit, so fill prices count units and amounts count units of units.    *)
(***************************************************************************)
EXTENDS Integers, FiniteSets, FiniteSetsExt

CONSTANTS
    Instruments,      \* symbols of candles and signals
    ClosePrices, Lots,\* the closes of candles, the quantities of signals
    Unit, Slippage, Commission,   \* rates in 1/Unit
    InitialBalance,   \* in units of units
    MaxCandles, MaxBacktests      \* bounds: candles of a run, runs

ASSUME BacktestAssumption ==
    /\ Unit \in Nat \ {0} /\ Slippage \in 0..Unit /\ Commission \in 0..Unit
    /\ InitialBalance \in Nat /\ MaxCandles \in Nat /\ MaxBacktests \in Nat
    /\ ClosePrices \subseteq Nat \ {0} /\ Lots \subseteq Nat \ {0}

VARIABLES
    books,     \* balance, positions: symbol -> [qty, entry], and what trades won and lost
    fees,      \* ghost: commissions of the openings, which no trade's PnL counts
    candle,    \* where Run is: NotRunning, or how many candles it has done
    lastClose, \* the close of the candle it did last
    result,    \* what the last Run returned: "none", "cancelled", "panicked" or a result
    runs

backtestVars == <<books, fees, candle, lastClose, result, runs>>

NotRunning == -1
FreshBooks == [balance |-> InitialBalance, positions |-> <<>>, profit |-> 0, loss |-> 0, trades |-> 0]

BacktestInit ==
    /\ books = FreshBooks /\ fees = 0
    /\ candle = NotRunning /\ lastClose = 0 /\ result = [kind |-> "none"] /\ runs = 0

applySlippage(price, isBuy) == price * (IF isBuy THEN Unit + Slippage ELSE Unit - Slippage)
CommissionOf(notional) == notional * Commission
Holds(b, sym) == sym \in DOMAIN b.positions
\* What the open positions cost, in units of units.
AtEntry(b) == MapThenSumSet(LAMBDA s : b.positions[s].qty * b.positions[s].entry * Unit,
                           DOMAIN b.positions)

\* Slip: a second buy replaces the position.
CanOpenOver(b, sym, cost) == b.balance >= cost
CanOpen(b, sym, cost) == ~Holds(b, sym) /\ b.balance >= cost

\* openPosition: refused beside a position, or when the balance does not cover the cost.
openPosition(sym, qty, price) ==
    LET fill == applySlippage(price, TRUE)
        commission == CommissionOf(qty * fill)
        cost == qty * fill * Unit + commission
    IN  IF CanOpen(books, sym, cost)
        THEN /\ books' = [books EXCEPT !.balance = @ - cost,
                             !.positions = [s \in DOMAIN @ \union {sym} |->
                                 IF s = sym THEN [qty |-> qty, entry |-> fill] ELSE @[s]]]
             /\ fees' = fees + commission
        ELSE UNCHANGED <<books, fees>>

\* closePosition: the trade's PnL counts the commission of the closing only.
AfterClose(b, sym, price) ==
    LET p == b.positions[sym]
        fill == applySlippage(price, FALSE)
        commission == CommissionOf(p.qty * fill)
        pnl == (fill - p.entry) * p.qty * Unit - commission
    IN  [balance |-> b.balance + p.qty * fill * Unit - commission,
         positions |-> [s \in DOMAIN b.positions \ {sym} |-> b.positions[s]],
         profit |-> IF pnl > 0 THEN b.profit + pnl ELSE b.profit,
         loss |-> IF pnl > 0 THEN b.loss ELSE b.loss - pnl,
         trades |-> b.trades + 1]

\* closeAllPositions values every symbol at the close of the last candle, of whatever
\* symbol that candle was.
AfterCloseAll(price) ==
    FoldSet(LAMBDA s, b : AfterClose(b, s, price), books, DOMAIN books.positions)

StartRun ==
    /\ candle = NotRunning /\ runs < MaxBacktests
    /\ runs' = runs + 1 /\ candle' = 0 /\ result' = [kind |-> "none"] /\ lastClose' = 0
    /\ UNCHANGED <<books, fees>>

\* One candle: the strategy buys, sells or does nothing (an error, no signal, hold).
OnCandle(price) ==
    /\ candle # NotRunning /\ candle < MaxCandles
    /\ candle' = candle + 1 /\ lastClose' = price
    /\ \/ \E sym \in Instruments, qty \in Lots : openPosition(sym, qty, price)
       \/ \E sym \in Instruments :
             /\ books' = IF Holds(books, sym) THEN AfterClose(books, sym, price) ELSE books
             /\ UNCHANGED fees
       \/ UNCHANGED <<books, fees>>
    /\ UNCHANGED <<result, runs>>

\* The context ended: Run returns and keeps its positions.
CancelRun ==
    /\ candle # NotRunning /\ candle < MaxCandles
    /\ candle' = NotRunning /\ result' = [kind |-> "cancelled"]
    /\ UNCHANGED <<books, fees, lastClose, runs>>

\* The result over all trades since the last Reset.
calculateResult(b) ==
    [kind |-> "done", equity |-> b.balance + AtEntry(b), profit |-> b.profit, loss |-> b.loss]

\* The candles are done. Without any the index of the last one is out of range.
FinishRun ==
    /\ candle # NotRunning
    /\ candle' = NotRunning
    /\ IF candle = 0
       THEN result' = [kind |-> "panicked"] /\ UNCHANGED books
       ELSE LET b == AfterCloseAll(lastClose) IN
            /\ books' = b
            /\ result' = calculateResult(b)
    /\ UNCHANGED <<fees, lastClose, runs>>

ResetBacktest ==
    /\ candle = NotRunning
    /\ books' = FreshBooks /\ fees' = 0
    /\ UNCHANGED <<candle, lastClose, result, runs>>

BacktestNext ==
    \/ StartRun
    \/ \E price \in ClosePrices : OnCandle(price)
    \/ CancelRun
    \/ FinishRun
    \/ ResetBacktest

BacktestSpec == BacktestInit /\ [][BacktestNext]_backtestVars

-----------------------------------------------------------------------------
BacktestTypeOK ==
    /\ books.balance \in Int /\ books.profit \in Nat /\ books.loss \in Nat /\ books.trades \in Nat
    /\ DOMAIN books.positions \subseteq Instruments
    /\ \A s \in DOMAIN books.positions : books.positions[s].qty > 0
    /\ candle \in NotRunning..MaxCandles
    /\ result.kind \in {"none", "cancelled", "panicked", "done"}

\* The books of any sequence of runs, refused signals, cancelled runs and resets
\* balance: cash and positions at their entry price are what the account started with,
\* plus what the trades won, minus what they lost and what the openings cost, and the
\* cash is never overdrawn. A run that ends leaves no position, and the equity it
\* reports is in the books (service/backtest/engine.go:241-333, 360-411).
BacktestAddsUp ==
    /\ books.balance + AtEntry(books) = InitialBalance + books.profit - books.loss - fees
    /\ books.balance >= 0
    /\ (result.kind = "done" /\ candle = NotRunning /\ books # FreshBooks)
          => /\ books.positions = <<>>
             /\ result.equity = InitialBalance + result.profit - result.loss - fees
=============================================================================
