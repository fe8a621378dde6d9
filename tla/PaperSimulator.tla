--------------------------- MODULE PaperSimulator ---------------------------
(***************************************************************************)
(* The paper trading simulator of service/paper/simulator.go: orders under *)
(* a virtual exchange id, one goroutine per order that fills it after the  *)
(* delay, a balance and a position on one symbol.                          *)
(*                                                                         *)
(* Every operation holds s.mu from end to end and is one action.  Amounts  *)
(* are exact, in units of 10^-8 of the currency: a price with its slippage *)
(* in basis points and a commission in 10^-4 of the notional.  Quotients   *)
(* are exact on the instances that are checked.                            *)
(***************************************************************************)
EXTENDS Integers, FiniteSets

CONSTANTS
  Orders,          \* the client orders, one *entity.Order each
  Buys,            \* those whose Side is buy; the others sell
  Quantity,        \* order -> quantity
  LimitPrice,      \* order -> Price, the fill price when no market price is known
  Prices,          \* the market prices UpdateMarketPrice is called with
  InitialBalance,  \* in currency units
  MaxPaper         \* bound: paper submissions

ASSUME SimulatorAssumption ==
  /\ Buys \subseteq Orders
  /\ Quantity \in [Orders -> Nat \ {0}]
  /\ LimitPrice \in [Orders -> Nat \ {0}]
  /\ Prices \subseteq Nat \ {0}
  /\ InitialBalance \in Nat
  /\ MaxPaper \in Nat

VARIABLES
  virtual,    \* s.orders: paper id -> [of, status]
  balance,    \* s.balance
  position,   \* s.positions[symbol], or Flat before the first fill
  price,      \* s.lastPrices[symbol], 0 when there is none
  fillers,    \* goroutines in simulateFill: [n, id], n the submission that began it
  lastId,     \* the clock reading of the last submission, in order of the readings
  paperSent,  \* number of paper submissions
  abandoned,  \* history: ids whose goroutine left because its context ended
  reversed    \* history: a fill exceeded what was held on the other side

simVars == <<virtual, balance, position, price, fillers, lastId, paperSent,
             abandoned, reversed>>

Unit == 100000000
SlippageBps == 5
CommissionRate == 6
NoPosition == [side |-> "none", qty |-> 0, entry |-> 0, realized |-> 0]
PaperIds == 1..MaxPaper
Statuses == {"Submitted", "Filled", "Canceled", "Rejected"}

\* applySlippage: a buy pays more than the market, a sell gets less.
FillPrice(o) ==
  LET market == IF price = 0 THEN LimitPrice[o] ELSE price
      bps == IF o \in Buys THEN 10000 + SlippageBps ELSE 10000 - SlippageBps
  IN market * bps * 10000

Notional(o) == Quantity[o] * FillPrice(o)
Commission(o) == (Notional(o) \div 10000) * CommissionRate
Required(o) == Notional(o) + Commission(o)

Signed(p) == IF p.side = "Short" THEN -1 ELSE 1

\* The side of a position this order opens or adds to.
SideOf(o) == IF o \in Buys THEN "Long" ELSE "Short"

\* An order on the other side that is larger than what is held: the excess is dropped.
Reverses(o) == position.side \notin {"none", SideOf(o)} /\ Quantity[o] > position.qty

\* Slip: adding to a position keeps the entry price of its first fill.
UpdatedEntrySlip(o) ==
  LET q == Quantity[o]
      f == FillPrice(o)
      pnl == Signed(position) * (f - position.entry) * q
  IN IF position.side = "none"
     THEN [side |-> SideOf(o), qty |-> q, entry |-> f, realized |-> -Commission(o)]
     ELSE IF position.side = SideOf(o)
     THEN [position EXCEPT !.qty = @ + q, !.realized = @ - Commission(o)]
     ELSE [position EXCEPT !.qty = IF q >= @ THEN 0 ELSE @ - q,
                           !.realized = @ + pnl - Commission(o)]

\* updatePosition with the fill of order o.
Updated(o) ==
  LET q == Quantity[o]
      f == FillPrice(o)
      pnl == Signed(position) * (f - position.entry) * q
  IN IF position.side = "none"
     THEN [side |-> SideOf(o), qty |-> q, entry |-> f, realized |-> -Commission(o)]
     ELSE IF position.side = SideOf(o)
     THEN [position EXCEPT
            !.entry = (position.qty * position.entry + q * f) \div (position.qty + q),
            !.qty = @ + q,
            !.realized = @ - Commission(o)]
     ELSE [position EXCEPT
            !.qty = IF q >= @ THEN 0 ELSE @ - q,
            !.realized = @ + pnl - Commission(o)]

SimInit ==
  /\ virtual = <<>> /\ fillers = {} /\ abandoned = {}
  /\ balance = InitialBalance * Unit /\ position = NoPosition /\ price = 0
  /\ lastId = 0 /\ paperSent = 0 /\ reversed = FALSE

\* SubmitOrder under the id "paper_" and the clock.  Two submissions can read the
\* same time where the clock is coarse, while the first still waits to be filled:
\* the second then takes the first one's place in the map.
PaperSubmit(o, id) ==
  /\ paperSent < MaxPaper
  /\ \/ id = lastId + 1
     \/ id = lastId /\ \E f \in fillers : f.id = id
  /\ virtual' = [i \in DOMAIN virtual \cup {id} |->
                   IF i = id THEN [of |-> o, status |-> "Submitted"] ELSE virtual[i]]
  /\ fillers' = fillers \cup {[n |-> paperSent + 1, id |-> id]}
  /\ lastId' = id
  /\ paperSent' = paperSent + 1
  /\ UNCHANGED <<balance, position, price, abandoned, reversed>>

\* Slip: a cancel does not look at the status.
PaperCancelSlip(id) ==
  /\ id \in DOMAIN virtual
  /\ virtual' = [virtual EXCEPT ![id].status = "Canceled"]
  /\ UNCHANGED <<balance, position, price, fillers, lastId, paperSent, abandoned, reversed>>

\* CancelOrder: a terminal or unknown order is refused.
PaperCancel(id) ==
  /\ id \in DOMAIN virtual
  /\ virtual[id].status = "Submitted"
  /\ virtual' = [virtual EXCEPT ![id].status = "Canceled"]
  /\ UNCHANGED <<balance, position, price, fillers, lastId, paperSent, abandoned, reversed>>

\* The delay has passed for a goroutine whose order is gone or was decided.
FillFindsNothing(f) ==
  /\ f.id \in DOMAIN virtual => virtual[f.id].status # "Submitted"
  /\ fillers' = fillers \ {f}
  /\ UNCHANGED <<virtual, balance, position, price, lastId, paperSent, abandoned, reversed>>

\* The delay has passed: a buy the balance cannot pay is rejected.
FillRejects(f) ==
  /\ f.id \in DOMAIN virtual
  /\ virtual[f.id].status = "Submitted"
  /\ virtual[f.id].of \in Buys
  /\ balance < Required(virtual[f.id].of)
  /\ virtual' = [virtual EXCEPT ![f.id].status = "Rejected"]
  /\ fillers' = fillers \ {f}
  /\ UNCHANGED <<balance, position, price, lastId, paperSent, abandoned, reversed>>

\* The delay has passed: the order is filled, paid and booked.
FillFills(f) ==
  /\ f.id \in DOMAIN virtual
  /\ virtual[f.id].status = "Submitted"
  /\ LET o == virtual[f.id].of
     IN /\ o \in Buys => balance >= Required(o)
        /\ balance' = IF o \in Buys THEN balance - Required(o)
                                    ELSE balance + Notional(o) - Commission(o)
        /\ position' = Updated(o)
        /\ reversed' = (reversed \/ Reverses(o))
  /\ virtual' = [virtual EXCEPT ![f.id].status = "Filled"]
  /\ fillers' = fillers \ {f}
  /\ UNCHANGED <<price, lastId, paperSent, abandoned>>

\* The context of the submission ends first: the order stays as it is.
FillAbandoned(f) ==
  /\ fillers' = fillers \ {f}
  /\ abandoned' = abandoned \cup {f.id}
  /\ UNCHANGED <<virtual, balance, position, price, lastId, paperSent, reversed>>

\* UpdateMarketPrice; the unrealized profit it also refreshes decides nothing.
UpdateMarketPrice(p) ==
  /\ price' = p
  /\ UNCHANGED <<virtual, balance, position, fillers, lastId, paperSent, abandoned, reversed>>

\* Reset: the goroutines of the orders it forgets go on waiting.
Reset ==
  /\ virtual' = <<>>
  /\ balance' = InitialBalance * Unit
  /\ position' = NoPosition
  /\ price' = 0
  /\ reversed' = FALSE
  /\ UNCHANGED <<fillers, lastId, paperSent, abandoned>>

Fill(f) == FillFindsNothing(f) \/ FillRejects(f) \/ FillFills(f)

(***************************************************************************)
(* Properties                                                              *)
(***************************************************************************)

SimTypeOK ==
  /\ DOMAIN virtual \subseteq PaperIds
  /\ \A id \in DOMAIN virtual : virtual[id] \in [of : Orders, status : Statuses]
  /\ fillers \subseteq [n : 1..MaxPaper, id : PaperIds]
  /\ balance \in Int /\ price \in Prices \cup {0}
  /\ position \in [side : {"none", "Long", "Short"}, qty : Nat, entry : Nat, realized : Int]
  /\ lastId \in 0..MaxPaper /\ paperSent \in 0..MaxPaper /\ lastId <= paperSent
  /\ abandoned \subseteq PaperIds /\ reversed \in BOOLEAN

\* The balance and the position are kept by different formulas, fill by fill, at
\* prices that move between them: money spent is in the position at cost or was
\* realized.  A fill larger than what it closes breaks this, since updatePosition
\* drops the excess and still books profit for it.
BooksBalance ==
  ~reversed =>
    balance + Signed(position) * position.qty * position.entry
      = InitialBalance * Unit + position.realized

\* An order that is still Submitted has a goroutine that will decide it, or its
\* goroutine left because the caller's context ended.
StuckOnlyByContext ==
  \A id \in DOMAIN virtual :
    virtual[id].status = "Submitted" =>
      id \in abandoned \/ \E f \in fillers : f.id = id

\* However a cancel, a reset, a colliding id and the fill goroutines interleave, an
\* order has one outcome: nothing but the end of its context leaves it Submitted with
\* nobody to decide it, and once filled, canceled or rejected it is never decided
\* again; only a submission puts another order in its place.
OneOutcome ==
  /\ []StuckOnlyByContext
  /\ [][\A id \in DOMAIN virtual \cap DOMAIN virtual' :
          virtual[id].status # "Submitted" /\ paperSent' = paperSent
            => virtual'[id] = virtual[id]]_simVars
=============================================================================
