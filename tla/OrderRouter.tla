---------------------------- MODULE OrderRouter ----------------------------
(***************************************************************************)
(* The order router of service/router/router.go in front of the paper      *)
(* simulator and a live connector.  SubmitOrder is cut where it holds no   *)
(* lock: after the in-flight entry and around the venue's answer.          *)
(* Nothing in the repository calls ConfirmOrder, CleanupTimedOutOrders or  *)
(* SetMode outside tests, so they come at any time.                                                       *)
(*                                                                         *)
(* Retries of an order pass the same *entity.Order, whose ClientOrderID is *)
(* set once (a hash of the order, distinct for distinct orders) and whose  *)
(* ExchangeOrderID is overwritten by whichever call answers last.          *)
(***************************************************************************)
EXTENDS PaperSimulator

CONSTANTS
  Callers,            \* goroutines that may be in SubmitOrder
  MaxInFlightOrders,
  TimeoutTicks,       \* TimeoutSeconds
  EnableIdempotency,
  MaxLive,            \* bound: calls of the connector's SubmitOrder
  MaxEvents           \* bound: events from outside the calls (see Outside)

ASSUME RouterAssumption ==
  /\ IsFiniteSet(Callers)
  /\ MaxInFlightOrders \in Nat \ {0}
  /\ TimeoutTicks \in Nat
  /\ EnableIdempotency \in BOOLEAN
  /\ MaxLive \in Nat /\ MaxEvents \in Nat

VARIABLES
  inFlight,    \* r.inFlight: order -> [since, by], by the call that entered it
  mode,        \* r.config.Mode
  now,         \* the clock of the timeouts
  exchangeId,  \* order -> ExchangeOrderID, or None
  call,        \* caller -> where its call is, its order, the id the venue returned
  liveSent,    \* number of calls of the connector's SubmitOrder
  events,      \* number of events from outside the calls
  taken,       \* history: order -> how often a venue took it
  released     \* history: order -> how often an entry of it was removed

routerVars == <<inFlight, mode, now, exchangeId, call, liveSent, events, taken,
                released>>
vars == <<simVars, routerVars>>

Modes == {"live", "paper"}
None == <<"none", 0>>
Ids == {None} \cup Modes \X (0..(MaxPaper + MaxLive))
Idle == [at |-> "idle", order |-> None, id |-> None]

Init ==
  /\ SimInit
  /\ inFlight = <<>> /\ mode \in Modes /\ now = 0
  /\ exchangeId = [o \in Orders |-> None]
  /\ call = [c \in Callers |-> Idle]
  /\ liveSent = 0 /\ events = 0
  /\ taken = [o \in Orders |-> 0]
  /\ released = [o \in Orders |-> 0]

Goto(c, place) == call' = [call EXCEPT ![c].at = place]
Return(c) == call' = [call EXCEPT ![c] = Idle]

\* delete(r.inFlight, ...) of every order in S.
Release(S) ==
  LET gone == S \cap DOMAIN inFlight
  IN /\ inFlight' = [o \in DOMAIN inFlight \ gone |-> inFlight[o]]
     /\ released' = [o \in Orders |-> released[o] + IF o \in gone THEN 1 ELSE 0]

Full == Cardinality(DOMAIN inFlight) >= MaxInFlightOrders
\* Slip: an entry counts as a duplicate only once its order has an id.
DuplicateSlip(o) ==
  EnableIdempotency /\ o \in DOMAIN inFlight /\ exchangeId[o] # None

Duplicate(o) == EnableIdempotency /\ o \in DOMAIN inFlight

\* checkNewEntry passed, and the locked section adds the order to the table.  A call
\* the gate or a full table refuses, or a duplicate is answered with the id its order
\* has by now, changes nothing.
Enter(c, o) ==
  /\ call[c] = Idle
  /\ ~Full
  /\ ~Duplicate(o)
  /\ inFlight' = [x \in DOMAIN inFlight \cup {o} |->
                    IF x = o THEN [since |-> now, by |-> c] ELSE inFlight[x]]
  /\ call' = [call EXCEPT ![c] = [at |-> "entered", order |-> o, id |-> None]]
  /\ UNCHANGED <<simVars, mode, now, exchangeId, liveSent, events, taken, released>>

\* The mode is read after the lock was released, and may change before the order goes.
Route(c) ==
  /\ call[c].at = "entered"
  /\ Goto(c, mode)
  /\ UNCHANGED <<simVars, inFlight, mode, now, exchangeId, liveSent, events, taken,
                 released>>

\* A venue takes the order of call c, and its answer arrives.
Take(c) == taken' = [taken EXCEPT ![call[c].order] = @ + 1]
Accept(c, id) == call' = [call EXCEPT ![c].at = "accepted", ![c].id = id]

\* submitPaper.
SendPaper(c) ==
  /\ call[c].at = "paper"
  /\ \E i \in PaperIds : /\ PaperSubmit(call[c].order, i)
                         /\ Take(c)
                         /\ Accept(c, <<"paper", i>>)
  /\ UNCHANGED <<inFlight, mode, now, exchangeId, liveSent, events, released>>

\* submitLive: the exchange takes the order and answers, or the answer is lost.
SendLive(c) ==
  /\ call[c].at = "live"
  /\ liveSent < MaxLive
  /\ liveSent' = liveSent + 1
  /\ Take(c)
  /\ \/ Accept(c, <<"live", liveSent + 1>>)
     \/ Goto(c, "failed")
  /\ UNCHANGED <<simVars, inFlight, mode, now, exchangeId, events, released>>

\* submitLive: the exchange does not take the order.
SendFails(c) ==
  /\ call[c].at = "live"
  /\ liveSent < MaxLive
  /\ liveSent' = liveSent + 1
  /\ Goto(c, "failed")
  /\ UNCHANGED <<simVars, inFlight, mode, now, exchangeId, events, taken, released>>

\* Slip: the error is returned and the entry stays.
SubmitFailedSlip(c) ==
  /\ call[c].at = "failed"
  /\ Return(c)
  /\ UNCHANGED <<simVars, inFlight, mode, now, exchangeId, liveSent, events, taken,
                 released>>

\* SubmitOrder returns the error: the entry of its client id goes, whoever made it.
SubmitFailed(c) ==
  /\ call[c].at = "failed"
  /\ Release({call[c].order})
  /\ Return(c)
  /\ UNCHANGED <<simVars, mode, now, exchangeId, liveSent, events, taken>>

\* SubmitOrder returns the id: it is kept on the order if an entry is still there.
SubmitAccepted(c) ==
  /\ call[c].at = "accepted"
  /\ exchangeId' = IF call[c].order \in DOMAIN inFlight
                   THEN [exchangeId EXCEPT ![call[c].order] = call[c].id]
                   ELSE exchangeId
  /\ Return(c)
  /\ UNCHANGED <<simVars, inFlight, mode, now, liveSent, events, taken, released>>

ConfirmOrder(o) ==
  /\ o \in DOMAIN inFlight
  /\ Release({o})
  /\ UNCHANGED <<simVars, mode, now, exchangeId, call, liveSent, taken>>

\* Slip: an entry as old as the timeout has timed out.
ExpiredSlip == {o \in DOMAIN inFlight : now - inFlight[o].since >= TimeoutTicks}

Expired == {o \in DOMAIN inFlight : now - inFlight[o].since > TimeoutTicks}

\* CleanupTimedOutOrders, whatever has become of the orders.
CleanupTimedOutOrders ==
  /\ Expired # {}
  /\ Release(Expired)
  /\ UNCHANGED <<simVars, mode, now, exchangeId, call, liveSent, events, taken>>

\* CancelOrder goes by the mode of now: in live mode the connector's answer changes
\* nothing here, in paper mode the simulator knows only its own ids.
CancelOrder(o) ==
  /\ mode = "paper"
  /\ exchangeId[o][1] = "paper"
  /\ PaperCancel(exchangeId[o][2])
  /\ UNCHANGED <<inFlight, mode, now, exchangeId, call, liveSent, taken, released>>

SetMode(m) ==
  /\ mode' = m
  /\ UNCHANGED <<simVars, inFlight, now, exchangeId, call, liveSent, taken, released>>

Tick ==
  /\ now' = now + 1
  /\ UNCHANGED <<simVars, inFlight, mode, exchangeId, call, liveSent, taken, released>>

\* The market and the owner of the simulator act.
Market ==
  /\ \/ \E p \in Prices : UpdateMarketPrice(p)
     \/ Reset
     \/ \E f \in fillers : FillAbandoned(f)
  /\ UNCHANGED <<inFlight, mode, now, exchangeId, call, liveSent, taken, released>>

\* What comes from outside the calls, MaxEvents times in all.
Outside ==
  /\ events < MaxEvents
  /\ events' = events + 1
  /\ \/ \E o \in Orders : ConfirmOrder(o)
     \/ \E o \in Orders : CancelOrder(o)
     \/ \E m \in Modes : SetMode(m)
     \/ Tick
     \/ Market

Call(c) ==
  \/ \E o \in Orders : Enter(c, o)
  \/ Route(c)
  \/ SendPaper(c)
  \/ SendLive(c)
  \/ SendFails(c)
  \/ SubmitFailed(c)
  \/ SubmitAccepted(c)

Next ==
  \/ \E c \in Callers : Call(c)
  \/ CleanupTimedOutOrders
  \/ Outside
  \/ \E f \in fillers : Fill(f) /\ UNCHANGED routerVars

Spec == Init /\ [][Next]_vars

(***************************************************************************)
(* Properties                                                              *)
(***************************************************************************)

TypeOK ==
  /\ SimTypeOK
  /\ DOMAIN inFlight \subseteq Orders
  /\ \A o \in DOMAIN inFlight : inFlight[o] \in [since : 0..MaxEvents, by : Callers]
  /\ mode \in Modes /\ now \in 0..MaxEvents
  /\ exchangeId \in [Orders -> Ids]
  /\ \A c \in Callers :
       \/ call[c] = Idle
       \/ call[c] \in [at : Modes \cup {"entered", "failed", "accepted"}, order : Orders, id : Ids]
  /\ liveSent \in 0..MaxLive /\ events \in 0..MaxEvents
  /\ taken \in [Orders -> Nat] /\ released \in [Orders -> Nat]

\* An order a venue takes a second time had its entry removed before: two calls with
\* one client id never both reach a venue while an entry of it stands.
DuplicatesExplained ==
  EnableIdempotency => \A o \in Orders : taken[o] <= 1 + released[o]

\* An entry stands for a call that is under way or for an order a venue took: none
\* is left behind by a call that failed, to fill the table for good.
NoLeak ==
  \A o \in DOMAIN inFlight :
    \/ \E c \in Callers : call[c] # Idle /\ call[c].order = o
    \/ taken[o] > 0

\* A fresh entry is lost only by confirmation or by a failing call of its client id.
\* If that call did not make the entry, its own one was removed while it was sending:
\* the timeout of an old call and its late failure together uncover a newer one.
EntryKept ==
  [][EnableIdempotency =>
       \A o \in DOMAIN inFlight \ DOMAIN inFlight' :
         \/ now - inFlight[o].since > TimeoutTicks
         \/ ConfirmOrder(o)
         \/ \E c \in Callers :
              /\ call[c].at = "failed" /\ call'[c] = Idle /\ call[c].order = o
              /\ inFlight[o].by = c \/ released[o] > 0]_vars
=============================================================================
