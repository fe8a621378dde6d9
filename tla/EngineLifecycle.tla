--------------------------- MODULE EngineLifecycle -------------------------
(***************************************************************************)
(* internal/engine: engine.go, state.go and shutdown.go. The mode, the     *)
(* background workers with their panic recovery, Start, Stop and           *)
(* GracefulShutdown.                                                       *)
(*                                                                         *)
(* What a goroutine still has to do in its handler or call is its agenda,  *)
(* and the head of the agenda is its next step: a step is what happens     *)
(* under one lock, or one call to the outside. The event bus is EventBus   *)
(* seen from a publisher: a Publish returns, waits for a subscriber, is    *)
(* released by the context, or panics on a channel that Shutdown closed.   *)
(* Its Shutdown closes the channels at once and then waits for a delivery  *)
(* goroutine, of which one is looked at: it may be in an OnEvent that does *)
(* not return.                                                             *)
(* Timers may fire at any time. What a notification or an event says is    *)
(* left out.                                                               *)
(*                                                                         *)
(* A definition marked "Slip" is not part of the specification: it is a    *)
(* mistake the definition after it could hold, and PROJECT.json names the  *)
(* property that catches it.                                               *)
(***************************************************************************)
EXTENDS Integers, Sequences

CONSTANTS
  Teams,      \* bound: sets of workers, of which one is looked at in a behaviour
  Users,      \* goroutines that call TransitionTo
  Callers,    \* goroutines that call Stop and Shutdown
  UserModes,  \* the modes they ask for
  Capacity,   \* size of the listener's channel (10 in the code)
  Tolerance,  \* NTPFailureTolerance
  Orders      \* the orders that are open on the exchange

Workers == {"listener", "ntp", "stream", "reconciliation"}

\* "other" stands for Scanning, Backtesting and Optimizing.
Modes == {"idle", "other", "live", "paper", "halted"}

Actors == Workers \cup Users \cup Callers

ASSUME TeamsAssumption == Teams \subseteq (SUBSET Workers) \ {{}}
ASSUME ActorsAssumption ==
  Users \cap Callers = {} /\ (Users \cup Callers) \cap Workers = {}
ASSUME UserModesAssumption == UserModes \subseteq Modes
ASSUME CapacityAssumption == Capacity \in Nat \ {0}
ASSUME ToleranceAssumption == Tolerance \in Nat \ {0}

VARIABLES
  mode,      \* stateMachine.currentState
  notes,     \* how many transitions wait in the listener's channel
  ctxDone,   \* e.ctx is done
  bus,       \* "open", or "closed" by EventBus.Shutdown
  delivery,  \* a delivery goroutine: it waits, has events to handle, or has exited
  storage,   \* "open", or "closed" with the connector by closeConnections
  failures,  \* ntpConsecutiveFailures, counted up to Tolerance
  synced,    \* ntpLastSuccessfulSync is set
  phase,     \* of a worker: "leaving" after a recovered panic
  agenda,    \* of a goroutine: the steps it has still to take
  order,     \* the orders, with what GracefulShutdown did about them
  failed,    \* the call of Stop or Shutdown has met an error
  done,      \* Shutdown: "running" while gs.mu is held, "over" when gs.done is closed
  told,      \* what the last call of Shutdown by a caller returned: errors, none
             \* ("nil"), or none because gs.done was closed ("already")
  crashed,   \* a panic that nothing recovered ended the process
  mustHalt   \* history: the reason to halt that the worker met, if no user has
             \* changed the mode since

vars == <<mode, notes, ctxDone, bus, delivery, storage, failures, synced, phase,
          agenda, order, failed, done, told, crashed, mustHalt>>

world == <<bus, delivery, storage, order>>        \* outside the engine
ntp == <<failures, synced>>
calls == <<failed, done, told>>

Steps ==
  {"notify", "publish", "sending", "query", "halt", "check_live", "reconcile",
   "lock", "begin", "begin_halt", "list", "cancel_orders", "unload", "close",
   "shutdown_bus", "drain", "stop", "stop_halt", "cancel", "wait", "close_done"}

StopSteps == <<"stop", "cancel", "wait", "shutdown_bus">>

ShutdownSteps ==
  <<"begin", "list", "cancel_orders", "unload", "close", "shutdown_bus">>
    \o StopSteps \o <<"close_done">>

Init ==
  /\ mode = "idle" /\ notes = 0 /\ ctxDone = FALSE
  /\ bus = "open" /\ delivery = "waits" /\ storage = "open"
  /\ failures = 0 /\ synced = FALSE
  /\ \E team \in Teams : phase = [w \in Workers |-> IF w \in team THEN "new" ELSE "exited"]
  /\ agenda = [a \in Actors |-> <<>>]
  /\ order = [o \in Orders |-> "open"]
  /\ failed = [c \in Callers |-> FALSE]
  /\ done = "no" /\ told = [c \in Callers |-> "nothing"]
  /\ crashed = FALSE /\ mustHalt = [w \in Workers |-> "none"]

Started == \A w \in Workers : phase[w] # "new"

\* A Stop that Shutdown makes has its last step ahead.
InShutdown(c) == agenda[c][Len(agenda[c])] = "close_done"

\* The next step of a is s.
At(a, s) == agenda[a] # <<>> /\ Head(agenda[a]) = s

\* The goroutine goes on with its next step; with what replaces this one.
Continue(a) == agenda' = [agenda EXCEPT ![a] = Tail(@)]
ContinueWith(a, steps) == agenda' = [agenda EXCEPT ![a] = steps \o Tail(@)]

-----------------------------------------------------------------------------
(* The state machine *)

\* isValidTransition: a halted engine goes to idle only.
Valid(from, to) == from # to /\ (from = "halted" => to = "idle")

\* Listeners are told after the lock is given back, those subscribed by then.
Told == IF Started THEN <<"notify">> ELSE <<>>

\* A listener whose channel is full is not told.
Notify(a) ==
  /\ At(a, "notify")
  /\ notes' = IF notes < Capacity THEN notes + 1 ELSE notes
  /\ Continue(a)
  /\ UNCHANGED <<mode, ctxDone, world, ntp, phase, calls, crashed, mustHalt>>

\* TransitionTo.
TransitionTo(u, to) ==
  /\ ~crashed /\ agenda[u] = <<>> /\ Valid(mode, to)
  /\ mode' = to
  /\ agenda' = [agenda EXCEPT ![u] = Told]
  /\ mustHalt' = [w \in Workers |-> "none"]
  /\ UNCHANGED <<notes, ctxDone, world, ntp, phase, calls, crashed>>

\* Transition(StateHalted) by a worker, which only logs that it is refused.
Halt(a) ==
  /\ At(a, "halt")
  /\ IF Valid(mode, "halted") THEN mode' = "halted" /\ ContinueWith(a, Told)
                              ELSE UNCHANGED mode /\ Continue(a)
  /\ UNCHANGED <<notes, ctxDone, world, ntp, phase, calls, crashed, mustHalt>>

-----------------------------------------------------------------------------
(* Publish, as its caller sees it *)

\* A bus that is closed, or whose context is done, takes nothing.
Publish(a) ==
  /\ At(a, "publish")
  /\ IF bus = "closed" \/ ctxDone THEN Continue(a) ELSE ContinueWith(a, <<"sending">>)
  /\ UNCHANGED <<mode, notes, ctxDone, world, ntp, phase, calls, crashed, mustHalt>>

\* Every subscriber took the event, or there was none.
Sent(a) ==
  /\ At(a, "sending")
  /\ delivery' = delivery \/ (bus = "open" /\ delivery = "waits" /\ delivery' = "handling")
  /\ Continue(a)
  /\ UNCHANGED <<mode, notes, ctxDone, bus, storage, order, ntp, phase, calls, crashed, mustHalt>>

\* Slip: a publisher waits for its subscribers alone.
NeverReleased(a) == FALSE /\ UNCHANGED vars

\* A publisher that waits is released by the context of the bus, a child of
\* the engine's.
Released(a) ==
  /\ At(a, "sending") /\ (ctxDone \/ bus = "closed")
  /\ Continue(a)
  /\ UNCHANGED <<mode, notes, ctxDone, world, ntp, phase, calls, crashed, mustHalt>>

-----------------------------------------------------------------------------
(* The workers *)

Start ==
  /\ ~Started
  /\ phase' = [w \in Workers |-> IF phase[w] = "new" THEN "running" ELSE phase[w]]
  /\ UNCHANGED <<mode, notes, ctxDone, world, ntp, agenda, calls, crashed, mustHalt>>

\* A worker waits in its select.
Selecting(w) == w \in Workers /\ phase[w] = "running" /\ agenda[w] = <<>>

\* Something to handle: a transition, a tick, a stream event.
Receive(w, steps) ==
  /\ Selecting(w)
  /\ agenda' = [agenda EXCEPT ![w] = steps]
  /\ UNCHANGED <<mode, ctxDone, world, ntp, phase, calls, crashed>>

ListenerReceives ==
  /\ notes > 0 /\ notes' = notes - 1
  /\ Receive("listener", <<"publish">>)
  /\ UNCHANGED mustHalt

Tick ==
  /\ \/ Receive("ntp", <<"query">>)
     \/ mode \in {"live", "paper"} /\ Receive("reconciliation", <<"reconcile">>)
  /\ UNCHANGED <<notes, mustHalt>>

\* handleStreamEvent: lost streams halt live trading, and what may have been
\* missed is reconciled.
StreamEvent ==
  /\ \/ /\ Receive("stream", <<"publish", "check_live">>)
        /\ mustHalt' = [mustHalt EXCEPT !["stream"] = "lost_stream"]
     \/ /\ Receive("stream", <<"publish", "check_live", "reconcile">>)
        /\ mustHalt' = [mustHalt EXCEPT !["stream"] = "lost_stream"]
     \/ Receive("stream", <<"publish", "reconcile">>) /\ UNCHANGED mustHalt
     \/ Receive("stream", <<"publish">>) /\ UNCHANGED mustHalt
  /\ UNCHANGED notes

\* haltLiveTradingForStreamEvent looks at the mode before it halts.
CheckLive(w) ==
  /\ At(w, "check_live")
  /\ IF mode = "live" THEN ContinueWith(w, <<"halt">>) ELSE Continue(w)
  /\ UNCHANGED <<mode, notes, ctxDone, world, ntp, phase, calls, crashed, mustHalt>>

\* A reconciliation that fails is published.
Reconciled(w) ==
  /\ At(w, "reconcile")
  /\ Continue(w) \/ ContinueWith(w, <<"publish">>)
  /\ UNCHANGED <<mode, notes, ctxDone, world, ntp, phase, calls, crashed, mustHalt>>

\* The query succeeds: with a drift that is too large trading is halted.
NTPAnswers(w) ==
  /\ At(w, "query")
  /\ failures' = 0 /\ synced' = TRUE
  /\ \/ Continue(w) /\ UNCHANGED mustHalt
     \/ ContinueWith(w, <<"halt", "publish">>) /\ mustHalt' = [mustHalt EXCEPT ![w] = "unsafe"]
  /\ UNCHANGED <<mode, notes, ctxDone, world, phase, calls, crashed>>

\* Slip: the tolerance is exceeded before trading is halted.
NTPFailsLate(w) ==
  /\ At(w, "query")
  /\ failures' = IF failures < Tolerance THEN failures + 1 ELSE failures
  /\ synced' = synced
  /\ mustHalt' = [mustHalt EXCEPT ![w] = IF failures' >= Tolerance THEN "unsafe" ELSE @]
  /\ IF failures >= Tolerance THEN ContinueWith(w, <<"halt", "publish">>) ELSE Continue(w)
  /\ UNCHANGED <<mode, notes, ctxDone, world, phase, calls, crashed>>

\* The query fails, or the breaker is open: too many failures, or a last success
\* that is too old, halt trading.
NTPFails(w) ==
  /\ At(w, "query")
  /\ failures' = IF failures < Tolerance THEN failures + 1 ELSE failures
  /\ synced' = synced
  /\ \/ /\ failures' >= Tolerance \/ synced
        /\ mustHalt' = [mustHalt EXCEPT ![w] = "unsafe"]
        /\ ContinueWith(w, <<"halt", "publish">>)
     \/ /\ failures' < Tolerance
        /\ Continue(w) /\ UNCHANGED mustHalt
  /\ UNCHANGED <<mode, notes, ctxDone, world, phase, calls, crashed>>

\* A worker leaves its select when the context is done, or after its panic.
Exit(w) ==
  /\ agenda[w] = <<>>
  /\ phase[w] = "leaving" \/ (phase[w] = "running" /\ ctxDone)
  /\ phase' = [phase EXCEPT ![w] = "exited"]
  /\ UNCHANGED <<mode, notes, ctxDone, world, ntp, agenda, calls, crashed, mustHalt>>

\* A call to the outside, or a send on a channel that the bus has closed.
MayPanic(w) ==
  \/ At(w, "query") \/ At(w, "reconcile")
  \/ At(w, "sending") /\ bus = "closed"

\* recoverWorker halts, publishes and lets the worker end.
Panic(w) ==
  /\ phase[w] = "running" /\ MayPanic(w)
  /\ phase' = [phase EXCEPT ![w] = "leaving"]
  /\ agenda' = [agenda EXCEPT ![w] = <<"halt", "publish">>]
  /\ mustHalt' = [mustHalt EXCEPT ![w] = "unsafe"]
  /\ UNCHANGED <<mode, notes, ctxDone, world, ntp, calls, crashed>>

\* The Publish of recoverWorker panics, and nothing recovers it.
Crash(w) ==
  /\ phase[w] = "leaving" /\ MayPanic(w)
  /\ crashed' = TRUE
  /\ phase' = [v \in Workers |-> "exited"]
  /\ agenda' = [a \in Actors |-> <<>>]
  /\ UNCHANGED <<mode, notes, ctxDone, world, ntp, calls, mustHalt>>

-----------------------------------------------------------------------------
(* Stop and GracefulShutdown.Shutdown *)

\* The caller is free, the engine was started.
Call(c, steps) ==
  /\ Started /\ ~crashed /\ agenda[c] = <<>>
  /\ agenda' = [agenda EXCEPT ![c] = steps]
  /\ failed' = [failed EXCEPT ![c] = FALSE]
  /\ UNCHANGED <<mode, notes, ctxDone, world, ntp, phase, done, crashed, mustHalt>>

StopCall(c) == Call(c, StopSteps) /\ UNCHANGED told

ShutdownCall(c) == Call(c, <<"lock">>) /\ told' = [told EXCEPT ![c] = "nothing"]

\* gs.mu is got when nobody is in Shutdown; the first call goes through its
\* steps, a later one finds gs.done closed and returns nil.
Lock(c) ==
  /\ At(c, "lock")
  /\ \/ /\ done = "no" /\ done' = "running"
        /\ agenda' = [agenda EXCEPT ![c] = ShutdownSteps]
        /\ UNCHANGED told
     \/ /\ done = "over" /\ told' = [told EXCEPT ![c] = "already"]
        /\ agenda' = [agenda EXCEPT ![c] = <<>>]
        /\ UNCHANGED done
  /\ UNCHANGED <<mode, notes, ctxDone, world, ntp, phase, failed, crashed, mustHalt>>

\* Shutdown closes gs.done and returns the errors it has collected.
CloseDone(c) ==
  /\ At(c, "close_done")
  /\ done' = "over"
  /\ told' = [told EXCEPT ![c] = IF failed[c] THEN "errors" ELSE "nil"]
  /\ Continue(c)
  /\ UNCHANGED <<mode, notes, ctxDone, world, ntp, phase, failed, crashed, mustHalt>>

\* Is the engine halted already?
CheckHalted(c) ==
  /\ \/ /\ At(c, "begin")
        /\ IF mode = "halted" THEN Continue(c) ELSE ContinueWith(c, <<"begin_halt">>)
     \/ /\ At(c, "stop")
        /\ IF mode = "halted" THEN Continue(c) ELSE ContinueWith(c, <<"stop_halt">>)
  /\ UNCHANGED <<mode, notes, ctxDone, world, ntp, phase, calls, crashed, mustHalt>>

\* The transition after that check.
HaltFirst(c) ==
  /\ At(c, "begin_halt") \/ At(c, "stop_halt")
  /\ Valid(mode, "halted")
  /\ mode' = "halted"
  /\ ContinueWith(c, Told)
  /\ UNCHANGED <<notes, ctxDone, world, ntp, phase, calls, crashed, mustHalt>>

\* It is refused when somebody else has halted meanwhile. Shutdown goes on; Stop
\* returns and has stopped nothing.
HaltRefused(c) ==
  /\ ~Valid(mode, "halted")
  /\ \/ At(c, "begin_halt") /\ Continue(c)
     \/ /\ At(c, "stop_halt")
        /\ agenda' = [agenda EXCEPT ![c] = IF InShutdown(c) THEN <<"close_done">> ELSE <<>>]
  /\ failed' = [failed EXCEPT ![c] = TRUE]
  /\ UNCHANGED <<mode, notes, ctxDone, world, ntp, phase, done, told, crashed, mustHalt>>

CancelContext(c) ==
  /\ At(c, "cancel")
  /\ ctxDone' = TRUE
  /\ Continue(c)
  /\ UNCHANGED <<mode, notes, world, ntp, phase, calls, crashed, mustHalt>>

\* e.wg.Wait returns.
WorkersDone(c) ==
  /\ At(c, "wait")
  /\ \A w \in Workers : phase[w] = "exited"
  /\ Continue(c)
  /\ UNCHANGED <<mode, notes, ctxDone, world, ntp, phase, calls, crashed, mustHalt>>

\* The first call of EventBus.Shutdown closes the channels and waits for the
\* delivery goroutines; another one returns at once, also while the first waits.
ShutdownBus(c) ==
  /\ At(c, "shutdown_bus")
  /\ IF bus = "open" THEN ContinueWith(c, <<"drain">>) ELSE Continue(c)
  /\ bus' = "closed"
  /\ UNCHANGED <<mode, notes, ctxDone, delivery, storage, ntp, phase, order, calls, crashed,
                 mustHalt>>

\* eb.wg.Wait returns.
Drained(c) ==
  /\ At(c, "drain") /\ delivery = "exited"
  /\ Continue(c)
  /\ UNCHANGED <<mode, notes, ctxDone, world, ntp, phase, calls, crashed, mustHalt>>

\* The open orders are listed, or the exchange does not answer.
ListOrders(c) ==
  /\ At(c, "list")
  /\ \/ /\ order' = [o \in Orders |-> IF order[o] = "open" THEN "listed" ELSE order[o]]
        /\ UNCHANGED failed
     \/ failed' = [failed EXCEPT ![c] = TRUE] /\ UNCHANGED order
  /\ Continue(c)
  /\ UNCHANGED <<mode, notes, ctxDone, bus, delivery, storage, ntp, phase, done, told, crashed,
                 mustHalt>>

\* Slip: the error of a cancellation is logged alone.
CancelQuietly(c, o) ==
  /\ At(c, "cancel_orders") /\ order[o] = "listed"
  /\ \E outcome \in {"canceled", "left"} : order' = [order EXCEPT ![o] = outcome]
  /\ UNCHANGED <<mode, notes, ctxDone, bus, delivery, storage, ntp, phase, agenda, calls,
                 crashed, mustHalt>>

\* One of the concurrent cancellations succeeds or fails.
CancelListed(c, o) ==
  /\ At(c, "cancel_orders") /\ order[o] = "listed"
  /\ \/ order' = [order EXCEPT ![o] = "canceled"] /\ UNCHANGED failed
     \/ /\ order' = [order EXCEPT ![o] = "left"]
        /\ failed' = [failed EXCEPT ![c] = TRUE]
  /\ UNCHANGED <<mode, notes, ctxDone, bus, delivery, storage, ntp, phase, agenda, done, told,
                 crashed, mustHalt>>

CancelsDone(c) ==
  /\ At(c, "cancel_orders") /\ \A o \in Orders : order[o] # "listed"
  /\ Continue(c)
  /\ UNCHANGED <<mode, notes, ctxDone, world, ntp, phase, calls, crashed, mustHalt>>

\* Strategies are unloaded, the connector and the storage closed: each may fail,
\* and the next is tried all the same.
Close(c) ==
  /\ UNCHANGED failed \/ failed' = [failed EXCEPT ![c] = TRUE]
  /\ \/ At(c, "unload") /\ UNCHANGED storage
     \/ At(c, "close") /\ storage' = "closed"
     \/ At(c, "close") /\ failed'[c] /\ UNCHANGED storage
  /\ Continue(c)
  /\ UNCHANGED <<mode, notes, ctxDone, bus, delivery, ntp, phase, order, done, told, crashed,
                 mustHalt>>

-----------------------------------------------------------------------------
(* The rest of the program *)

\* The context the engine was made with is cancelled.
CancelParent ==
  /\ ~crashed /\ ~ctxDone
  /\ ctxDone' = TRUE
  /\ UNCHANGED <<mode, notes, world, ntp, phase, agenda, calls, crashed, mustHalt>>

\* The delivery goroutine has handled what it had, or leaves: its channel is
\* closed, or its context is done.
HandlersReturn ==
  /\ ~crashed /\ delivery = "handling"
  /\ delivery' = "waits"
  /\ UNCHANGED <<mode, notes, ctxDone, bus, storage, order, ntp, phase, agenda, calls, crashed,
                 mustHalt>>

DeliveryEnds ==
  /\ ~crashed /\ delivery = "waits" /\ (ctxDone \/ bus = "closed")
  /\ delivery' = "exited"
  /\ UNCHANGED <<mode, notes, ctxDone, bus, storage, order, ntp, phase, agenda, calls, crashed,
                 mustHalt>>

-----------------------------------------------------------------------------

\* What a goroutine does by itself in a handler or a call.
Proceed(a) ==
  \/ Notify(a) \/ Halt(a) \/ Publish(a) \/ Released(a) \/ CheckLive(a)
  \/ Reconciled(a) \/ NTPAnswers(a) \/ NTPFails(a)

CallerStep(c) ==
  \/ Lock(c) \/ Notify(c) \/ CheckHalted(c) \/ HaltFirst(c) \/ HaltRefused(c)
  \/ CancelContext(c) \/ WorkersDone(c) \/ ShutdownBus(c) \/ Drained(c) \/ ListOrders(c)
  \/ (\E o \in Orders : CancelListed(c, o)) \/ CancelsDone(c) \/ Close(c) \/ CloseDone(c)

Next ==
  \/ Start \/ ListenerReceives \/ Tick \/ StreamEvent
  \/ \E w \in Workers : Proceed(w) \/ Sent(w) \/ Exit(w) \/ Panic(w) \/ Crash(w)
  \/ \E u \in Users : Notify(u) \/ \E m \in UserModes : TransitionTo(u, m)
  \/ \E c \in Callers : StopCall(c) \/ ShutdownCall(c) \/ CallerStep(c)
  \/ CancelParent \/ HandlersReturn \/ DeliveryEnds

Spec == Init /\ [][Next]_vars

\* Goroutines that can run do, and outside calls return (they have timeouts). A
\* select that finds its context done every time picks it at last, although a
\* ticker may be ready too; each worker exits once, so one such choice in every
\* run of choices is enough. No subscriber has to take an event, and no OnEvent has
\* to return.
Fairness ==
  /\ \A w \in Workers : WF_vars(Proceed(w))
  /\ SF_vars(\E w \in Workers : Exit(w))
  /\ \A c \in Callers : WF_vars(CallerStep(c))
  /\ WF_vars(DeliveryEnds)

FairSpec == Spec /\ Fairness

-----------------------------------------------------------------------------
(* Properties *)

\* The type of every variable; the listener's channel never exceeds its
\* capacity.
TypeOK ==
  /\ mode \in Modes /\ notes \in 0..Capacity
  /\ ctxDone \in BOOLEAN /\ crashed \in BOOLEAN /\ synced \in BOOLEAN
  /\ bus \in {"open", "closed"} /\ storage \in {"open", "closed"}
  /\ delivery \in {"waits", "handling", "exited"}
  /\ failures \in 0..Tolerance
  /\ phase \in [Workers -> {"new", "running", "leaving", "exited"}]
  /\ agenda \in [Actors -> Seq(Steps)]
  /\ order \in [Orders -> {"open", "listed", "canceled", "left"}]
  /\ failed \in [Callers -> BOOLEAN] /\ done \in {"no", "running", "over"}
  /\ told \in [Callers -> {"nothing", "nil", "errors", "already"}]
  /\ mustHalt \in [Workers -> {"none", "lost_stream", "unsafe"}]

\* A worker that met a reason to halt (ntpSyncWorker: too many failures, an old
\* or a large drift; recoverWorker: its panic; handleStreamEvent: a lost stream,
\* for live trading) has the engine halted when its handler is over, whatever
\* ran meanwhile, unless a user has changed the mode since.
HaltsWhenItMust ==
  \A w \in Workers :
    agenda[w] = <<>> /\ ~crashed =>
      /\ mustHalt[w] = "unsafe" => mode = "halted"
      /\ mustHalt[w] = "lost_stream" => mode # "live"

\* No worker runs, bus and connections are closed, no order that was listed is
\* open.
NothingLeft ==
  /\ \A w \in Workers : phase[w] = "exited"
  /\ bus = "closed" /\ storage = "closed"
  /\ \A o \in Orders : order[o] \notin {"listed", "left"}

\* A Shutdown that went through its five steps and reports no error left nothing
\* behind, although each of them may fail and others halt and stop the engine
\* beside it; one that finds it done already returns when that one is over
\* (shutdown.go:53-112).
CleanShutdown ==
  \A c \in Callers :
    /\ told[c] = "nil" => NothingLeft
    /\ told[c] = "already" => done = "over"

\* Stop and Shutdown return or come to wait for the bus, although workers may
\* wait for subscribers that never take an event (Stop cancels the context before
\* it waits); and they return when every OnEvent does (eventbus.go:332).
CallsReturn ==
  \A c \in Callers :
    /\ agenda[c] # <<>> ~> agenda[c] = <<>> \/ \E d \in Callers : At(d, "drain")
    /\ []<>(delivery # "handling") => (agenda[c] # <<>> ~> agenda[c] = <<>>)
=============================================================================
