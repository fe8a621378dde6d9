------------------------------ MODULE EventBus -----------------------------
(***************************************************************************)
(* internal/engine/eventbus.go: publishers, subscriptions with a delivery  *)
(* goroutine each, Unsubscribe and Shutdown.                               *)
(*                                                                         *)
(* One event type: the bus keeps its types apart. An event is its          *)
(* publisher and the number of the Publish call that carries it. "lock" is *)
(* the write lock of eb.mu; a critical section under the read lock, or one *)
(* whose effect is a single assignment, is one action. A panic of OnEvent  *)
(* is recovered by safeOnEvent and is the same as its return.              *)
(*                                                                         *)
(* A definition marked "Slip" is not part of the specification: it is a    *)
(* mistake the definition after it could hold, and PROJECT.json names the  *)
(* property that catches it.                                               *)
(***************************************************************************)
EXTENDS Integers, Sequences

CONSTANTS
  Pubs,        \* goroutines that call Publish
  Subs,        \* subscriptions that may be made
  Capacity,    \* size of a subscription's channel (10 and 1000 in the code)
  MaxPublish,  \* bound: Publish calls of one publisher that pass its checks
  Publishes    \* bound: the same for each publisher, at most MaxPublish

ASSUME CapacityAssumption == Capacity \in Nat \ {0}
ASSUME MaxPublishAssumption == MaxPublish \in Nat
ASSUME PublishesAssumption == Publishes \in [Pubs -> 0..MaxPublish]
ASSUME LockAssumption == "free" \notin Subs /\ "shutdown" \notin Subs

VARIABLES
  closed,     \* eb.closed
  ctxDone,    \* eb.ctx is done: by Shutdown, or by the engine's own context
  lock,       \* who holds eb.mu: nobody, Shutdown or the Unsubscribe of s
  shutdown,   \* where the call of Shutdown is
  sub,        \* the subscriptions, each with its channel and goroutine
  pub,        \* the publishers
  delivered,  \* history: per subscription and publisher, what OnEvent was called with
  owed,       \* history: events in a channel since before it was cancelled
  lost        \* history: events that a panic in Publish kept from a subscription

vars == <<closed, ctxDone, lock, shutdown, sub, pub, delivered, owed, lost>>

Events == [from: Pubs, n: 1..MaxPublish]

\* A subscription: its place in the map, its context and channel, its
\* goroutine, and whether its running OnEvent has called Unsubscribe.
Subscriptions ==
  [state: {"none", "registered", "removed"}, qos: {0, 1},
   canceled: BOOLEAN, chClosed: BOOLEAN, ch: Seq(Events), leaving: BOOLEAN,
   worker: {"none", "waiting", "handling", "draining", "drain_handling", "exited"}]

NoSubscription ==
  [state |-> "none", qos |-> 0, canceled |-> FALSE, chClosed |-> FALSE,
   ch |-> <<>>, leaving |-> FALSE, worker |-> "none"]

Registered == {s \in Subs : sub[s].state = "registered"}

Guaranteed == {s \in Subs : sub[s].qos = 1}

\* subCtx is a child of eb.ctx.
SubCtxDone(s) == sub[s].canceled \/ ctxDone

Init ==
  /\ closed = FALSE /\ ctxDone = FALSE
  /\ lock = "free" /\ shutdown = "not_called"
  /\ sub = [s \in Subs |-> NoSubscription]
  /\ pub = [p \in Pubs |-> [at |-> "idle", n |-> 0, todo |-> {}]]
  /\ delivered = [s \in Subs |-> [p \in Pubs |-> <<>>]]
  /\ owed = [s \in Subs |-> {}] /\ lost = [s \in Subs |-> {}]

-----------------------------------------------------------------------------
(* Subscribe and Unsubscribe *)

Subscribe(s, q) ==
  /\ lock = "free" /\ sub[s].state = "none"
  /\ ~closed /\ ~ctxDone
  /\ sub' = [sub EXCEPT ![s].state = "registered", ![s].qos = q, ![s].worker = "waiting"]
  /\ UNCHANGED <<closed, ctxDone, lock, shutdown, pub, delivered, owed, lost>>

\* OnEvent calls Unsubscribe for its own subscription and waits for the lock.
HandlerLeaves(s) ==
  /\ sub[s].worker \in {"handling", "drain_handling"} /\ ~sub[s].leaving
  /\ sub' = [sub EXCEPT ![s].leaving = TRUE]
  /\ UNCHANGED <<closed, ctxDone, lock, shutdown, pub, delivered, owed, lost>>

\* Unsubscribe, by OnEvent or by anyone else, gets the lock and calls
\* sub.cancel.
Unsubscribe(s) ==
  /\ lock = "free" /\ s \in Registered
  /\ lock' = s
  /\ sub' = [sub EXCEPT ![s].canceled = TRUE]
  /\ UNCHANGED <<closed, ctxDone, shutdown, pub, delivered, owed, lost>>

\* Unsubscribe or Shutdown closes the channel after the cancellation and
\* deletes the subscription; Unsubscribe then gives the lock back.
CloseChannel(s) ==
  /\ lock \in {s, "shutdown"} /\ s \in Registered /\ sub[s].canceled
  /\ sub' = [sub EXCEPT ![s].chClosed = TRUE, ![s].state = "removed"]
  /\ lock' = IF lock = s THEN "free" ELSE lock
  /\ UNCHANGED <<closed, ctxDone, shutdown, pub, delivered, owed, lost>>

-----------------------------------------------------------------------------
(* Publish *)

\* The check of closed and of the context; a call that fails it returns and
\* changes nothing.
Publish(p) ==
  /\ pub[p].at = "idle" /\ pub[p].n < Publishes[p]
  /\ ~closed /\ ~ctxDone
  /\ pub' = [pub EXCEPT ![p].n = @ + 1, ![p].at = "checked"]
  /\ UNCHANGED <<closed, ctxDone, lock, shutdown, sub, delivered, owed, lost>>

\* The subscriptions are copied under the read lock.
CopySubscriptions(p) ==
  /\ pub[p].at = "checked" /\ lock = "free"
  /\ pub' = [pub EXCEPT ![p].at = IF Registered = {} THEN "idle" ELSE "sending",
                        ![p].todo = Registered]
  /\ UNCHANGED <<closed, ctxDone, lock, shutdown, sub, delivered, owed, lost>>

\* Publish goes on with the next of the copied subscriptions, or returns.
Passed(p, s) ==
  pub' = [pub EXCEPT ![p].todo = @ \ {s},
                     ![p].at = IF pub[p].todo = {s} THEN "idle" ELSE "sending"]

\* The channel takes the event.
Send(p, s) ==
  /\ pub[p].at = "sending" /\ s \in pub[p].todo
  /\ ~sub[s].chClosed /\ Len(sub[s].ch) < Capacity
  /\ LET event == [from |-> p, n |-> pub[p].n] IN
       /\ sub' = [sub EXCEPT ![s].ch = Append(@, event)]
       /\ owed' = IF SubCtxDone(s) THEN owed ELSE [owed EXCEPT ![s] = @ \cup {event}]
  /\ Passed(p, s)
  /\ UNCHANGED <<closed, ctxDone, lock, shutdown, delivered, lost>>

\* Slip: a full channel drops the event of a QoS1 subscription as well.
DropAny(p, s) ==
  /\ pub[p].at = "sending" /\ s \in pub[p].todo
  /\ ~sub[s].chClosed /\ Len(sub[s].ch) = Capacity
  /\ Passed(p, s)
  /\ UNCHANGED <<closed, ctxDone, lock, shutdown, sub, delivered, owed, lost>>

\* QoS0: the channel is full.
Drop(p, s) ==
  /\ pub[p].at = "sending" /\ s \in pub[p].todo \ Guaranteed
  /\ ~sub[s].chClosed /\ Len(sub[s].ch) = Capacity
  /\ Passed(p, s)
  /\ UNCHANGED <<closed, ctxDone, lock, shutdown, sub, delivered, owed, lost>>

\* QoS1: the context is done, and the whole call returns.
GiveUp(p, s) ==
  /\ pub[p].at = "sending" /\ s \in pub[p].todo \cap Guaranteed
  /\ ctxDone
  /\ pub' = [pub EXCEPT ![p].at = "idle", ![p].todo = {}]
  /\ UNCHANGED <<closed, ctxDone, lock, shutdown, sub, delivered, owed, lost>>

\* A send on a channel that is closed, before it or while it waits, panics. The
\* caller recovers and may publish again, as recoverWorker does at once; the
\* rest of the copied subscriptions do not get the event.
SendPanics(p, s) ==
  /\ pub[p].at = "sending" /\ s \in pub[p].todo
  /\ sub[s].chClosed
  /\ pub' = [pub EXCEPT ![p].at = "idle", ![p].todo = {}]
  /\ lost' = [t \in Subs |-> IF t \in pub[p].todo
                             THEN lost[t] \cup {[from |-> p, n |-> pub[p].n]}
                             ELSE lost[t]]
  /\ UNCHANGED <<closed, ctxDone, lock, shutdown, sub, delivered, owed>>

-----------------------------------------------------------------------------
(* The delivery goroutine of a subscription *)

\* An event is taken out of the channel, in the loop or in the drain, and
\* OnEvent is called.
Take(s) ==
  /\ sub[s].worker \in {"waiting", "draining"} /\ sub[s].ch # <<>>
  /\ LET event == Head(sub[s].ch) IN
       /\ delivered' = [delivered EXCEPT ![s][event.from] = Append(@, event.n)]
       /\ owed' = [owed EXCEPT ![s] = @ \ {event}]
  /\ sub' = [sub EXCEPT ![s].ch = Tail(@),
              ![s].worker = IF @ = "waiting" THEN "handling" ELSE "drain_handling"]
  /\ UNCHANGED <<closed, ctxDone, lock, shutdown, pub, lost>>

\* OnEvent returns, its Unsubscribe (if it called one) first: that needs the
\* lock once, and finds the subscription or does not.
HandlerReturns(s) ==
  /\ sub[s].worker \in {"handling", "drain_handling"}
  /\ sub[s].leaving => lock = "free" /\ s \notin Registered
  /\ sub' = [sub EXCEPT ![s].leaving = FALSE,
              ![s].worker = IF @ = "handling" THEN "waiting" ELSE "draining"]
  /\ UNCHANGED <<closed, ctxDone, lock, shutdown, pub, delivered, owed, lost>>

\* Slip: a cancelled goroutine leaves its channel as it is.
StopWithoutDrain(s) ==
  /\ sub[s].worker = "waiting" /\ SubCtxDone(s)
  /\ sub' = [sub EXCEPT ![s].worker = "exited"]
  /\ UNCHANGED <<closed, ctxDone, lock, shutdown, pub, delivered, owed, lost>>

\* The cancellation is picked, also when an event is there.
StartDrain(s) ==
  /\ sub[s].worker = "waiting" /\ SubCtxDone(s)
  /\ sub' = [sub EXCEPT ![s].worker = "draining"]
  /\ UNCHANGED <<closed, ctxDone, lock, shutdown, pub, delivered, owed, lost>>

\* The drain finds nothing more, or the closed channel is empty.
WorkerExits(s) ==
  /\ sub[s].ch = <<>>
  /\ \/ sub[s].worker = "draining"
     \/ sub[s].worker = "waiting" /\ sub[s].chClosed
  /\ sub' = [sub EXCEPT ![s].worker = "exited"]
  /\ UNCHANGED <<closed, ctxDone, lock, shutdown, pub, delivered, owed, lost>>

-----------------------------------------------------------------------------
(* Shutdown, and the cancellation of the engine's context around the bus *)

CloseBus ==
  /\ ~closed
  /\ closed' = TRUE /\ shutdown' = "locking"
  /\ UNCHANGED <<ctxDone, lock, sub, pub, delivered, owed, lost>>

ShutdownLocks ==
  /\ shutdown = "locking" /\ lock = "free"
  /\ lock' = "shutdown" /\ shutdown' = "stopping"
  /\ UNCHANGED <<closed, ctxDone, sub, pub, delivered, owed, lost>>

\* Subscriptions are cancelled and closed one after the other.
ShutdownCancels(s) ==
  /\ shutdown = "stopping" /\ s \in Registered
  /\ \A t \in Registered : ~sub[t].canceled
  /\ sub' = [sub EXCEPT ![s].canceled = TRUE]
  /\ UNCHANGED <<closed, ctxDone, lock, shutdown, pub, delivered, owed, lost>>

\* Slip: the lock is held to the end of Shutdown.
ShutdownKeepsLock ==
  /\ shutdown = "stopping" /\ Registered = {}
  /\ shutdown' = "unlocked"
  /\ UNCHANGED <<closed, ctxDone, lock, sub, pub, delivered, owed, lost>>

ShutdownUnlocks ==
  /\ shutdown = "stopping" /\ Registered = {}
  /\ lock' = "free" /\ shutdown' = "unlocked"
  /\ UNCHANGED <<closed, ctxDone, sub, pub, delivered, owed, lost>>

ShutdownCancelsContext ==
  /\ shutdown = "unlocked"
  /\ ctxDone' = TRUE /\ shutdown' = "waiting"
  /\ UNCHANGED <<closed, lock, sub, pub, delivered, owed, lost>>

\* wg.Wait returns.
ShutdownEnds ==
  /\ shutdown = "waiting"
  /\ \A s \in Subs : sub[s].worker \in {"none", "exited"}
  /\ shutdown' = "returned"
  /\ UNCHANGED <<closed, ctxDone, lock, sub, pub, delivered, owed, lost>>

\* Engine.Stop cancels the context the bus was made with.
CancelParent ==
  /\ ~ctxDone
  /\ ctxDone' = TRUE
  /\ UNCHANGED <<closed, lock, shutdown, sub, pub, delivered, owed, lost>>

-----------------------------------------------------------------------------

PublisherStep(p) ==
  \/ CopySubscriptions(p)
  \/ \E s \in Subs : Send(p, s) \/ Drop(p, s) \/ GiveUp(p, s) \/ SendPanics(p, s)

WorkerStep(s) == Take(s) \/ HandlerReturns(s) \/ StartDrain(s) \/ WorkerExits(s)

ShutdownStep ==
  \/ ShutdownLocks \/ (\E s \in Subs : ShutdownCancels(s))
  \/ ShutdownUnlocks \/ ShutdownCancelsContext \/ ShutdownEnds

Next ==
  \/ \E p \in Pubs : Publish(p) \/ PublisherStep(p)
  \/ \E s \in Subs : \/ \E q \in {0, 1} : Subscribe(s, q)
                     \/ Unsubscribe(s) \/ CloseChannel(s)
                     \/ HandlerLeaves(s) \/ WorkerStep(s)
  \/ CloseBus \/ ShutdownStep \/ CancelParent

Spec == Init /\ [][Next]_vars

\* Goroutines that can run do, OnEvent returns (the bus has no timeout for it)
\* and an Unsubscribe that was called gets the lock. Nobody has to publish,
\* subscribe or shut down.
Fairness ==
  /\ \A p \in Pubs : WF_vars(PublisherStep(p))
  /\ \A s \in Subs : /\ WF_vars(WorkerStep(s)) /\ WF_vars(CloseChannel(s))
                     /\ WF_vars(sub[s].leaving /\ Unsubscribe(s))
  /\ WF_vars(ShutdownStep)

FairSpec == Spec /\ Fairness

-----------------------------------------------------------------------------
(* Properties *)

\* The type of every variable; a channel never holds more than its capacity
\* (make(chan Event, ...)).
TypeOK ==
  /\ closed \in BOOLEAN /\ ctxDone \in BOOLEAN
  /\ lock \in Subs \cup {"free", "shutdown"}
  /\ shutdown \in {"not_called", "locking", "stopping", "unlocked", "waiting", "returned"}
  /\ sub \in [Subs -> Subscriptions]
  /\ \A s \in Subs : Len(sub[s].ch) <= Capacity
  /\ pub \in [Pubs -> [at: {"idle", "checked", "sending"},
                       n: 0..MaxPublish, todo: SUBSET Subs]]
  /\ delivered \in [Subs -> [Pubs -> Seq(1..MaxPublish)]]
  /\ owed \in [Subs -> SUBSET Events] /\ lost \in [Subs -> SUBSET Events]

\* What a subscriber sees of one publisher is in the order it was published
\* and never twice. With QoS1 a number is missing in between only where Publish
\* panicked on the closed channel of a subscription with this one still to come
\* (eventbus.go:234-259; recoverWorker, engine.go:640-665, publishes again),
\* whatever subscribes, unsubscribes and shuts down meanwhile.
DeliveredInOrder ==
  \A s \in Subs, p \in Pubs : \A i \in 1..Len(delivered[s][p]) - 1 :
    LET before == delivered[s][p][i]
        after == delivered[s][p][i + 1]
    IN  /\ before < after
        /\ s \in Guaranteed =>
             \A n \in before + 1..after - 1 : [from |-> p, n |-> n] \in lost[s]

\* A delivery goroutine that has exited left no event behind that was accepted
\* before its cancellation: the drain of deliverEvents.
AcceptedIsDelivered == \A s \in Subs : sub[s].worker = "exited" => owed[s] = {}

\* Once Shutdown has returned no goroutine of the bus runs and no OnEvent is
\* called again, whichever Subscribe or Publish ran against it.
QuietAfterShutdown ==
  shutdown = "returned" => \A s \in Subs : sub[s].worker \in {"none", "exited"}

\* Shutdown returns, although an OnEvent may be waiting for the lock in
\* Unsubscribe and publishers may be waiting for room in a channel.
ShutdownReturns == shutdown = "locking" ~> shutdown = "returned"

\* Publish returns or panics, also when it waits on the full channel of a
\* QoS1 subscription whose goroutine has exited.
PublishReturns == \A p \in Pubs : pub[p].at = "sending" ~> pub[p].at = "idle"

\* Every call into the bus comes back: a Shutdown and a Publish that have begun end,
\* whatever the other goroutines hold or wait for.
CallsReturn == ShutdownReturns /\ PublishReturns
=============================================================================
